-------------------------------- MODULE SqlEngine --------------------------------
(***************************************************************************)
(* The SQL engine of the OpenMUC logger: SqlEngine with the SqlFeed,       *)
(* SqlClient and Transaction it works on, and the Redis cache beside the   *)
(* database.                                                               *)
(*                                                                         *)
(* configure() clears the map of feeds and starts a thread that fills it   *)
(* again, one channel at a time; the map of inputs is never cleared.       *)
(* write() runs on the data manager's thread meanwhile, and read() on      *)
(* others: the maps are plain HashMaps and nothing orders the three.  A    *)
(* write inserts rows one by one, queues each value for the feed and the   *)
(* input of its channel in a Redis MULTI, executes it, and then commits    *)
(* and closes the SQL connection.  The feed tables are MyISAM: a row is    *)
(* there once its INSERT returns, and the commit may fail but takes        *)
(* nothing back.                                                           *)
(*                                                                         *)
(* Database, Redis and the c3p0 pool are modelled from how the code uses   *)
(* them.  A value written is identified by the number of its write.        *)
(***************************************************************************)

EXTENDS Naturals, FiniteSets

CONSTANTS
  Channels,    \* number of channels; lists of channels are in channel order
  FeedIds,     \* number of feeds
  FeedId,      \* the feed id of each channel in each configuration, 0 if below 1
  InputIds,    \* number of inputs
  InputId,     \* the input id of each channel in each configuration, 0 if below 1
  PoolSize,    \* the number of connections of the c3p0 pool
  MaxConfigs,  \* bound: how often configure() is called
  MaxWrites,   \* bound: how often write() is called
  MaxCalls     \* bound: how often the two are called together

Channel == 1 .. Channels
Id == 1 .. FeedIds
Input == 1 .. InputIds
Gen == 1 .. MaxConfigs
Time == 1 .. MaxWrites

ASSUME NumberAssumption ==
  {Channels, FeedIds, InputIds, PoolSize, MaxConfigs, MaxWrites, MaxCalls} \subseteq Nat
ASSUME FeedIdAssumption == FeedId \in [Gen -> [Channel -> Id \cup {0}]]
ASSUME InputIdAssumption == InputId \in [Gen -> [Channel -> Input \cup {0}]]

VARIABLES
  generic,   \* SqlEngine.isGeneric: tables are named by feed id, not by channel
  caching,   \* redis.enabled
  feeds,     \* SqlEngine.feeds
  inputs,    \* SqlEngine.inputs: the id of the input, 0 if there is none
  gen,       \* how often configure() was called
  task,      \* the thread each call of configure() started
  overlap,   \* history: a configure() or read() met an older one under way
  tables,    \* the tables of the database
  rows,      \* the times each table holds a row for
  cache,     \* the time of the value Redis holds under each key, 0 if none
  queued,    \* the values queued in the MULTI of the current write, 0 if none
  free,      \* free connections of the pool
  leaked,    \* connections that are never returned to the pool
  time,      \* how often write() was called: the time of the current write
  writer,    \* the data manager's thread in write()
  reader     \* a thread in read() or readLatest()

settings == <<generic, caching>>
feedVars == <<feeds, inputs, gen, task, overlap>>
storeVars == <<tables, rows, cache>>
writeVars == <<queued, time, writer>>
vars == <<settings, feedVars, storeVars, free, leaked, writeVars, reader>>

\* A table is named by a feed id or by a channel.
Table == {<<"id", i>> : i \in Id} \cup {<<"channel", c>> : c \in Channel}
Feed == [table : Table, id : Id]
NoFeed == [table |-> <<"null", 0>>, id |-> 0]

\* The feed of channel c in configuration g, as parseTable and connect make it.
FeedOf(g, c) ==
  [table |-> IF generic THEN <<"id", FeedId[g][c]>> ELSE <<"channel", c>>,
   id |-> FeedId[g][c]]

\* What Redis knows: the last values of feeds and of inputs.
Key == {<<"feed", i>> : i \in Id} \cup {<<"input", i>> : i \in Input}
Nothing == [k \in Key |-> 0]
Idle(result) == [stage |-> "idle", at |-> 1, valid |-> {}, result |-> result]

TypeOK ==
  /\ generic \in BOOLEAN /\ caching \in BOOLEAN
  /\ feeds \in [Channel -> Feed \cup {NoFeed}] /\ inputs \in [Channel -> Input \cup {0}]
  /\ gen \in 0 .. MaxConfigs
  /\ task \in [Gen -> [stage : {"none", "connect", "create", "input", "put", "abort", "done", "aborted"},
                       at : 1 .. Channels + 1]]
  /\ overlap \in BOOLEAN
  /\ tables \subseteq Table
  /\ rows \in [Table -> SUBSET Time]
  /\ cache \in [Key -> Time \cup {0}] /\ queued \in [Key -> Time \cup {0}]
  /\ free \in 0 .. PoolSize /\ leaked \in 0 .. PoolSize
  /\ time \in 0 .. MaxWrites
  /\ writer \in [stage : {"idle", "connect", "loop", "input", "commit", "abort"},
                 at : 1 .. Channels + 1, valid : SUBSET Channel,
                 result : {"none", "ok", "failed"}]
  /\ reader \in [stage : {"idle", "put"}, channel : Channel \cup {0}, gen : Gen \cup {0}]

Init ==
  /\ generic \in BOOLEAN /\ caching \in BOOLEAN
  /\ feeds = [c \in Channel |-> NoFeed] /\ inputs = [c \in Channel |-> 0]
  /\ gen = 0
  /\ task = [g \in Gen |-> [stage |-> "none", at |-> 1]]
  /\ overlap = FALSE
  /\ tables = {}
  /\ rows = [t \in Table |-> {}]
  /\ cache = Nothing /\ queued = Nothing
  /\ free = PoolSize /\ leaked = 0
  /\ time = 0
  /\ writer = Idle("none")
  /\ reader = [stage |-> "idle", channel |-> 0, gen |-> 0]

--------------------------------------------------------------------------------
(* Connections: SqlClient.getTransaction and Transaction *)

\* Mutant: a connection is taken though none is free.
ConnectedAnyway == free' = free - 1 /\ UNCHANGED leaked

\* getConnection waits while all connections are taken.  If it may open one,
\* the database may refuse it, or setAutoCommit fail in the constructor of
\* Transaction, which then keeps it.
Connected == free > 0 /\ free' = free - 1 /\ UNCHANGED leaked
Refused == free > 0 /\ UNCHANGED <<free, leaked>>
KeptByConstructor == free > 0 /\ free' = free - 1 /\ leaked' = leaked + 1

\* Transaction.close commits and closes; a commit that throws skips the close.
Returned == free' = free + 1 /\ UNCHANGED leaked
KeptByCommit == leaked' = leaked + 1 /\ UNCHANGED free

--------------------------------------------------------------------------------
(* configure() and its thread *)

Busy(g) == task[g].stage \notin {"none", "done", "aborted"}

\* configure() with a map that is emptied or kept.
StartTask(emptied) ==
  /\ gen < MaxConfigs /\ gen + time < MaxCalls
  /\ gen' = gen + 1
  /\ feeds' = emptied
  /\ task' = [task EXCEPT ![gen + 1].stage = "connect"]
  /\ overlap' = (overlap \/ reader.stage = "put" \/ \E g \in Gen : Busy(g))
  /\ UNCHANGED <<settings, inputs, storeVars, free, leaked, writeVars, reader>>

\* Mutant: the feeds of the last configuration stay.
ConfigureKeeping == StartTask(feeds)

Configure == StartTask([c \in Channel |-> NoFeed])

TaskStep(g, from, to) ==
  /\ task[g].stage = from
  /\ task' = [task EXCEPT ![g] = to]
  /\ UNCHANGED <<settings, gen, overlap, rows, cache, writeVars, reader>>

TaskConnect(g) ==
  /\ UNCHANGED <<feeds, inputs, tables>>
  /\ \/ Connected /\ TaskStep(g, "connect", [stage |-> "create", at |-> 1])
     \/ /\ Refused \/ KeptByConstructor
        /\ TaskStep(g, "connect", [stage |-> "aborted", at |-> 1])

Valid(g, c) == c \in Channel /\ FeedId[g][c] > 0

\* Mutant: a channel that is rejected ends the loop.
TaskSkipRest(g) ==
  /\ generic
  /\ task[g].at \in Channel /\ ~Valid(g, task[g].at)
  /\ TaskStep(g, "create", [stage |-> "create", at |-> Channels + 1])
  /\ UNCHANGED <<feeds, inputs, tables, free, leaked>>

\* parseTable throws an EmoncmsSyntaxException, which is logged per channel.
TaskSkip(g) ==
  /\ generic
  /\ task[g].at \in Channel /\ ~Valid(g, task[g].at)
  /\ TaskStep(g, "create", [stage |-> "create", at |-> task[g].at + 1])
  /\ UNCHANGED <<feeds, inputs, tables, free, leaked>>

\* SqlFeed.connect rejects the feed id with an EmoncmsException, which leaves
\* the loop; so does a CREATE TABLE that fails.
TaskAbort(g) ==
  /\ task[g].at \in Channel
  /\ ~generic \/ Valid(g, task[g].at)
  /\ TaskStep(g, "create", [stage |-> "abort", at |-> task[g].at])
  /\ UNCHANGED <<feeds, inputs, tables, free, leaked>>

HasInput(g, c) == InputId[g][c] > 0

TaskCreate(g) ==
  /\ Valid(g, task[g].at)
  /\ TaskStep(g, "create", [stage |-> IF HasInput(g, task[g].at) THEN "input" ELSE "put",
                           at |-> task[g].at])
  /\ tables' = tables \cup {FeedOf(g, task[g].at).table}
  /\ UNCHANGED <<feeds, inputs, free, leaked>>

\* Mutant: an input that is there is kept.
TaskInputIfAbsent(g) ==
  /\ TaskStep(g, "input", [stage |-> "put", at |-> task[g].at])
  /\ inputs' = [inputs EXCEPT ![task[g].at] = IF @ = 0 THEN InputId[g][task[g].at] ELSE @]
  /\ UNCHANGED <<feeds, tables, free, leaked>>

\* hasInput() keeps ids below 1 away from SqlInput.connect.
TaskInput(g) ==
  /\ TaskStep(g, "input", [stage |-> "put", at |-> task[g].at])
  /\ inputs' = [inputs EXCEPT ![task[g].at] = InputId[g][task[g].at]]
  /\ UNCHANGED <<feeds, tables, free, leaked>>

TaskPut(g) ==
  /\ TaskStep(g, "put", [stage |-> "create", at |-> task[g].at + 1])
  /\ feeds' = [feeds EXCEPT ![task[g].at] = FeedOf(g, task[g].at)]
  /\ UNCHANGED <<inputs, tables, free, leaked>>

\* Mutant: the connection is only closed when the loop ran to its end.
TaskEndLeaks(g) ==
  /\ UNCHANGED <<feeds, inputs, tables>>
  /\ \/ /\ task[g].at > Channels
        /\ Returned
        /\ TaskStep(g, "create", [stage |-> "done", at |-> 1])
     \/ UNCHANGED <<free, leaked>> /\ TaskStep(g, "abort", [stage |-> "aborted", at |-> 1])

\* The try-with-resources closes the transaction, however the loop was left.
TaskEnd(g) ==
  /\ UNCHANGED <<feeds, inputs, tables>>
  /\ Returned \/ KeptByCommit
  /\ \/ task[g].at > Channels /\ TaskStep(g, "create", [stage |-> "done", at |-> 1])
     \/ TaskStep(g, "abort", [stage |-> "aborted", at |-> 1])

TaskNext(g) ==
  \/ TaskConnect(g) \/ TaskSkip(g) \/ TaskAbort(g)
  \/ TaskCreate(g) \/ TaskInput(g) \/ TaskPut(g) \/ TaskEnd(g)

--------------------------------------------------------------------------------
(* write() *)

\* The channels whose records are valid, or a MULTI that Redis refuses.
BeginWrite(valid) ==
  /\ writer.stage = "idle" /\ time < MaxWrites /\ gen + time < MaxCalls
  /\ time' = time + 1
  /\ \/ writer' = [stage |-> "connect", at |-> 1, valid |-> valid, result |-> "none"]
     \/ caching /\ writer' = Idle("failed")
  /\ UNCHANGED <<settings, feedVars, storeVars, free, leaked, queued, reader>>

WriteStep(from, stage, result) ==
  /\ writer.stage = from
  /\ writer' = IF stage = "idle" THEN Idle(result)
                ELSE [writer EXCEPT !.stage = stage, !.result = result]
  /\ UNCHANGED <<settings, feedVars, tables, time, reader>>

WriteConnect ==
  /\ UNCHANGED <<rows, cache, queued>>
  /\ \/ Connected /\ WriteStep("connect", "loop", "none")
     \/ (Refused \/ KeptByConstructor) /\ WriteStep("connect", "idle", "failed")

\* A step of the loop over the channels.  A round that goes on takes the next one.
Round(from, to) ==
  /\ writer.stage = from /\ writer.at \in Channel
  /\ writer' = [writer EXCEPT !.stage = to, !.at = IF to = "loop" THEN @ + 1 ELSE @]
  /\ UNCHANGED <<settings, feedVars, tables, free, leaked, time, reader>>

\* One SqlFeed or SqlInput adds its value to the MULTI.
Queue(key) == queued' = [queued EXCEPT ![key] = time]

WriteSkip ==
  /\ writer.at \notin writer.valid
  /\ Round("loop", "loop")
  /\ UNCHANGED <<rows, cache, queued>>

\* A channel without feed: a NullPointerException leaves the loop.  So does a
\* value that is not a number.
WriteBreaks ==
  /\ writer.at \in writer.valid
  /\ Round("loop", "abort")
  /\ UNCHANGED <<rows, cache, queued>>

HasFeed == writer.at \in writer.valid /\ feeds[writer.at] # NoFeed

\* Mutant: the value is cached before it is inserted.
WriteQueuesFirst ==
  /\ HasFeed
  /\ Round("loop", "loop")
  /\ IF caching THEN Queue(<<"feed", feeds[writer.at].id>>) ELSE UNCHANGED queued
  /\ UNCHANGED <<rows, cache>>

\* A SqlException is logged for its channel, and the loop goes on.
WriteInsertFails ==
  /\ HasFeed
  /\ Round("loop", "loop")
  /\ UNCHANGED <<rows, cache, queued>>

Insert ==
  /\ HasFeed /\ feeds[writer.at].table \in tables
  /\ rows' = [rows EXCEPT ![feeds[writer.at].table] = @ \cup {time}]
  /\ UNCHANGED cache

\* Without a cache a RedisUnavailableException ends the round.
WriteUncached == ~caching /\ Insert /\ Round("loop", "loop") /\ UNCHANGED queued

WriteChannel ==
  /\ caching /\ Insert
  /\ Round("loop", "input")
  /\ Queue(<<"feed", feeds[writer.at].id>>)

\* Mutant: a failure to queue the value is logged like one to insert it.
WriteQueueSkips == caching /\ Insert /\ Round("loop", "loop") /\ UNCHANGED queued

\* The row is inserted, but Redis does not take the value: a JedisException.
WriteQueueFails == caching /\ Insert /\ Round("loop", "abort") /\ UNCHANGED queued

\* Mutant: the input is cached at once, not with the MULTI.
WriteInputAtOnce ==
  /\ Round("input", "loop")
  /\ cache' = IF inputs[writer.at] = 0 THEN cache
              ELSE [cache EXCEPT ![<<"input", inputs[writer.at]>>] = time]
  /\ UNCHANGED <<rows, queued>>

WriteInput ==
  /\ Round("input", "loop")
  /\ IF inputs[writer.at] = 0 THEN UNCHANGED queued ELSE Queue(<<"input", inputs[writer.at]>>)
  /\ UNCHANGED <<rows, cache>>

WriteInputFails ==
  /\ Round("input", "abort") /\ inputs[writer.at] # 0
  /\ UNCHANGED <<rows, cache, queued>>

\* redis.exec() sets the queued values in one step.  When it throws, they may
\* be set or not.
Apply == cache' = [k \in Key |-> IF queued[k] # 0 THEN queued[k] ELSE cache[k]]

WriteExec ==
  /\ writer.at > Channels
  /\ UNCHANGED <<rows, queued, free, leaked>>
  /\ \/ ~caching /\ UNCHANGED cache /\ WriteStep("loop", "commit", "none")
     \/ caching /\ Apply /\ WriteStep("loop", "commit", "none")
     \/ caching /\ (Apply \/ UNCHANGED cache) /\ WriteStep("loop", "abort", "none")

\* Mutant: what was queued in a MULTI that failed is left for the next one.
CloseKeepsQueued ==
  /\ UNCHANGED <<rows, cache>>
  /\ \/ queued' = Nothing /\ Returned /\ WriteStep("commit", "idle", "ok")
     \/ queued' = Nothing /\ KeptByCommit /\ WriteStep("commit", "idle", "failed")
     \/ UNCHANGED queued /\ Returned /\ WriteStep("abort", "idle", "failed")

\* The resources are closed in reverse order: the SQL transaction commits,
\* also after an exception, and the MULTI is discarded if it was not executed.
WriteClose ==
  /\ queued' = Nothing
  /\ UNCHANGED <<rows, cache>>
  /\ \/ Returned /\ WriteStep("commit", "idle", "ok")
     \/ KeptByCommit /\ WriteStep("commit", "idle", "failed")
     \/ (Returned \/ KeptByCommit) /\ WriteStep("abort", "idle", "failed")

WriteNext ==
  \/ WriteConnect \/ WriteSkip \/ WriteBreaks \/ WriteInsertFails
  \/ WriteUncached \/ WriteChannel \/ WriteQueueFails
  \/ WriteInput \/ WriteInputFails \/ WriteExec \/ WriteClose

--------------------------------------------------------------------------------
(* getFeed() of read() and readLatest() *)

\* The channel is not in the map: the reader makes a feed for it, without a
\* table, from the channel of the configuration it was called with.
ReadMisses(c, g) ==
  /\ reader.stage = "idle"
  /\ feeds[c] = NoFeed /\ Valid(g, c) /\ g <= gen
  /\ reader' = [stage |-> "put", channel |-> c, gen |-> g]
  /\ overlap' = (overlap \/ g # gen)
  /\ UNCHANGED <<settings, feeds, inputs, gen, task, storeVars, free, leaked, writeVars>>

ReadPuts ==
  /\ reader.stage = "put"
  /\ feeds' = [feeds EXCEPT ![reader.channel] = FeedOf(reader.gen, reader.channel)]
  /\ reader' = [stage |-> "idle", channel |-> 0, gen |-> 0]
  /\ UNCHANGED <<settings, inputs, gen, task, overlap, storeVars, free, leaked, writeVars>>

--------------------------------------------------------------------------------

Next ==
  \/ Configure
  \/ \E g \in Gen : TaskNext(g)
  \/ \E valid \in SUBSET Channel : BeginWrite(valid)
  \/ WriteNext
  \/ \E c \in Channel, g \in Gen : ReadMisses(c, g)
  \/ ReadPuts

Spec == Init /\ [][Next]_vars

\* The threads run, the database answers, and the pool hands a free connection
\* to the thread that waits for one.
FairSpec == Spec /\ WF_vars(WriteNext) /\ \A g \in Gen : WF_vars(TaskNext(g))

--------------------------------------------------------------------------------
(* Properties *)

\* The cache is never ahead of the database: the value Redis holds for a feed or
\* an input, and each value queued for it, is in a row of the database, and with
\* generic table names that of a feed is in the table of the feed.  So it is
\* after every failure.
CacheNeverAhead ==
  \A k \in Key, t \in Time :
    cache[k] = t \/ queued[k] = t =>
      /\ \E table \in Table : t \in rows[table]
      /\ generic /\ k[1] = "feed" => t \in rows[<<"id", k[2]>>]

\* A write that returned normally leaves the cache in step with the database:
\* every feed it stored a row of holds that row's value in the cache.
WriteOkIsCached ==
  generic /\ caching /\ writer.stage = "idle" /\ writer.result = "ok" =>
    \A i \in Id : time \in rows[<<"id", i>>] => cache[<<"feed", i>>] = time

\* The values of a write reach Redis together: no input holds a value that is
\* newer than those of all feeds, also if the write fails half way.
InputFollowsFeed ==
  \A i \in Input : cache[<<"input", i>>] > 0 =>
    \E f \in Id : cache[<<"feed", f>>] >= cache[<<"input", i>>]

\* The times of the rows of a key.  A table that is named by its channel may
\* belong to any feed.
TimesOf(k) ==
  {t \in Time : IF generic /\ k[1] = "feed" THEN t \in rows[<<"id", k[2]>>]
                                           ELSE \E table \in Table : t \in rows[table]}

\* SqlEngine implements CachedStore: in every step of every thread, the cache
\* takes over the newest rows of some feeds and inputs, or keeps what it has.
Store == INSTANCE CachedStore WITH stored <- [k \in Key |-> TimesOf(k)], cached <- cache

ImplementsStore == Store!Spec

\* As long as no configure() or read() met an older one under way, every feed
\* in the map is that of the last configuration: none is left over.
FeedsCurrent ==
  ~overlap /\ gen > 0 => \A c \in Channel : feeds[c] \in {NoFeed, FeedOf(gen, c)}

\* The map of inputs is never cleared, but as long as no configure() met an older
\* one under way, an input in it is no older than that of the last configuration
\* that ran to its end and has one for the channel.
InputsNotOlder ==
  ~overlap => \A g \in Gen, c \in Channel :
    task[g].stage = "done" /\ Valid(g, c) /\ HasInput(g, c) =>
      \E h \in g .. gen : HasInput(h, c) /\ inputs[c] = InputId[h][c]

\* The last configuration's thread ran to its end: every channel with a feed id
\* has a feed, also if an older thread or a reader was under way.
FeedsComplete ==
  gen > 0 =>
    (task[gen].stage = "done" => \A c \in Channel : Valid(gen, c) => feeds[c] # NoFeed)

\* Every connection of the pool is free, held by one task or by the writer, or was
\* kept by a commit or a constructor that failed: none is returned twice, and no
\* other way out of a loop keeps one.
Holds(stage) == stage \in {"create", "input", "put", "abort", "loop", "commit"}
One(held) == IF held THEN 1 ELSE 0
Holding == {g \in Gen : Holds(task[g].stage)}
ConnectionsAccounted ==
  free + leaked + Cardinality(Holding) + One(Holds(writer.stage)) = PoolSize

\* Every write returns, unless failed commits and constructors have kept all
\* connections of the pool: then it waits in getConnection for ever.
WriteEnds == writer.stage # "idle" ~> writer.stage = "idle" \/ leaked = PoolSize

\* With generic = false tables are named by channel, and "feed" is an optional
\* setting: the thread leaves its loop at a channel only because that channel's
\* CREATE TABLE failed, never because the channel has no feed id.
FeedIdIsOptional ==
  ~generic => \A g \in Gen : task[g].stage = "abort" => Valid(g, task[g].at)
================================================================================
