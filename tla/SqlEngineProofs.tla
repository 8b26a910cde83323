---------------------------- MODULE SqlEngineProofs ----------------------------
(***************************************************************************)
(* Safety of SqlEngine for any number of channels, feeds, connections,     *)
(* configurations and writes.                                              *)
(***************************************************************************)

EXTENDS SqlEngine, FiniteSetTheorems, TLAPS

--------------------------------------------------------------------------------
(* The inductive invariant *)

\* Each call of configure() starts a thread of its own.  A feed is only put for a
\* channel with a feed id, and rows are only inserted by a write that has begun.
StageInv ==
  /\ \A g \in Gen : g > gen => task[g].stage = "none"
  /\ \A g \in Gen : task[g].stage \in {"input", "put"} => Valid(g, task[g].at)
  /\ \A g \in Gen : task[g].stage = "input" => HasInput(g, task[g].at)
  /\ reader.stage = "put" => reader.gen \in Gen /\ Valid(reader.gen, reader.channel)
  /\ writer.stage # "idle" => time \in Time

\* With generic names, the table of a feed is that of its id.
FeedInv ==
  generic => \A c \in Channel : feeds[c] # NoFeed => feeds[c].table = <<"id", feeds[c].id>>

\* Without overlap, whoever puts a feed works on the last configuration.
CurrentInv ==
  ~overlap => /\ \A g \in Gen : Busy(g) => g = gen
              /\ reader.stage = "put" => reader.gen = gen

\* The last configuration's thread has put a feed for each channel behind it.
FillInv ==
  gen > 0 /\ task[gen].stage \in {"create", "input", "put"} =>
    \A c \in Channel : c < task[gen].at /\ Valid(gen, c) => feeds[c] # NoFeed

\* Without overlap it has put the input as well, before the feed.
Passed(c) == c < task[gen].at \/ (c = task[gen].at /\ task[gen].stage = "put")
InputInv ==
  ~overlap /\ gen > 0 /\ task[gen].stage \in {"create", "input", "put"} =>
    \A c \in Channel :
      Passed(c) /\ Valid(gen, c) /\ HasInput(gen, c) => inputs[c] = InputId[gen][c]

\* The rows of the current write are queued until the MULTI is executed, and
\* then cached.
Stored(values) == \A i \in Id : time \in rows[<<"id", i>>] => values[<<"feed", i>>] = time
RowInv ==
  /\ \A table \in Table : \A t \in rows[table] : t <= time
  /\ writer.stage = "connect" => \A table \in Table : time \notin rows[table]
  /\ generic /\ caching /\ writer.stage \in {"loop", "input"} => Stored(queued)
  /\ generic /\ caching /\ writer.stage = "commit" => Stored(cache)

\* Only values of the current write are queued, and an input's behind a feed's.
FeedQueued == \E f \in Id : queued[<<"feed", f>>] = time
QueueInv ==
  /\ writer.stage \in {"idle", "connect"} => \A k \in Key : queued[k] = 0
  /\ \A k \in Key : queued[k] \in {0, time}
  /\ \A i \in Input : queued[<<"input", i>>] # 0 => FeedQueued
  /\ writer.stage = "input" => FeedQueued

IInv ==
  /\ TypeOK /\ ConnectionsAccounted
  /\ StageInv /\ FeedInv /\ CurrentInv /\ FillInv /\ InputInv /\ RowInv /\ QueueInv
  /\ CacheNeverAhead /\ WriteOkIsCached /\ InputFollowsFeed
  /\ FeedsCurrent /\ InputsNotOlder /\ FeedsComplete

--------------------------------------------------------------------------------
(* Types and connections *)

\* The bounds are natural numbers, and a feed id that is set is an Id.
LEMMA BoundsAreNatural ==
  /\ Channels \in Nat /\ FeedIds \in Nat /\ InputIds \in Nat /\ PoolSize \in Nat
  /\ MaxConfigs \in Nat /\ MaxWrites \in Nat
  BY NumberAssumption

LEMMA FeedOfType ==
  ASSUME NEW g \in Gen, NEW c, Valid(g, c), generic \in BOOLEAN
  PROVE  c \in Channel /\ FeedOf(g, c) \in Feed /\ FeedOf(g, c) # NoFeed
<1>1. c \in Channel /\ FeedId[g][c] \in Id
  BY FeedIdAssumption, BoundsAreNatural DEF Valid, Id
<1>2. FeedOf(g, c).table \in Table
  BY <1>1 DEF FeedOf, Table
<1>3. FeedOf(g, c).id # 0
  BY <1>1 DEF FeedOf, Id
<1>4. QED BY <1>1, <1>2, <1>3 DEF FeedOf, Feed, NoFeed

\* configure() starts the thread of the next configuration, and no other.
LEMMA ConfigureEffect ==
  ASSUME TypeOK, Configure
  PROVE  /\ gen \in Nat /\ gen + 1 \in Gen /\ gen + 1 > gen
         /\ gen' = gen + 1 /\ gen' \in 0 .. MaxConfigs
         /\ task' = [task EXCEPT ![gen + 1].stage = "connect"]
         /\ task'[gen + 1].stage = "connect"
         /\ \A g \in Gen : g # gen + 1 => task'[g] = task[g]
<1>1. /\ gen < MaxConfigs /\ gen' = gen + 1
      /\ task' = [task EXCEPT ![gen + 1].stage = "connect"]
  BY DEF Configure, StartTask
<1>2. gen \in Nat /\ gen + 1 \in 1 .. MaxConfigs /\ gen + 1 > gen
  <2>1. gen \in 0 .. MaxConfigs
    BY DEF TypeOK
  <2>2. QED BY <1>1, <2>1, BoundsAreNatural
<1>3. gen + 1 \in Gen
  BY <1>2 DEF Gen
<1>4. DOMAIN task = Gen /\ task[gen + 1] \in
        [stage : {"none", "connect", "create", "input", "put", "abort", "done", "aborted"},
         at : 1 .. Channels + 1]
  BY <1>3 DEF TypeOK
<1>5. QED BY <1>1, <1>2, <1>3, <1>4

\* The threads that hold a connection are finitely many, and one that takes or
\* gives back a connection changes their number by one.
LEMMA HoldingIsFinite ==
  /\ IsFiniteSet(Holding) /\ Cardinality(Holding) \in Nat
  /\ IsFiniteSet(Gen)
<1>1. IsFiniteSet(Gen)
  BY FS_Interval, BoundsAreNatural DEF Gen
<1>2. Holding \subseteq Gen
  BY DEF Holding
<1>3. QED BY <1>1, <1>2, FS_Subset, FS_CardinalityType

LEMMA HoldingChange ==
  ASSUME TypeOK, NEW g \in Gen, NEW from, NEW to, TaskStep(g, from, to)
  PROVE  Cardinality(Holding') = Cardinality(Holding) + One(Holds(to.stage)) - One(Holds(from))
<1>1. task[g].stage = from /\ task' = [task EXCEPT ![g] = to]
  BY DEF TaskStep
<1>2. \A h \in Gen : task'[h] = IF h = g THEN to ELSE task[h]
  BY <1>1 DEF TypeOK
<1>3. g \in Holding <=> Holds(from)
  BY <1>1 DEF Holding, Holds
<1>4. CASE Holds(to.stage)
  <2>1. Holding' = Holding \cup {g}
    BY <1>2, <1>4 DEF Holding, Holds
  <2>2. Cardinality(Holding \cup {g}) =
          IF g \in Holding THEN Cardinality(Holding) ELSE Cardinality(Holding) + 1
    BY HoldingIsFinite, FS_AddElement
  <2>3. One(Holds(to.stage)) = 1
    BY <1>4 DEF One
  <2>4. One(Holds(from)) = IF g \in Holding THEN 1 ELSE 0
    BY <1>3 DEF One, Holds
  <2>5. QED BY <2>1, <2>2, <2>3, <2>4, HoldingIsFinite
<1>5. CASE ~Holds(to.stage)
  <2>1. Holding' = Holding \ {g}
    BY <1>2, <1>5 DEF Holding, Holds
  <2>2. Cardinality(Holding \ {g}) =
          IF g \in Holding THEN Cardinality(Holding) - 1 ELSE Cardinality(Holding)
    BY HoldingIsFinite, FS_RemoveElement
  <2>3. One(Holds(to.stage)) = 0
    BY <1>5 DEF One
  <2>4. One(Holds(from)) = IF g \in Holding THEN 1 ELSE 0
    BY <1>3 DEF One, Holds
  <2>5. QED BY <2>1, <2>2, <2>3, <2>4, HoldingIsFinite
<1>6. QED BY <1>4, <1>5
\* A step that leaves the threads of configure() alone keeps their connections.
LEMMA HoldingKept ==
  ASSUME UNCHANGED task
  PROVE  Cardinality(Holding') = Cardinality(Holding)
  BY DEF Holding

\* What each step takes from the pool and gives back to it.
LEMMA AccountTask ==
  ASSUME TypeOK, ConnectionsAccounted, NEW g \in Gen, TaskNext(g)
  PROVE  ConnectionsAccounted' /\ free' \in Nat /\ leaked' \in Nat
<1>0. /\ free \in Nat /\ leaked \in Nat /\ PoolSize \in Nat
      /\ Cardinality(Holding) \in Nat /\ One(Holds(writer.stage)) \in {0, 1}
  BY BoundsAreNatural, HoldingIsFinite DEF TypeOK, One
<1>1. CASE TaskConnect(g)
  <2>1. CASE Connected /\ TaskStep(g, "connect", [stage |-> "create", at |-> 1])
    <3>1. Cardinality(Holding') = Cardinality(Holding) + 1
      BY <2>1, HoldingChange, HoldingIsFinite DEF One, Holds
    <3>2. QED
      BY <2>1, <3>1, <1>0 DEF ConnectionsAccounted, Connected, TaskStep, writeVars
  <2>2. CASE /\ Refused \/ KeptByConstructor
             /\ TaskStep(g, "connect", [stage |-> "aborted", at |-> 1])
    <3>1. Cardinality(Holding') = Cardinality(Holding)
      BY <2>2, HoldingChange, HoldingIsFinite DEF One, Holds
    <3>2. QED
      BY <2>2, <3>1, <1>0
         DEF ConnectionsAccounted, Refused, KeptByConstructor, TaskStep, writeVars
  <2>3. QED BY <1>1, <2>1, <2>2 DEF TaskConnect
<1>2. CASE TaskSkip(g) \/ TaskAbort(g) \/ TaskCreate(g) \/ TaskInput(g) \/ TaskPut(g)
  <2>1. PICK from \in {"create", "input", "put"},
             to \in [stage : {"create", "input", "put", "abort"}, at : Nat] :
          TaskStep(g, from, to)
    <3>1. task[g].at \in Nat /\ task[g].at + 1 \in Nat
      BY BoundsAreNatural DEF TypeOK
    <3>2. QED BY <1>2, <3>1 DEF TaskSkip, TaskAbort, TaskCreate, TaskInput, TaskPut
  <2>2. Cardinality(Holding') = Cardinality(Holding)
    <3>1. One(Holds(to.stage)) = 1 /\ One(Holds(from)) = 1
      BY <2>1 DEF One, Holds
    <3>2. QED BY <2>1, <3>1, HoldingChange, HoldingIsFinite
  <2>3. UNCHANGED <<free, leaked>>
    BY <1>2 DEF TaskSkip, TaskAbort, TaskCreate, TaskInput, TaskPut
  <2>4. QED BY <2>1, <2>2, <2>3, <1>0 DEF ConnectionsAccounted, TaskStep, writeVars
<1>3. CASE TaskEnd(g)
  <2>1. PICK from \in {"create", "abort"}, stage \in {"done", "aborted"} :
          TaskStep(g, from, [stage |-> stage, at |-> 1])
    BY <1>3 DEF TaskEnd
  <2>2. Cardinality(Holding') = Cardinality(Holding) - 1
    <3>1. One(Holds([stage |-> stage, at |-> 1].stage)) = 0 /\ One(Holds(from)) = 1
      BY <2>1 DEF One, Holds
    <3>2. QED BY <2>1, <3>1, HoldingChange, HoldingIsFinite
  <2>3. One(Holds(writer.stage))' = One(Holds(writer.stage))
    BY <2>1 DEF TaskStep, writeVars
  <2>4. \/ free' = free + 1 /\ leaked' = leaked
        \/ leaked' = leaked + 1 /\ free' = free
    BY <1>3 DEF TaskEnd, Returned, KeptByCommit
  <2>5. QED BY <2>2, <2>3, <2>4, <1>0 DEF ConnectionsAccounted
<1>4. QED BY <1>1, <1>2, <1>3 DEF TaskNext

LEMMA AccountWrite ==
  ASSUME TypeOK, ConnectionsAccounted, WriteNext
  PROVE  ConnectionsAccounted' /\ free' \in Nat /\ leaked' \in Nat
<1>0. /\ free \in Nat /\ leaked \in Nat /\ PoolSize \in Nat
      /\ Cardinality(Holding) \in Nat /\ One(Holds(writer.stage)) \in {0, 1}
  BY BoundsAreNatural, HoldingIsFinite DEF TypeOK, One
<1>1. CASE WriteConnect
  <2>1. Cardinality(Holding') = Cardinality(Holding)
    BY <1>1, HoldingKept DEF WriteConnect, WriteStep, feedVars
  <2>2. One(Holds(writer.stage)) = 0
    BY <1>1 DEF WriteConnect, WriteStep, One, Holds
  <2>3. CASE Connected /\ WriteStep("connect", "loop", "none")
    <3>1. One(Holds(writer.stage))' = 1
      BY <2>3 DEF WriteStep, TypeOK, One, Holds
    <3>2. QED BY <2>1, <2>2, <2>3, <3>1, <1>0 DEF Connected, ConnectionsAccounted
  <2>4. CASE (Refused \/ KeptByConstructor) /\ WriteStep("connect", "idle", "failed")
    <3>1. One(Holds(writer.stage))' = 0
      BY <2>4 DEF WriteStep, Idle, One, Holds
    <3>2. QED
      BY <2>1, <2>2, <2>4, <3>1, <1>0 DEF Refused, KeptByConstructor, ConnectionsAccounted
  <2>5. QED BY <1>1, <2>3, <2>4 DEF WriteConnect
<1>2. CASE \E from \in {"loop", "input"}, to \in {"loop", "input", "abort"} : Round(from, to)
  <2>1. Cardinality(Holding') = Cardinality(Holding)
    BY <1>2, HoldingKept DEF Round, feedVars
  <2>2. QED
    BY <1>2, <2>1, <1>0 DEF Round, ConnectionsAccounted, TypeOK, One, Holds
<1>3. CASE WriteExec
  <2>1. Cardinality(Holding') = Cardinality(Holding)
    BY <1>3, HoldingKept DEF WriteExec, WriteStep, feedVars
  <2>2. QED
    BY <1>3, <2>1, <1>0 DEF WriteExec, WriteStep, ConnectionsAccounted, TypeOK, One, Holds
<1>4. CASE WriteClose
  <2>1. Cardinality(Holding') = Cardinality(Holding)
    BY <1>4, HoldingKept DEF WriteClose, WriteStep, feedVars
  <2>2. QED
    BY <1>4, <2>1, <1>0
       DEF WriteClose, WriteStep, Idle, Returned, KeptByCommit,
           ConnectionsAccounted, TypeOK, One, Holds
<1>5. QED
  BY <1>1, <1>2, <1>3, <1>4
     DEF WriteNext, WriteSkip, WriteBreaks, WriteInsertFails, WriteUncached, WriteChannel,
         WriteQueueFails, WriteInput, WriteInputFails

LEMMA AccountStep ==
  ASSUME TypeOK, ConnectionsAccounted, StageInv, [Next]_vars
  PROVE  /\ ConnectionsAccounted'
         /\ free' \in 0 .. PoolSize /\ leaked' \in 0 .. PoolSize
<1>0. /\ free \in Nat /\ leaked \in Nat /\ PoolSize \in Nat
      /\ Cardinality(Holding) \in Nat /\ One(Holds(writer.stage)) \in {0, 1}
  BY BoundsAreNatural, HoldingIsFinite DEF TypeOK, One
<1>1. SUFFICES ConnectionsAccounted' /\ free' \in Nat /\ leaked' \in Nat
  <2>1. Cardinality(Holding') \in Nat
    <3>1. Holding' \subseteq Gen
      BY DEF Holding
    <3>2. QED BY <3>1, HoldingIsFinite, FS_Subset, FS_CardinalityType
  <2>2. One(Holds(writer.stage))' \in {0, 1}
    BY DEF One
  <2>3. QED BY <2>1, <2>2, <1>0 DEF ConnectionsAccounted
<1>2. CASE Configure
  <2>1. gen + 1 \in Gen /\ task[gen + 1].stage = "none"
    BY <1>2, ConfigureEffect DEF StageInv
  <2>2. Holding' = Holding
    BY <1>2, <2>1, ConfigureEffect DEF Holding, Holds
  <2>3. QED
    BY <1>2, <2>2, <1>0 DEF Configure, StartTask, writeVars, ConnectionsAccounted
<1>3. CASE \E g \in Gen : TaskNext(g)
  BY <1>3, AccountTask
<1>4. CASE WriteNext
  BY <1>4, AccountWrite
<1>5. ASSUME NEW valid \in SUBSET Channel, BeginWrite(valid)
      PROVE  ConnectionsAccounted' /\ free' \in Nat /\ leaked' \in Nat
  <2>1. Cardinality(Holding') = Cardinality(Holding)
    BY <1>5, HoldingKept DEF BeginWrite, feedVars
  <2>2. QED
    BY <1>5, <2>1, <1>0 DEF BeginWrite, Idle, ConnectionsAccounted, TypeOK, One, Holds
<1>6. CASE UNCHANGED <<task, free, leaked, writer>>
  BY <1>6, <1>0, HoldingKept DEF ConnectionsAccounted
<1>7. QED
  BY <1>2, <1>3, <1>4, <1>5, <1>6
     DEF Next, vars, ReadMisses, ReadPuts, feedVars, writeVars
\* A step keeps the types.
LEMMA TypeStep ==
  ASSUME TypeOK, ConnectionsAccounted, StageInv, [Next]_vars
  PROVE  TypeOK'
<1> USE BoundsAreNatural
<1>0. free' \in 0 .. PoolSize /\ leaked' \in 0 .. PoolSize
  BY AccountStep
<1>1. CASE Configure
  <2>1. gen + 1 \in Gen /\ gen' = gen + 1 /\ gen' \in 0 .. MaxConfigs
    BY <1>1, ConfigureEffect
  <2>2. [task[gen + 1] EXCEPT !.stage = "connect"] \in
          [stage : {"none", "connect", "create", "input", "put", "abort", "done", "aborted"},
           at : 1 .. Channels + 1]
    BY <2>1 DEF TypeOK
  <2>3. task' \in [Gen -> [stage : {"none", "connect", "create", "input", "put", "abort", "done", "aborted"},
                           at : 1 .. Channels + 1]]
    BY <1>1, <2>1, <2>2 DEF Configure, StartTask, TypeOK
  <2>4. overlap' \in BOOLEAN
    BY <1>1 DEF Configure, StartTask, TypeOK
  <2>5. QED
    BY <1>0, <1>1, <2>1, <2>3, <2>4
       DEF Configure, StartTask, settings, storeVars, writeVars, TypeOK
<1>2. ASSUME NEW g \in Gen, TaskNext(g) PROVE TypeOK'
  <2> USE <1>0 DEF TaskStep, settings, writeVars
  <2>1. CASE TaskConnect(g)
    <3>1. 1 \in 1 .. Channels + 1
      OBVIOUS
    <3>2. task' = [task EXCEPT ![g] = [stage |-> "create", at |-> 1]]
          \/ task' = [task EXCEPT ![g] = [stage |-> "aborted", at |-> 1]]
      BY <2>1 DEF TaskConnect
    <3>3. QED BY <2>1, <3>1, <3>2 DEF TaskConnect, TypeOK
  <2>2. CASE TaskSkip(g) BY <2>2 DEF TaskSkip, TypeOK, Channel
  <2>3. CASE TaskAbort(g) BY <2>3 DEF TaskAbort, TypeOK
  <2>4. CASE TaskCreate(g)
    <3>1. FeedOf(g, task[g].at).table \in Table
      BY <2>4, FeedOfType DEF TaskCreate, TypeOK, Feed
    <3>2. QED BY <2>4, <3>1 DEF TaskCreate, TypeOK
  <2>5. CASE TaskInput(g)
    <3>1. InputId[g][task[g].at] \in Input \cup {0}
      BY <2>5, InputIdAssumption DEF TaskInput, StageInv, Valid
    <3>2. QED BY <2>5, <3>1 DEF TaskInput, TypeOK
  <2>6. CASE TaskPut(g)
    <3>1. task[g].at \in Channel /\ FeedOf(g, task[g].at) \in Feed
      BY <2>6, FeedOfType DEF TaskPut, TypeOK, StageInv
    <3>2. task[g].at + 1 \in 1 .. Channels + 1
      BY <3>1 DEF Channel
    <3>3. feeds' \in [Channel -> Feed \cup {NoFeed}]
      BY <2>6, <3>1 DEF TaskPut, TypeOK
    <3>4. task' \in [Gen -> [stage : {"none", "connect", "create", "input", "put", "abort", "done",
                                     "aborted"}, at : 1 .. Channels + 1]]
      BY <2>6, <3>2 DEF TaskPut, TypeOK
    <3>5. UNCHANGED <<generic, caching, inputs, gen, overlap, tables, rows, cache, queued, free,
                      leaked, time, writer, reader>>
      BY <2>6 DEF TaskPut
    <3>6. QED BY <3>3, <3>4, <3>5 DEF TypeOK
  <2>7. CASE TaskEnd(g) BY <2>7 DEF TaskEnd, TypeOK
  <2>8. QED BY <1>2, <2>1, <2>2, <2>3, <2>4, <2>5, <2>6, <2>7 DEF TaskNext
<1>3. ASSUME NEW valid \in SUBSET Channel, BeginWrite(valid) PROVE TypeOK'
  BY <1>0, <1>3 DEF BeginWrite, Idle, settings, feedVars, storeVars, TypeOK
<1>4. CASE WriteNext
  <2> USE <1>0 DEF settings, feedVars
  <2>1. CASE WriteConnect
    <3>1. 1 \in 1 .. Channels + 1
      OBVIOUS
    <3>2. writer' \in {[writer EXCEPT !.stage = "loop", !.result = "none"], Idle("failed")}
      BY <2>1 DEF WriteConnect, WriteStep
    <3>3. writer' \in [stage : {"idle", "connect", "loop", "input", "commit", "abort"},
                       at : 1 .. Channels + 1, valid : SUBSET Channel,
                       result : {"none", "ok", "failed"}]
      <4>1. writer \in [stage : {"idle", "connect", "loop", "input", "commit", "abort"},
                         at : 1 .. Channels + 1, valid : SUBSET Channel,
                         result : {"none", "ok", "failed"}]
        BY DEF TypeOK
      <4>2. CASE writer' = [writer EXCEPT !.stage = "loop", !.result = "none"]
        BY <4>1, <4>2
      <4>3. CASE writer' = [stage |-> "idle", at |-> 1, valid |-> {}, result |-> "failed"]
        BY <3>1, <4>3
      <4>4. QED BY <3>2, <4>2, <4>3 DEF Idle
    <3>4. UNCHANGED <<generic, caching, feeds, inputs, gen, task, overlap, tables, rows, cache,
                      queued, time, reader>>
      BY <2>1 DEF WriteConnect, WriteStep
    <3>5. QED BY <3>3, <3>4 DEF TypeOK
  <2>2. ASSUME NEW from \in {"loop", "input"}, NEW to \in {"loop", "input", "abort"},
               Round(from, to), rows' \in [Table -> SUBSET Time], UNCHANGED cache,
               queued' \in [Key -> Time \cup {0}]
        PROVE  TypeOK'
    <3>1. writer.at + 1 \in 1 .. Channels + 1
      BY <2>2 DEF Round, Channel
    <3>2. QED BY <2>2, <3>1 DEF Round, TypeOK
  <2>3. CASE WriteSkip \/ WriteBreaks \/ WriteInsertFails \/ WriteInputFails
    BY <2>2, <2>3 DEF WriteSkip, WriteBreaks, WriteInsertFails, WriteInputFails, TypeOK
  <2>4. CASE WriteUncached \/ WriteChannel \/ WriteQueueFails
    <3>1. feeds[writer.at] \in Feed /\ time \in Time
      BY <2>4 DEF WriteUncached, WriteChannel, WriteQueueFails, Insert, HasFeed, Round, StageInv,
                  TypeOK
    <3>2. rows' \in [Table -> SUBSET Time]
      <4>1. feeds[writer.at].table \in Table
        BY <3>1 DEF Feed
      <4>2. rows[feeds[writer.at].table] \cup {time} \in SUBSET Time
        BY <3>1, <4>1 DEF TypeOK
      <4>3. rows' = [rows EXCEPT ![feeds[writer.at].table] = @ \cup {time}]
        BY <2>4 DEF WriteUncached, WriteChannel, WriteQueueFails, Insert
      <4>4. QED BY <4>1, <4>2, <4>3 DEF TypeOK
    <3>3. queued' \in [Key -> Time \cup {0}] /\ UNCHANGED cache
      <4>1. \/ queued' = queued
            \/ queued' = [queued EXCEPT ![<<"feed", feeds[writer.at].id>>] = time]
        BY <2>4 DEF WriteUncached, WriteChannel, WriteQueueFails, Queue
      <4>2. queued \in [Key -> Time \cup {0}]
        BY DEF TypeOK
      <4>3. queued' \in [Key -> Time \cup {0}]
        BY <3>1, <4>1, <4>2
      <4>4. UNCHANGED cache
        BY <2>4 DEF WriteUncached, WriteChannel, WriteQueueFails, Insert
      <4>5. QED BY <4>3, <4>4
    <3>4. QED BY <2>2, <2>4, <3>2, <3>3 DEF WriteUncached, WriteChannel, WriteQueueFails
  <2>5. CASE WriteInput
    <3>1. queued' \in [Key -> Time \cup {0}]
      <4>1. time \in Time
        BY <2>5 DEF WriteInput, Round, StageInv
      <4>2. \/ queued' = queued
            \/ queued' = [queued EXCEPT ![<<"input", inputs[writer.at]>>] = time]
        BY <2>5 DEF WriteInput, Queue
      <4>3. queued \in [Key -> Time \cup {0}]
        BY DEF TypeOK
      <4>4. QED BY <4>1, <4>2, <4>3
    <3>2. QED BY <2>2, <2>5, <3>1 DEF WriteInput, TypeOK
  <2>6. CASE WriteExec
    <3>1. cache' = [k \in Key |-> IF queued[k] # 0 THEN queued[k] ELSE cache[k]] \/ cache' = cache
      BY <2>6 DEF WriteExec, Apply
    <3>2. cache' \in [Key -> Time \cup {0}]
      BY <3>1 DEF TypeOK
    <3>3. UNCHANGED <<generic, caching, feeds, inputs, gen, task, overlap, tables, rows, queued,
                      time, reader>>
      BY <2>6 DEF WriteExec, WriteStep
    <3>4. writer' \in [stage : {"idle", "connect", "loop", "input", "commit", "abort"},
                       at : 1 .. Channels + 1, valid : SUBSET Channel,
                       result : {"none", "ok", "failed"}]
      <4>1. PICK stage \in {"commit", "abort"} :
              writer' = [writer EXCEPT !.stage = stage, !.result = "none"]
        BY <2>6 DEF WriteExec, WriteStep
      <4>2. writer \in [stage : {"idle", "connect", "loop", "input", "commit", "abort"},
                         at : 1 .. Channels + 1, valid : SUBSET Channel,
                         result : {"none", "ok", "failed"}]
        BY DEF TypeOK
      <4>3. QED BY <4>1, <4>2
    <3>5. QED BY <3>2, <3>3, <3>4 DEF TypeOK
  <2>7. CASE WriteClose
    BY <2>7 DEF WriteClose, WriteStep, Idle, Nothing, TypeOK
  <2>8. QED BY <1>4, <2>1, <2>3, <2>4, <2>5, <2>6, <2>7 DEF WriteNext
<1>5. ASSUME NEW c \in Channel, NEW g \in Gen, ReadMisses(c, g) PROVE TypeOK'
  BY <1>0, <1>5 DEF ReadMisses, settings, storeVars, writeVars, TypeOK
<1>6. CASE ReadPuts
  <2>1. reader.channel \in Channel /\ FeedOf(reader.gen, reader.channel) \in Feed
    BY <1>6, FeedOfType DEF ReadPuts, StageInv, TypeOK
  <2>2. QED BY <1>0, <1>6, <2>1 DEF ReadPuts, settings, storeVars, writeVars, TypeOK
<1>7. CASE UNCHANGED vars
  BY <1>7 DEF vars, settings, feedVars, storeVars, writeVars, TypeOK
<1>8. QED BY <1>1, <1>2, <1>3, <1>4, <1>5, <1>6, <1>7 DEF Next

--------------------------------------------------------------------------------
(* Stages and feeds *)

LEMMA StageStep ==
  ASSUME TypeOK, StageInv, [Next]_vars
  PROVE  StageInv'
<1> USE BoundsAreNatural DEF StageInv
<1>1. CASE Configure
  <2>1. gen + 1 \in Gen /\ gen' = gen + 1 /\ gen \in Nat
    BY <1>1, ConfigureEffect
  <2>2. \A g \in Gen : g # gen + 1 => task'[g] = task[g]
    BY <1>1, ConfigureEffect
  <2>3. task'[gen + 1].stage = "connect"
    BY <1>1, ConfigureEffect
  <2>4. \A g \in Gen : g > gen' => g > gen /\ g # gen + 1
    BY <2>1 DEF Gen
  <2>5. \A g \in Gen : /\ task'[g].stage \in {"input", "put"} => Valid(g, task'[g].at)
                      /\ task'[g].stage = "input" => HasInput(g, task'[g].at)
    BY <2>2, <2>3
  <2>6. QED
    BY <1>1, <2>2, <2>4, <2>5 DEF Configure, StartTask, writeVars
<1>2. ASSUME NEW g \in Gen, TaskNext(g) PROVE StageInv'
  <2> USE DEF TaskStep, writeVars, TypeOK
  <2>1. CASE TaskConnect(g) BY <2>1 DEF TaskConnect
  <2>2. CASE TaskSkip(g) BY <2>2 DEF TaskSkip
  <2>3. CASE TaskAbort(g) BY <2>3 DEF TaskAbort
  <2>4. CASE TaskCreate(g) BY <2>4 DEF TaskCreate
  <2>5. CASE TaskInput(g) BY <2>5 DEF TaskInput
  <2>6. CASE TaskPut(g) BY <2>6 DEF TaskPut
  <2>7. CASE TaskEnd(g) BY <2>7 DEF TaskEnd
  <2>8. QED BY <1>2, <2>1, <2>2, <2>3, <2>4, <2>5, <2>6, <2>7 DEF TaskNext
<1>3. ASSUME NEW valid \in SUBSET Channel, BeginWrite(valid) PROVE StageInv'
  BY <1>3 DEF BeginWrite, feedVars, Time, TypeOK
<1>4. CASE WriteNext
  <2>1. UNCHANGED <<gen, task, reader, time>> /\ writer.stage # "idle"
    BY <1>4 DEF WriteNext, WriteConnect, WriteSkip, WriteBreaks, WriteInsertFails, WriteUncached,
                WriteChannel, WriteQueueFails, WriteInput, WriteInputFails, WriteExec, WriteClose, WriteStep, Round, feedVars
  <2>2. QED BY <2>1
<1>5. ASSUME NEW c \in Channel, NEW g \in Gen, ReadMisses(c, g) PROVE StageInv'
  BY <1>5 DEF ReadMisses, writeVars
<1>6. CASE ReadPuts
  BY <1>6 DEF ReadPuts, writeVars
<1>7. CASE UNCHANGED vars
  BY <1>7 DEF vars, feedVars, writeVars
<1>8. QED BY <1>1, <1>2, <1>3, <1>4, <1>5, <1>6, <1>7 DEF Next

\* The writer puts no feed, and the other threads write no row.
LEMMA Separation ==
  ASSUME [Next]_vars
  PROVE  /\ UNCHANGED settings
         /\ WriteNext => UNCHANGED <<settings, feedVars, reader, time>>
         /\ ~WriteNext => /\ UNCHANGED <<rows, cache, queued>>
                          /\ \/ UNCHANGED <<time, writer>>
                             \/ \E valid \in SUBSET Channel : BeginWrite(valid)
<1>1. WriteNext => UNCHANGED <<settings, feedVars, reader, time>>
  BY DEF WriteNext, WriteConnect, WriteSkip, WriteBreaks, WriteInsertFails, WriteUncached,
         WriteChannel, WriteQueueFails, WriteInput, WriteInputFails, WriteExec, WriteClose, WriteStep, Round
<1>2. CASE \E g \in Gen : TaskNext(g)
  BY <1>1, <1>2 DEF TaskNext, TaskConnect, TaskSkip, TaskAbort, TaskCreate, TaskInput, TaskPut,
              TaskEnd, TaskStep, writeVars
<1>3. CASE \E valid \in SUBSET Channel : BeginWrite(valid)
  BY <1>1, <1>3 DEF BeginWrite, storeVars
<1>4. CASE Configure \/ ReadPuts \/ \E c \in Channel, g \in Gen : ReadMisses(c, g)
  BY <1>1, <1>4 DEF Configure, StartTask, ReadPuts, ReadMisses, storeVars, writeVars
<1>5. CASE UNCHANGED vars
  BY <1>5 DEF vars, storeVars, writeVars
<1>6. CASE WriteNext
  BY <1>1, <1>6
<1>7. QED BY <1>2, <1>3, <1>4, <1>5, <1>6 DEF Next

\* How a step can change the map of feeds.
LEMMA FeedsChange ==
  ASSUME TypeOK, StageInv, [Next]_vars
  PROVE  \/ UNCHANGED feeds
         \/ Configure
         \/ \E g \in Gen : TaskPut(g)
         \/ ReadPuts
<1>1. CASE \E g \in Gen : TaskNext(g)
  BY <1>1 DEF TaskNext, TaskConnect, TaskSkip, TaskAbort, TaskCreate, TaskInput, TaskEnd
<1>2. CASE ~\E g \in Gen : TaskNext(g)
  BY <1>2, Separation DEF Next, BeginWrite, ReadMisses, feedVars, vars
<1>3. QED BY <1>1, <1>2

\* A put replaces the feed of one channel by one of a configuration.
LEMMA PutEffect ==
  ASSUME TypeOK, StageInv, (\E g \in Gen : TaskPut(g)) \/ ReadPuts
  PROVE  \E g \in Gen, c \in Channel :
           /\ Valid(g, c)
           /\ feeds' = [feeds EXCEPT ![c] = FeedOf(g, c)]
           /\ UNCHANGED <<generic, gen, overlap>>
           /\ (g = reader.gen /\ reader.stage = "put") \/ Busy(g)
<1>1. CASE ReadPuts
  BY <1>1, FeedOfType DEF ReadPuts, StageInv, TypeOK, settings
<1>2. ASSUME NEW g \in Gen, TaskPut(g)
      PROVE  /\ Valid(g, task[g].at) /\ task[g].at \in Channel /\ Busy(g)
             /\ feeds' = [feeds EXCEPT ![task[g].at] = FeedOf(g, task[g].at)]
             /\ UNCHANGED <<generic, gen, overlap>>
  <2>1. task[g].stage = "put"
    BY <1>2 DEF TaskPut, TaskStep
  <2>2. Valid(g, task[g].at) /\ task[g].at \in Channel
    BY <2>1 DEF StageInv, Valid
  <2>3. QED BY <1>2, <2>1, <2>2 DEF TaskPut, TaskStep, Busy, settings
<1>3. QED BY <1>1, <1>2

\* The feeds of generic tables.
LEMMA FeedStep ==
  ASSUME TypeOK, StageInv, FeedInv, [Next]_vars
  PROVE  FeedInv'
<1>1. UNCHANGED generic
  BY Separation DEF settings
<1>2. CASE UNCHANGED feeds
  BY <1>1, <1>2 DEF FeedInv
<1>3. CASE Configure
  BY <1>3 DEF Configure, StartTask, FeedInv
<1>4. CASE (\E g \in Gen : TaskPut(g)) \/ ReadPuts
  <2>1. PICK g \in Gen, c \in Channel : feeds' = [feeds EXCEPT ![c] = FeedOf(g, c)]
    BY <1>4, PutEffect
  <2>2. generic => FeedOf(g, c).table = <<"id", FeedOf(g, c).id>>
    BY DEF FeedOf
  <2>3. \A d \in Channel : feeds'[d] = IF d = c THEN FeedOf(g, c) ELSE feeds[d]
    BY <2>1 DEF TypeOK
  <2>4. QED BY <1>1, <2>2, <2>3 DEF FeedInv
<1>5. QED BY <1>2, <1>3, <1>4, FeedsChange

\* A thread that is not busy does not become so by a step of its own.
LEMMA BusyStep ==
  ASSUME TypeOK, NEW g \in Gen, TaskNext(g)
  PROVE  /\ \A h \in Gen : Busy(h)' => Busy(h)
         /\ UNCHANGED <<gen, overlap, reader>>
<1>1. PICK from, to : from \in {"connect", "create", "input", "put", "abort"} /\ TaskStep(g, from, to)
  BY DEF TaskNext, TaskConnect, TaskSkip, TaskAbort, TaskCreate, TaskInput, TaskPut, TaskEnd
<1>2. \A h \in Gen : h # g => task'[h] = task[h]
  BY <1>1 DEF TaskStep, TypeOK
<1>3. Busy(g)
  BY <1>1 DEF TaskStep, Busy
<1>4. QED BY <1>1, <1>2, <1>3 DEF TaskStep, Busy

LEMMA CurrentStep ==
  ASSUME TypeOK, StageInv, CurrentInv, [Next]_vars
  PROVE  CurrentInv'
<1>1. CASE Configure
  <2>1. /\ gen + 1 \in Gen /\ gen' = gen + 1
        /\ \A g \in Gen : g # gen + 1 => task'[g] = task[g]
    BY <1>1, ConfigureEffect
  <2>2. ~overlap' => reader.stage # "put" /\ \A g \in Gen : ~Busy(g)
    BY <1>1 DEF Configure, StartTask
  <2>3. ~overlap' => \A g \in Gen : Busy(g)' => g = gen'
    BY <2>1, <2>2 DEF Busy
  <2>4. QED BY <1>1, <2>2, <2>3 DEF Configure, StartTask, CurrentInv
<1>2. ASSUME NEW g \in Gen, TaskNext(g) PROVE CurrentInv'
  BY <1>2, BusyStep DEF CurrentInv
<1>3. CASE WriteNext \/ \E valid \in SUBSET Channel : BeginWrite(valid)
  <2>1. UNCHANGED <<gen, task, overlap, reader>>
    BY <1>3 DEF WriteNext, WriteConnect, WriteSkip, WriteBreaks, WriteInsertFails, WriteUncached,
                WriteChannel, WriteQueueFails, WriteInput, WriteInputFails, WriteExec, WriteClose, WriteStep, Round, BeginWrite, feedVars
  <2>2. QED BY <2>1 DEF CurrentInv, Busy
<1>4. ASSUME NEW c \in Channel, NEW g \in Gen, ReadMisses(c, g) PROVE CurrentInv'
  BY <1>4 DEF ReadMisses, CurrentInv, Busy
<1>5. CASE ReadPuts
  BY <1>5 DEF ReadPuts, CurrentInv, Busy
<1>6. CASE UNCHANGED vars
  BY <1>6 DEF vars, feedVars, CurrentInv, Busy
<1>7. QED BY <1>1, <1>2, <1>3, <1>4, <1>5, <1>6 DEF Next

\* The feeds of the last configuration.
LEMMA FeedsCurrentStep ==
  ASSUME TypeOK, StageInv, CurrentInv, FeedsCurrent, [Next]_vars
  PROVE  FeedsCurrent'
<1>1. UNCHANGED generic
  BY Separation DEF settings
<1>2. \A g, c : FeedOf(g, c)' = FeedOf(g, c)
  BY <1>1 DEF FeedOf
<1>3. CASE Configure
  BY <1>3 DEF Configure, StartTask, FeedsCurrent
<1>4. CASE (\E g \in Gen : TaskPut(g)) \/ ReadPuts
  <2>1. PICK g \in Gen, c \in Channel :
          /\ feeds' = [feeds EXCEPT ![c] = FeedOf(g, c)]
          /\ UNCHANGED <<gen, overlap>>
          /\ (g = reader.gen /\ reader.stage = "put") \/ Busy(g)
    BY <1>4, PutEffect
  <2>2. ~overlap => g = gen
    BY <2>1 DEF CurrentInv
  <2>3. \A d \in Channel : feeds'[d] = IF d = c THEN FeedOf(g, c) ELSE feeds[d]
    BY <2>1 DEF TypeOK
  <2>4. QED BY <1>2, <2>1, <2>2, <2>3 DEF FeedsCurrent
<1>5. CASE UNCHANGED feeds /\ ~Configure
  <2>1. gen' = gen /\ (overlap => overlap')
    <3>1. CASE \E g \in Gen : TaskNext(g)
      BY <3>1, BusyStep
    <3>2. CASE ~\E g \in Gen : TaskNext(g)
      <4>1. ASSUME NEW c \in Channel, NEW g \in Gen, ReadMisses(c, g)
            PROVE  gen' = gen /\ (overlap => overlap')
        BY <4>1 DEF ReadMisses
      <4>2. CASE ReadPuts \/ WriteNext \/ \E valid \in SUBSET Channel : BeginWrite(valid)
        BY <4>2, Separation DEF BeginWrite, ReadPuts, feedVars
      <4>3. QED BY <1>5, <3>2, <4>1, <4>2 DEF Next, feedVars, vars
    <3>3. QED BY <3>1, <3>2
  <2>2. QED BY <1>2, <1>5, <2>1 DEF FeedsCurrent, TypeOK
<1>6. QED BY <1>3, <1>4, <1>5, FeedsChange

\* Only configure() takes feeds away, and only it moves to a new configuration.
LEMMA FeedsKept ==
  ASSUME TypeOK, StageInv, [Next]_vars, ~Configure
  PROVE  gen' = gen /\ \A c \in Channel : feeds[c] # NoFeed => feeds'[c] # NoFeed
<1>1. CASE UNCHANGED feeds
  <2>1. gen' = gen
    <3>1. CASE \E g \in Gen : TaskNext(g)
      BY <3>1, BusyStep
    <3>2. CASE ~\E g \in Gen : TaskNext(g)
      BY <3>2, Separation DEF Next, BeginWrite, ReadPuts, ReadMisses, feedVars, vars
    <3>3. QED BY <3>1, <3>2
  <2>2. QED BY <1>1, <2>1
<1>2. CASE (\E g \in Gen : TaskPut(g)) \/ ReadPuts
  <2>1. PICK g \in Gen, c \in Channel :
          /\ Valid(g, c)
          /\ feeds' = [feeds EXCEPT ![c] = FeedOf(g, c)]
          /\ gen' = gen
    BY <1>2, PutEffect
  <2>2. FeedOf(g, c) # NoFeed
    BY <2>1, FeedOfType DEF TypeOK
  <2>3. \A d \in Channel : feeds'[d] = IF d = c THEN FeedOf(g, c) ELSE feeds[d]
    BY <2>1 DEF TypeOK
  <2>4. QED BY <2>1, <2>2, <2>3
<1>3. QED BY <1>1, <1>2, FeedsChange

\* The last configuration's thread goes on by one channel, and leaves a feed
\* behind if the channel has a feed id.
LEMMA FillTask ==
  ASSUME TypeOK, StageInv, FillInv, FeedsComplete, gen \in Gen, TaskNext(gen),
         UNCHANGED gen, \A c \in Channel : feeds[c] # NoFeed => feeds'[c] # NoFeed
  PROVE  FillInv' /\ FeedsComplete'
<1> USE BoundsAreNatural DEF TaskStep, TypeOK, FillInv, FeedsComplete
<1>1. CASE TaskConnect(gen)
  <2>1. /\ task'[gen].stage \in {"create", "aborted"}
        /\ \A c \in Channel : ~(c < task'[gen].at)
    BY <1>1 DEF TaskConnect, Channel
  <2>2. QED BY <2>1
<1>2. CASE TaskSkip(gen)
  <2>1. /\ task'[gen] = [stage |-> "create", at |-> task[gen].at + 1]
        /\ task[gen].stage = "create" /\ ~Valid(gen, task[gen].at)
    BY <1>2 DEF TaskSkip
  <2>2. \A c \in Channel : c < task[gen].at + 1 => c < task[gen].at \/ c = task[gen].at
    BY DEF Channel
  <2>3. QED BY <2>1, <2>2
<1>3. CASE TaskAbort(gen)
  <2>1. task'[gen].stage = "abort"
    BY <1>3 DEF TaskAbort
  <2>2. QED BY <2>1
<1>4. CASE TaskCreate(gen)
  <2>1. /\ task'[gen].stage \in {"input", "put"} /\ task'[gen].at = task[gen].at
        /\ task[gen].stage = "create"
    BY <1>4 DEF TaskCreate
  <2>2. QED BY <2>1
<1>5. CASE TaskInput(gen)
  <2>1. /\ task'[gen] = [stage |-> "put", at |-> task[gen].at]
        /\ task[gen].stage = "input"
    BY <1>5 DEF TaskInput
  <2>2. QED BY <2>1
<1>6. CASE TaskPut(gen)
  <2>1. /\ task'[gen] = [stage |-> "create", at |-> task[gen].at + 1]
        /\ task[gen].stage = "put" /\ Valid(gen, task[gen].at)
    BY <1>6 DEF TaskPut, StageInv
  <2>2. FeedOf(gen, task[gen].at) # NoFeed /\ task[gen].at \in Channel
    BY <2>1, FeedOfType
  <2>3. feeds'[task[gen].at] # NoFeed
    BY <1>6, <2>2 DEF TaskPut
  <2>4. \A c \in Channel : c < task[gen].at + 1 => c < task[gen].at \/ c = task[gen].at
    BY DEF Channel
  <2>5. QED BY <2>1, <2>3, <2>4
<1>7. CASE TaskEnd(gen)
  <2>1. \/ /\ task'[gen].stage = "done" /\ task[gen].stage = "create"
           /\ task[gen].at > Channels
        \/ task'[gen].stage = "aborted"
    BY <1>7 DEF TaskEnd
  <2>2. task[gen].at > Channels => \A c \in Channel : c < task[gen].at
    BY DEF Channel
  <2>3. QED BY <2>1, <2>2
<1>8. QED BY <1>1, <1>2, <1>3, <1>4, <1>5, <1>6, <1>7 DEF TaskNext

LEMMA FillStep ==
  ASSUME TypeOK, StageInv, FillInv, FeedsComplete, [Next]_vars
  PROVE  FillInv' /\ FeedsComplete'
<1>1. CASE Configure
  <2>1. task'[gen'].stage = "connect"
    BY <1>1, ConfigureEffect
  <2>2. QED BY <2>1 DEF FillInv, FeedsComplete
<1>2. CASE ~Configure
  <2>1. gen' = gen /\ \A c \in Channel : feeds[c] # NoFeed => feeds'[c] # NoFeed
    BY <1>2, FeedsKept
  <2>2. gen > 0 => gen \in Gen
    BY BoundsAreNatural DEF TypeOK, Gen
  <2>3. CASE gen > 0 /\ TaskNext(gen)
    BY <2>1, <2>2, <2>3, FillTask
  <2>4. CASE gen > 0 /\ ~TaskNext(gen)
    <3>1. task'[gen] = task[gen]
      <4>1. ASSUME NEW g \in Gen, TaskNext(g) PROVE task'[gen] = task[gen]
        <5>1. PICK from, to : TaskStep(g, from, to)
          BY <4>1 DEF TaskNext, TaskConnect, TaskSkip, TaskAbort, TaskCreate, TaskInput, TaskPut, TaskEnd
        <5>2. g # gen
          BY <4>1, <2>4
        <5>3. QED BY <2>2, <2>4, <5>1, <5>2 DEF TaskStep, TypeOK
      <4>2. CASE ~\E g \in Gen : TaskNext(g)
        BY <1>2, <4>2, Separation DEF Next, BeginWrite, ReadPuts, ReadMisses, feedVars, vars
      <4>3. QED BY <4>1, <4>2
    <3>2. QED BY <2>1, <3>1 DEF FillInv, FeedsComplete
  <2>5. CASE ~(gen > 0)
    BY <2>1, <2>5 DEF FillInv, FeedsComplete
  <2>6. QED BY <2>3, <2>4, <2>5
<1>3. QED BY <1>1, <1>2

\* Without overlap only the thread of the last configuration puts inputs, and it
\* has put those of all channels behind it.
LEMMA InputTask ==
  ASSUME TypeOK, StageInv, CurrentInv, InputInv, InputsNotOlder, NEW g \in Gen, TaskNext(g),
         ~overlap
  PROVE  InputInv' /\ InputsNotOlder'
<1>1. /\ gen' = gen /\ overlap' = overlap /\ Busy(g)
      /\ \A h \in Gen : h # g => task'[h] = task[h]
  <2>1. PICK from, to : from \in {"connect", "create", "input", "put", "abort"} /\ TaskStep(g, from, to)
    BY DEF TaskNext, TaskConnect, TaskSkip, TaskAbort, TaskCreate, TaskInput, TaskPut, TaskEnd
  <2>2. QED BY <2>1 DEF TaskStep, Busy, TypeOK
<1>2. g = gen /\ gen > 0 /\ gen \in Nat
  BY <1>1, BoundsAreNatural DEF CurrentInv, Gen
<1>3. \A c \in Channel : c \in Nat
  BY DEF Channel
<1>4. task[g].at \in Nat
  BY BoundsAreNatural DEF TypeOK
<1>5. CASE TaskInput(g)
  <2>1. /\ task[g].stage = "input" /\ task[g].at \in Channel /\ HasInput(g, task[g].at)
        /\ task'[g].stage = "put" /\ task'[g].at = task[g].at
        /\ inputs' = [inputs EXCEPT ![task[g].at] = InputId[g][task[g].at]]
    BY <1>5 DEF TaskInput, TaskStep, StageInv, Valid, TypeOK
  <2>2. \A c \in Channel : inputs'[c] = IF c = task[g].at THEN InputId[g][c] ELSE inputs[c]
    BY <2>1 DEF TypeOK
  <2>3. InputInv'
    BY <1>1, <1>2, <1>3, <1>4, <2>1, <2>2 DEF InputInv, Passed
  <2>4. ASSUME NEW h \in Gen, NEW c \in Channel, task'[h].stage = "done", Valid(h, c),
               HasInput(h, c)
        PROVE  \E n \in h .. gen : HasInput(n, c) /\ inputs'[c] = InputId[n][c]
    <3>1. task[h].stage = "done"
      BY <1>1, <2>1, <2>4
    <3>2. PICK n \in h .. gen : HasInput(n, c) /\ inputs[c] = InputId[n][c]
      BY <2>4, <3>1 DEF InputsNotOlder
    <3>3. CASE c = task[g].at
      <4>1. gen \in h .. gen
        BY <1>2, <3>2 DEF Gen
      <4>2. QED BY <1>2, <2>1, <2>2, <3>3, <4>1
    <3>4. CASE c # task[g].at
      BY <2>2, <3>2, <3>4
    <3>5. QED BY <3>3, <3>4
  <2>5. QED BY <1>1, <2>3, <2>4 DEF InputsNotOlder
<1>6. CASE ~TaskInput(g)
  <2>1. inputs' = inputs
    BY <1>6 DEF TaskNext, TaskConnect, TaskSkip, TaskAbort, TaskCreate, TaskPut, TaskEnd
  <2>2. \/ /\ task'[g].stage \in {"create", "input", "put"}
           /\ task[g].stage \in {"create", "put"} /\ task[g].at \in Channel
           /\ \A c \in Channel : Valid(g, c) /\ HasInput(g, c) =>
                (Passed(c)' => Passed(c))
        \/ task'[g].stage \in {"abort", "aborted"}
        \/ task'[g].stage = "create" /\ task'[g].at = 1
        \/ task'[g].stage = "done" /\ task[g].stage = "create" /\ task[g].at > Channels
    <3>1. CASE TaskConnect(g)
      BY <3>1 DEF TaskConnect, TaskStep, TypeOK
    <3>2. CASE TaskSkip(g)
      <4>1. /\ task'[g] = [stage |-> "create", at |-> task[g].at + 1]
            /\ task[g].stage = "create" /\ task[g].at \in Channel /\ ~Valid(g, task[g].at)
        BY <3>2 DEF TaskSkip, TaskStep, TypeOK
      <4>2. QED BY <1>1, <1>2, <1>3, <1>4, <4>1 DEF Passed
    <3>3. CASE TaskAbort(g)
      BY <3>3 DEF TaskAbort, TaskStep, TypeOK
    <3>4. CASE TaskCreate(g)
      <4>1. /\ task'[g].at = task[g].at /\ task[g].stage = "create" /\ task[g].at \in Channel
            /\ \/ task'[g].stage = "input"
               \/ task'[g].stage = "put" /\ ~HasInput(g, task[g].at)
        BY <3>4 DEF TaskCreate, TaskStep, Valid, TypeOK
      <4>2. QED BY <1>1, <1>2, <1>3, <1>4, <4>1 DEF Passed
    <3>5. CASE TaskPut(g)
      <4>1. /\ task'[g] = [stage |-> "create", at |-> task[g].at + 1]
            /\ task[g].stage = "put" /\ task[g].at \in Channel
        BY <3>5 DEF TaskPut, TaskStep, StageInv, Valid, TypeOK
      <4>2. QED BY <1>1, <1>2, <1>3, <1>4, <4>1 DEF Passed
    <3>6. CASE TaskEnd(g)
      BY <3>6 DEF TaskEnd, TaskStep, TypeOK
    <3>7. QED BY <1>6, <3>1, <3>2, <3>3, <3>4, <3>5, <3>6 DEF TaskNext
  <2>3. InputInv'
    <3>1. CASE task'[g].stage = "create" /\ task'[g].at = 1
      <4>1. \A c \in Channel : ~(Passed(c)')
        BY <1>1, <1>2, <3>1 DEF Passed, Channel
      <4>2. QED BY <4>1 DEF InputInv
    <3>2. CASE task'[g].stage \in {"create", "input", "put"} /\ ~(task'[g].at = 1 /\ task'[g].stage = "create")
      BY <1>1, <1>2, <2>1, <2>2, <3>2 DEF InputInv
    <3>3. CASE task'[g].stage \notin {"create", "input", "put"}
      BY <1>1, <1>2, <3>3 DEF InputInv
    <3>4. QED BY <3>1, <3>2, <3>3
  <2>4. ASSUME NEW h \in Gen, NEW c \in Channel, task'[h].stage = "done", Valid(h, c),
               HasInput(h, c)
        PROVE  \E n \in h .. gen : HasInput(n, c) /\ inputs[c] = InputId[n][c]
    <3>1. CASE task[h].stage = "done"
      BY <2>4, <3>1 DEF InputsNotOlder
    <3>2. CASE task[h].stage # "done"
      <4>1. h = gen /\ task[g].stage = "create" /\ task[g].at > Channels
        BY <1>1, <1>2, <2>2, <2>4, <3>2
      <4>2. Passed(c)
        BY <1>2, <1>4, <4>1, BoundsAreNatural DEF Passed, Channel
      <4>3. inputs[c] = InputId[gen][c]
        BY <1>2, <2>4, <4>1, <4>2 DEF InputInv
      <4>4. gen \in h .. gen
        BY <1>2, <4>1
      <4>5. QED BY <2>4, <4>1, <4>3, <4>4
    <3>3. QED BY <3>1, <3>2
  <2>5. QED BY <1>1, <2>1, <2>3, <2>4 DEF InputsNotOlder
<1>7. QED BY <1>5, <1>6

LEMMA InputsStep ==
  ASSUME TypeOK, StageInv, CurrentInv, InputInv, InputsNotOlder, [Next]_vars
  PROVE  InputInv' /\ InputsNotOlder'
<1>1. CASE Configure
  <2>1. /\ gen \in Nat /\ gen' = gen + 1 /\ task'[gen + 1].stage = "connect"
        /\ \A g \in Gen : g # gen + 1 => task'[g] = task[g]
    BY <1>1, ConfigureEffect
  <2>2. inputs' = inputs /\ (overlap => overlap')
    BY <1>1 DEF Configure, StartTask
  <2>3. InputInv'
    BY <2>1 DEF InputInv
  <2>4. ASSUME ~overlap', NEW g \in Gen, NEW c \in Channel, task'[g].stage = "done", Valid(g, c),
               HasInput(g, c)
        PROVE  \E h \in g .. gen' : HasInput(h, c) /\ inputs'[c] = InputId[h][c]
    <3>1. task[g].stage = "done"
      BY <2>1, <2>4
    <3>2. PICK h \in g .. gen : HasInput(h, c) /\ inputs[c] = InputId[h][c]
      BY <2>2, <2>4, <3>1 DEF InputsNotOlder
    <3>3. h \in g .. gen'
      BY <2>1, <3>2 DEF Gen
    <3>4. QED BY <2>2, <3>2, <3>3
  <2>5. QED BY <2>3, <2>4 DEF InputsNotOlder
<1>2. ASSUME NEW g \in Gen, TaskNext(g) PROVE InputInv' /\ InputsNotOlder'
  <2>1. CASE ~overlap
    BY <1>2, <2>1, InputTask
  <2>2. CASE overlap
    <3>1. overlap'
      BY <1>2, <2>2, BusyStep
    <3>2. QED BY <3>1 DEF InputInv, InputsNotOlder
  <2>3. QED BY <2>1, <2>2
<1>3. CASE ~Configure /\ ~\E g \in Gen : TaskNext(g)
  <2>1. UNCHANGED <<gen, task, inputs>> /\ (overlap => overlap')
    <3>1. CASE \E c \in Channel, g \in Gen : ReadMisses(c, g)
      BY <3>1 DEF ReadMisses
    <3>2. CASE ReadPuts
      BY <3>2 DEF ReadPuts
    <3>3. CASE WriteNext \/ (\E valid \in SUBSET Channel : BeginWrite(valid)) \/ UNCHANGED vars
      BY <3>3, Separation DEF BeginWrite, feedVars, vars
    <3>4. QED BY <1>3, <3>1, <3>2, <3>3 DEF Next
  <2>2. QED BY <2>1 DEF InputInv, InputsNotOlder, Passed
<1>4. QED BY <1>1, <1>2, <1>3

--------------------------------------------------------------------------------
(* Rows and cache *)

\* What the properties below say of the next state follows from what it holds.
CacheParts == RowInv /\ QueueInv /\ CacheNeverAhead /\ WriteOkIsCached /\ InputFollowsFeed

LEMMA KeyFacts ==
  /\ \A i \in Id : <<"feed", i>> \in Key /\ <<"id", i>> \in Table
  /\ \A i \in Input : <<"input", i>> \in Key /\ \A f \in Id : <<"input", i>> # <<"feed", f>>
  BY DEF Key, Table

\* A step of the loop that stores no row and queues nothing.
LEMMA RoundKeeps ==
  ASSUME TypeOK, CacheParts, NEW from \in {"loop", "input"}, NEW to \in {"loop", "abort"},
         Round(from, to), UNCHANGED <<rows, cache, queued>>
  PROVE  CacheParts'
<1>1. writer.stage = from /\ writer'.stage = to
  BY DEF Round, TypeOK
<1>2. UNCHANGED <<generic, caching, time>>
  BY DEF Round, settings
<1>3. RowInv' /\ WriteOkIsCached'
  BY <1>1, <1>2 DEF CacheParts, RowInv, Stored, WriteOkIsCached
<1>4. QueueInv'
  BY <1>1, <1>2 DEF CacheParts, QueueInv, FeedQueued
<1>5. CacheNeverAhead' /\ InputFollowsFeed'
  BY <1>2 DEF CacheParts, CacheNeverAhead, InputFollowsFeed
<1>6. QED BY <1>3, <1>4, <1>5 DEF CacheParts

Inserts == WriteUncached \/ WriteChannel \/ WriteQueueFails

\* A round that inserts a row, and queues its value if there is a cache and Redis
\* does not fail.
LEMMA InsertEffect ==
  ASSUME TypeOK, StageInv, FeedInv, Inserts
  PROVE  \E feed \in Feed :
           /\ generic => feed.table = <<"id", feed.id>>
           /\ \A table \in Table :
                rows'[table] = IF table = feed.table THEN rows[table] \cup {time} ELSE rows[table]
           /\ \/ (WriteUncached \/ WriteQueueFails) /\ queued' = queued
              \/ WriteChannel /\ \A k \in Key :
                   queued'[k] = IF k = <<"feed", feed.id>> THEN time ELSE queued[k]
<1> USE DEF Inserts, WriteUncached, WriteChannel, WriteQueueFails
<1>1. /\ writer.at \in Channel /\ feeds[writer.at] \in Feed
      /\ generic => feeds[writer.at].table = <<"id", feeds[writer.at].id>>
  BY DEF Round, Insert, HasFeed, FeedInv, TypeOK
<1>2. PICK feed \in Feed : feed = feeds[writer.at]
  BY <1>1
<1>3. feed.table \in Table /\ feed.id \in Id
  BY DEF Feed
<1>4. rows' = [rows EXCEPT ![feed.table] = @ \cup {time}]
  BY <1>2 DEF Insert
<1>5. \A table \in Table :
        rows'[table] = IF table = feed.table THEN rows[table] \cup {time} ELSE rows[table]
  BY <1>3, <1>4 DEF TypeOK
<1>6. \/ (WriteUncached \/ WriteQueueFails) /\ queued' = queued
      \/ WriteChannel /\ \A k \in Key :
           queued'[k] = IF k = <<"feed", feed.id>> THEN time ELSE queued[k]
  BY <1>2, <1>3, KeyFacts DEF Queue, TypeOK
<1>7. QED BY <1>1, <1>2, <1>5, <1>6

LEMMA InsertStep ==
  ASSUME TypeOK, StageInv, FeedInv, CacheParts, Inserts
  PROVE  CacheParts'
<1>1. /\ writer.stage = "loop" /\ UNCHANGED <<generic, caching, cache, time>>
      /\ writer'.stage \in {"loop", "input", "abort"}
      /\ writer'.stage = "loop" => ~caching
      /\ WriteUncached => ~caching /\ writer'.stage = "loop"
      /\ WriteChannel => writer'.stage = "input"
      /\ WriteQueueFails => writer'.stage = "abort"
  <2>1. WriteUncached => ~caching /\ Round("loop", "loop")
    BY DEF WriteUncached
  <2>2. WriteChannel => Round("loop", "input")
    BY DEF WriteChannel
  <2>3. WriteQueueFails => Round("loop", "abort")
    BY DEF WriteQueueFails
  <2>4. cache' = cache
    BY DEF Inserts, WriteUncached, WriteChannel, WriteQueueFails, Insert
  <2>5. QED BY <2>1, <2>2, <2>3, <2>4 DEF Inserts, Round, settings, TypeOK
<1>2. PICK feed \in Feed :
        /\ generic => feed.table = <<"id", feed.id>>
        /\ \A table \in Table :
             rows'[table] = IF table = feed.table THEN rows[table] \cup {time} ELSE rows[table]
        /\ \/ (WriteUncached \/ WriteQueueFails) /\ queued' = queued
           \/ WriteChannel /\ \A k \in Key :
                queued'[k] = IF k = <<"feed", feed.id>> THEN time ELSE queued[k]
  BY InsertEffect
<1>3. feed.table \in Table /\ feed.id \in Id
  BY DEF Feed
<1>4. time \in Nat /\ time \in Time
  BY <1>1, BoundsAreNatural DEF StageInv, Time
<1>5. \A table \in Table : \A t \in rows'[table] : t <= time
  <2> SUFFICES ASSUME NEW table \in Table, NEW t \in rows'[table] PROVE t <= time
    OBVIOUS
  <2>1. t = time \/ t \in rows[table]
    <3>1. rows'[table] = rows[table] \cup {time} \/ rows'[table] = rows[table]
      BY <1>2
    <3>2. QED BY <3>1
  <2>2. t \in rows[table] => t <= time
    BY DEF CacheParts, RowInv
  <2>3. time <= time
    BY <1>4
  <2>4. QED BY <2>1, <2>2, <2>3
<1>6. \A table \in Table : rows[table] \subseteq rows'[table]
  BY <1>2
<1>7. ASSUME generic, caching, writer'.stage = "input", NEW i \in Id, time \in rows'[<<"id", i>>]
      PROVE  queued'[<<"feed", i>>] = time
  <2>1. \A k \in Key : queued'[k] = IF k = <<"feed", feed.id>> THEN time ELSE queued[k]
    BY <1>1, <1>2, <1>7
  <2>2. CASE i = feed.id
    BY <2>1, <2>2, KeyFacts
  <2>3. CASE i # feed.id
    <3>1. <<"id", i>> # feed.table /\ <<"feed", i>> # <<"feed", feed.id>>
      BY <1>2, <1>7, <2>3
    <3>2. time \in rows[<<"id", i>>]
      BY <1>2, <1>7, <3>1, KeyFacts
    <3>3. queued[<<"feed", i>>] = time
      BY <1>1, <1>7, <3>2 DEF CacheParts, RowInv, Stored
    <3>4. QED BY <2>1, <3>1, <3>3, KeyFacts
  <2>4. QED BY <2>2, <2>3
<1>8. RowInv'
  BY <1>1, <1>5, <1>7 DEF RowInv, Stored
<1>9. ASSUME NEW k \in Key, NEW t \in Time, cache'[k] = t \/ queued'[k] = t
      PROVE  /\ \E table \in Table : t \in rows'[table]
             /\ generic /\ k[1] = "feed" => t \in rows'[<<"id", k[2]>>]
  <2>1. CASE cache[k] = t \/ queued[k] = t
    <3>1. /\ \E table \in Table : t \in rows[table]
          /\ generic /\ k[1] = "feed" => t \in rows[<<"id", k[2]>>]
      BY <2>1 DEF CacheParts, CacheNeverAhead
    <3>2. k[1] = "feed" => <<"id", k[2]>> \in Table
      BY DEF Key, Table
    <3>3. QED BY <1>6, <3>1, <3>2
  <2>2. CASE t = time /\ k = <<"feed", feed.id>>
    <3>1. t \in rows'[feed.table]
      BY <1>2, <1>3, <2>2
    <3>2. k[2] = feed.id
      BY <2>2
    <3>3. QED BY <1>2, <1>3, <3>1, <3>2
  <2>3. QED BY <1>1, <1>2, <1>9, <2>1, <2>2
<1>10. CacheNeverAhead'
  BY <1>1, <1>9 DEF CacheNeverAhead
<1>11. QueueInv'
  <2>1. CASE (WriteUncached \/ WriteQueueFails) /\ queued' = queued
    BY <1>1, <2>1 DEF CacheParts, QueueInv, FeedQueued
  <2>2. CASE \A k \in Key : queued'[k] = IF k = <<"feed", feed.id>> THEN time ELSE queued[k]
    <3>1. FeedQueued'
      BY <1>1, <1>3, <2>2, KeyFacts DEF FeedQueued
    <3>2. \A k \in Key : queued'[k] \in {0, time}
      BY <2>2 DEF CacheParts, QueueInv
    <3>3. QED BY <1>1, <3>1, <3>2 DEF QueueInv
  <2>3. QED BY <1>2, <2>1, <2>2
<1>12. InputFollowsFeed' /\ WriteOkIsCached'
  BY <1>1 DEF CacheParts, InputFollowsFeed, WriteOkIsCached
<1>13. QED BY <1>8, <1>10, <1>11, <1>12 DEF CacheParts

\* The input of the channel is queued behind its feed.
LEMMA InputStep ==
  ASSUME TypeOK, StageInv, CacheParts, WriteInput
  PROVE  CacheParts'
<1>1. /\ writer.stage = "input" /\ writer'.stage = "loop" /\ writer.at \in Channel
      /\ UNCHANGED <<generic, caching, cache, rows, time>>
  BY DEF WriteInput, Round, settings, TypeOK
<1>2. \A k \in Key : queued'[k] = queued[k] \/ (queued'[k] = time /\ k[1] = "input")
  BY <1>1 DEF WriteInput, Queue, TypeOK
<1>3. PICK f \in Id : queued[<<"feed", f>>] = time
  BY <1>1 DEF CacheParts, QueueInv, FeedQueued
<1>4. time \in Time
  BY <1>1 DEF StageInv
<1>5. PICK table \in Table : time \in rows[table]
  BY <1>3, <1>4, KeyFacts DEF CacheParts, CacheNeverAhead
<1>6. \A i \in Id : queued'[<<"feed", i>>] = queued[<<"feed", i>>]
  BY <1>2, KeyFacts
<1>7. FeedQueued'
  BY <1>1, <1>3, <1>6 DEF FeedQueued
<1>8. QueueInv'
  BY <1>1, <1>2, <1>7 DEF CacheParts, QueueInv
<1>9. ASSUME NEW k \in Key, NEW t \in Time, cache'[k] = t \/ queued'[k] = t
      PROVE  /\ \E tab \in Table : t \in rows'[tab]
             /\ generic' /\ k[1] = "feed" => t \in rows'[<<"id", k[2]>>]
  <2>1. CASE cache[k] = t \/ queued[k] = t
    BY <1>1, <2>1 DEF CacheParts, CacheNeverAhead
  <2>2. CASE t = time /\ k[1] = "input"
    BY <1>1, <1>5, <2>2
  <2>3. QED BY <1>1, <1>2, <1>9, <2>1, <2>2
<1>10. CacheNeverAhead'
  BY <1>9 DEF CacheNeverAhead
<1>11. RowInv'
  BY <1>1, <1>6 DEF CacheParts, RowInv, Stored
<1>12. QED BY <1>1, <1>8, <1>10, <1>11 DEF CacheParts, InputFollowsFeed, WriteOkIsCached

\* No cached value is newer than the current write.
LEMMA CachedBefore ==
  ASSUME TypeOK, CacheParts, NEW k \in Key
  PROVE  cache[k] \in Nat /\ cache[k] <= time /\ time \in Nat
<1>1. cache[k] \in Time \cup {0} /\ time \in Nat
  BY BoundsAreNatural DEF TypeOK
<1>2. CASE cache[k] \in Time
  <2>1. PICK table \in Table : cache[k] \in rows[table]
    BY <1>2 DEF CacheParts, CacheNeverAhead
  <2>2. QED BY <1>1, <1>2, <2>1 DEF CacheParts, RowInv, Time
<1>3. QED BY <1>1, <1>2

LEMMA ExecStep ==
  ASSUME TypeOK, StageInv, CacheParts, WriteExec
  PROVE  CacheParts'
<1>1. /\ writer.stage = "loop" /\ UNCHANGED <<rows, queued, generic, caching, time>>
      /\ \/ ~caching /\ UNCHANGED cache /\ writer'.stage = "commit"
         \/ caching /\ Apply /\ writer'.stage = "commit"
         \/ caching /\ (Apply \/ UNCHANGED cache) /\ writer'.stage = "abort"
  BY DEF WriteExec, WriteStep, settings, TypeOK
<1>2. time # 0
  BY <1>1 DEF StageInv, Time
<1>3. \A k \in Key : cache'[k] \in {cache[k], queued[k]}
  BY <1>1 DEF Apply, TypeOK
<1>4. CacheNeverAhead'
  BY <1>1, <1>3 DEF CacheParts, CacheNeverAhead
<1>5. generic /\ caching /\ writer'.stage = "commit" => Stored(cache)'
  BY <1>1, <1>2, KeyFacts DEF Apply, CacheParts, RowInv, Stored
<1>6. QueueInv'
  BY <1>1 DEF CacheParts, QueueInv, FeedQueued
<1>7. InputFollowsFeed'
  <2>1. CASE UNCHANGED cache
    BY <2>1 DEF CacheParts, InputFollowsFeed
  <2>2. CASE Apply
    <3> SUFFICES ASSUME NEW i \in Input, cache'[<<"input", i>>] > 0
                 PROVE  \E f \in Id : cache'[<<"feed", f>>] >= cache'[<<"input", i>>]
      BY DEF InputFollowsFeed
    <3>1. \A k \in Key : cache'[k] = IF queued[k] # 0 THEN time ELSE cache[k]
      BY <2>2 DEF Apply, CacheParts, QueueInv
    <3>2. \A k \in Key : cache[k] \in Nat /\ cache[k] <= time /\ time \in Nat
      BY CachedBefore
    <3>3. CASE queued[<<"input", i>>] # 0
      <4>1. PICK f \in Id : queued[<<"feed", f>>] = time
        BY <3>3 DEF CacheParts, QueueInv, FeedQueued
      <4>2. cache'[<<"feed", f>>] = time /\ cache'[<<"input", i>>] = time
        BY <1>2, <3>1, <3>3, <4>1, KeyFacts
      <4>3. time >= time
        BY <3>2, KeyFacts
      <4>4. QED BY <4>2, <4>3
    <3>4. CASE queued[<<"input", i>>] = 0
      <4>1. cache'[<<"input", i>>] = cache[<<"input", i>>]
        BY <3>1, <3>4, KeyFacts
      <4>2. PICK f \in Id : cache[<<"feed", f>>] >= cache[<<"input", i>>]
        BY <4>1 DEF CacheParts, InputFollowsFeed
      <4>3. /\ cache'[<<"feed", f>>] \in {time, cache[<<"feed", f>>]}
            /\ cache[<<"feed", f>>] \in Nat /\ cache[<<"feed", f>>] <= time
            /\ cache[<<"input", i>>] \in Nat /\ time \in Nat
        BY <3>1, <3>2, KeyFacts
      <4>4. cache'[<<"feed", f>>] >= cache[<<"input", i>>]
        BY <4>2, <4>3
      <4>5. QED BY <4>1, <4>4
    <3>5. QED BY <3>3, <3>4
  <2>3. QED BY <1>1, <2>1, <2>2
<1>8. QED BY <1>1, <1>4, <1>5, <1>6, <1>7 DEF CacheParts, RowInv, WriteOkIsCached

LEMMA CloseStep ==
  ASSUME TypeOK, CacheParts, WriteClose
  PROVE  CacheParts'
<1>1. /\ UNCHANGED <<rows, cache, generic, caching, time>> /\ writer'.stage = "idle"
      /\ writer'.result = "ok" => writer.stage = "commit"
  BY DEF WriteClose, WriteStep, Idle, settings, TypeOK
<1>2. \A k \in Key : queued'[k] = 0
  BY DEF WriteClose, Nothing
<1>3. CacheNeverAhead'
  BY <1>1, <1>2 DEF CacheParts, CacheNeverAhead, Time
<1>4. QueueInv'
  BY <1>1, <1>2, KeyFacts DEF QueueInv
<1>5. RowInv' /\ WriteOkIsCached'
  BY <1>1 DEF CacheParts, RowInv, Stored, WriteOkIsCached
<1>6. QED BY <1>1, <1>3, <1>4, <1>5 DEF CacheParts, InputFollowsFeed

LEMMA ConnectStep ==
  ASSUME TypeOK, CacheParts, WriteConnect
  PROVE  CacheParts'
<1>1. /\ UNCHANGED <<rows, cache, queued, generic, caching, time>> /\ writer.stage = "connect"
      /\ \/ writer'.stage = "loop"
         \/ writer'.stage = "idle" /\ writer'.result = "failed"
  <2>1. CASE WriteStep("connect", "loop", "none")
    BY <2>1 DEF WriteConnect, WriteStep, settings, TypeOK
  <2>2. CASE WriteStep("connect", "idle", "failed")
    BY <2>2 DEF WriteConnect, WriteStep, Idle, settings
  <2>3. QED BY <2>1, <2>2 DEF WriteConnect
<1>2. Stored(queued)'
  BY <1>1, KeyFacts DEF CacheParts, RowInv, Stored
<1>3. RowInv' /\ WriteOkIsCached'
  BY <1>1, <1>2 DEF CacheParts, RowInv, WriteOkIsCached
<1>4. QueueInv'
  BY <1>1 DEF CacheParts, QueueInv, FeedQueued
<1>5. QED BY <1>1, <1>3, <1>4 DEF CacheParts, CacheNeverAhead, InputFollowsFeed

LEMMA BeginStep ==
  ASSUME TypeOK, CacheParts, NEW valid \in SUBSET Channel, BeginWrite(valid)
  PROVE  CacheParts'
<1>1. /\ UNCHANGED <<rows, cache, queued, generic, caching>> /\ time' = time + 1
      /\ writer.stage = "idle"
      /\ \/ writer'.stage = "connect"
         \/ writer'.stage = "idle" /\ writer'.result = "failed"
  BY DEF BeginWrite, Idle, settings, storeVars
<1>2. time \in Nat /\ \A table \in Table : rows[table] \subseteq Nat
  BY BoundsAreNatural DEF TypeOK, Time
<1>3. \A table \in Table : \A t \in rows[table] : t <= time + 1 /\ t # time + 1
  BY <1>2 DEF CacheParts, RowInv
<1>4. RowInv' /\ WriteOkIsCached'
  BY <1>1, <1>3 DEF RowInv, WriteOkIsCached
<1>5. QueueInv'
  BY <1>1, KeyFacts DEF CacheParts, QueueInv
<1>6. QED BY <1>1, <1>4, <1>5 DEF CacheParts, CacheNeverAhead, InputFollowsFeed

LEMMA RowStep ==
  ASSUME TypeOK, StageInv, FeedInv, CacheParts, [Next]_vars
  PROVE  CacheParts'
<1>1. CASE WriteNext
  <2>1. CASE WriteSkip \/ WriteBreaks \/ WriteInsertFails \/ WriteInputFails
    BY <2>1, RoundKeeps DEF WriteSkip, WriteBreaks, WriteInsertFails, WriteInputFails
  <2>2. QED
    BY <1>1, <2>1, ConnectStep, InsertStep, InputStep, ExecStep, CloseStep DEF WriteNext, Inserts
<1>2. CASE \E valid \in SUBSET Channel : BeginWrite(valid)
  BY <1>2, BeginStep
<1>3. CASE ~WriteNext /\ ~\E valid \in SUBSET Channel : BeginWrite(valid)
  <2>1. UNCHANGED <<generic, caching, rows, cache, queued, time, writer>>
    BY <1>3, Separation DEF settings
  <2>2. RowInv' /\ WriteOkIsCached'
    BY <2>1 DEF CacheParts, RowInv, Stored, WriteOkIsCached
  <2>3. QueueInv'
    BY <2>1 DEF CacheParts, QueueInv, FeedQueued
  <2>4. QED BY <2>1, <2>2, <2>3 DEF CacheParts, CacheNeverAhead, InputFollowsFeed
<1>4. QED BY <1>1, <1>2, <1>3

--------------------------------------------------------------------------------
(* Theorems *)

LEMMA InitInv == Init => IInv
<1> SUFFICES ASSUME Init PROVE IInv
  OBVIOUS
<1> USE BoundsAreNatural DEF Init, Idle, Nothing
<1>1. TypeOK
  <2>1. 1 \in 1 .. Channels + 1
    OBVIOUS
  <2>2. task \in [Gen -> [stage : {"none", "connect", "create", "input", "put", "abort", "done", "aborted"},
                         at : 1 .. Channels + 1]]
    BY <2>1
  <2>3. writer \in [stage : {"idle", "connect", "loop", "input", "commit", "abort"},
                    at : 1 .. Channels + 1, valid : SUBSET Channel,
                    result : {"none", "ok", "failed"}]
    BY <2>1
  <2>4. /\ reader \in [stage : {"idle", "put"}, channel : Channel \cup {0}, gen : Gen \cup {0}]
        /\ free \in 0 .. PoolSize /\ leaked \in 0 .. PoolSize
        /\ gen \in 0 .. MaxConfigs /\ time \in 0 .. MaxWrites
    OBVIOUS
  <2>5. /\ feeds \in [Channel -> Feed \cup {NoFeed}] /\ inputs \in [Channel -> Input \cup {0}]
        /\ rows \in [Table -> SUBSET Time]
        /\ cache \in [Key -> Time \cup {0}] /\ queued \in [Key -> Time \cup {0}]
    OBVIOUS
  <2>6. QED BY <2>2, <2>3, <2>4, <2>5 DEF TypeOK
<1>2. ConnectionsAccounted
  <2>1. Holding = {}
    BY DEF Holding, Holds
  <2>2. Cardinality(Holding) = 0
    BY <2>1, FS_EmptySet
  <2>3. One(Holds(writer.stage)) = 0
    BY DEF One, Holds
  <2>4. QED BY <2>2, <2>3 DEF ConnectionsAccounted
<1>3. StageInv /\ FeedInv /\ CurrentInv /\ FillInv /\ InputInv
  BY DEF StageInv, FeedInv, CurrentInv, FillInv, InputInv, Busy
<1>4. RowInv /\ CacheNeverAhead /\ WriteOkIsCached
  BY DEF RowInv, CacheNeverAhead, WriteOkIsCached, Time
<1>5. QueueInv /\ InputFollowsFeed
  BY KeyFacts DEF QueueInv, InputFollowsFeed
<1>6. FeedsCurrent /\ FeedsComplete /\ InputsNotOlder
  BY DEF FeedsCurrent, FeedsComplete, InputsNotOlder
<1>7. QED BY <1>1, <1>2, <1>3, <1>4, <1>5, <1>6 DEF IInv

\* The inductive invariant: every behaviour of SqlEngine keeps the types, the account
\* of the connections and what the feeds, the rows and the cache have to do with
\* each other.
THEOREM Invariance == Spec => []IInv
<1>1. IInv /\ [Next]_vars => IInv'
  <2> SUFFICES ASSUME IInv, [Next]_vars PROVE IInv'
    OBVIOUS
  <2>1. TypeOK' /\ ConnectionsAccounted'
    BY TypeStep, AccountStep DEF IInv
  <2>2. StageInv' /\ FeedInv' /\ CurrentInv'
    BY StageStep, FeedStep, CurrentStep DEF IInv
  <2>3. FillInv' /\ FeedsCurrent' /\ FeedsComplete'
    BY FillStep, FeedsCurrentStep DEF IInv
  <2>4. InputInv' /\ InputsNotOlder'
    BY InputsStep DEF IInv
  <2>5. CacheParts'
    BY RowStep DEF IInv, CacheParts
  <2>6. QED BY <2>1, <2>2, <2>3, <2>4, <2>5 DEF IInv, CacheParts
<1>2. QED BY <1>1, InitInv, PTL DEF Spec

\* The variables keep their types: no counter of the pool leaves its range, and
\* no thread leaves the list of channels.
THEOREM TypeCorrect == Spec => []TypeOK
<1>1. IInv => TypeOK
  BY DEF IInv
<1>2. QED BY <1>1, Invariance, PTL

\* Transaction and its try-with-resources: no connection is lost but by a commit
\* or a constructor that failed, and none is returned twice.
THEOREM ConnectionsKept == Spec => []ConnectionsAccounted
<1>1. IInv => ConnectionsAccounted
  BY DEF IInv
<1>2. QED BY <1>1, Invariance, PTL

\* SqlEngine.write inserts a value before it queues it: whatever fails, Redis never
\* holds a value the database has no row of.
THEOREM CacheBehind == Spec => []CacheNeverAhead
<1>1. IInv => CacheNeverAhead
  BY DEF IInv
<1>2. QED BY <1>1, Invariance, PTL

\* A write() that returns normally has cached every value it inserted.
THEOREM OkIsCached == Spec => []WriteOkIsCached
<1>1. IInv => WriteOkIsCached
  BY DEF IInv
<1>2. QED BY <1>1, Invariance, PTL

\* The MULTI of a write() is executed as a whole: no input's value is newer than
\* those of all feeds.
THEOREM InputBehindFeed == Spec => []InputFollowsFeed
<1>1. IInv => InputFollowsFeed
  BY DEF IInv
<1>2. QED BY <1>1, Invariance, PTL

\* configure() does not clear the inputs, but without overlap what a thread that
\* ran to its end has put is only replaced by something newer.
THEOREM InputsFollow == Spec => []InputsNotOlder
<1>1. IInv => InputsNotOlder
  BY DEF IInv
<1>2. QED BY <1>1, Invariance, PTL

\* A row under the time of the current write is the newest of all keys it is of.
LEMMA InsertImplements ==
  ASSUME IInv, Inserts
  PROVE  \E keys \in SUBSET Key : Store!Insert(keys, time)
<1>1. PICK feed \in Feed :
        \A table \in Table :
          rows'[table] = IF table = feed.table THEN rows[table] \cup {time} ELSE rows[table]
  BY InsertEffect DEF IInv
<1>2. feed.table \in Table /\ UNCHANGED <<generic, cache>>
  BY DEF Feed, Inserts, WriteUncached, WriteChannel, WriteQueueFails, Insert, Round, settings
<1>3. time \in Time
  BY DEF Inserts, WriteUncached, WriteChannel, WriteQueueFails, Round, IInv, StageInv
<1> DEFINE keys == {k \in Key : generic /\ k[1] = "feed" => <<"id", k[2]>> = feed.table}
<1>4. \A k \in Key : k[1] = "feed" => <<"id", k[2]>> \in Table
  BY DEF Key, Table
<1>5. ASSUME NEW k \in Key
      PROVE  TimesOf(k)' = IF k \in keys THEN TimesOf(k) \cup {time} ELSE TimesOf(k)
  <2>1. CASE generic /\ k[1] = "feed"
    <3>1. /\ TimesOf(k) = {t \in Time : t \in rows[<<"id", k[2]>>]}
          /\ TimesOf(k)' = {t \in Time : t \in rows'[<<"id", k[2]>>]}
      BY <1>2, <2>1 DEF TimesOf
    <3>2. k \in keys <=> <<"id", k[2]>> = feed.table
      BY <2>1
    <3>3. rows'[<<"id", k[2]>>] = IF k \in keys THEN rows[<<"id", k[2]>>] \cup {time}
                                 ELSE rows[<<"id", k[2]>>]
      BY <1>1, <1>4, <2>1, <3>2
    <3>4. QED BY <1>3, <3>1, <3>3
  <2>2. CASE ~(generic /\ k[1] = "feed")
    <3>1. /\ TimesOf(k) = {t \in Time : \E table \in Table : t \in rows[table]}
          /\ TimesOf(k)' = {t \in Time : \E table \in Table : t \in rows'[table]}
      BY <1>2, <2>2 DEF TimesOf
    <3>2. \A t \in Time : (\E table \in Table : t \in rows'[table]) <=>
                         t = time \/ \E table \in Table : t \in rows[table]
      BY <1>1, <1>2
    <3>3. k \in keys
      BY <2>2
    <3>4. QED BY <1>3, <3>1, <3>2, <3>3
  <2>3. QED BY <2>1, <2>2
<1>6. \A k \in Key : \A t \in TimesOf(k) : t <= time
  BY <1>4 DEF TimesOf, IInv, RowInv
<1>7. Store!Insert(keys, time)
  BY <1>2, <1>5, <1>6 DEF Store!Insert
<1>8. QED BY <1>7

\* What is queued is the newest value of its key.
LEMMA ExecImplements ==
  ASSUME IInv, Apply, UNCHANGED <<generic, rows>>, time \in Time
  PROVE  \E keys \in SUBSET Key : Store!Publish(keys)
<1> DEFINE keys == {k \in Key : queued[k] # 0}
<1>1. cache' \in [Key -> Time \cup {0}]
  BY DEF Apply, IInv, TypeOK
<1>2. ASSUME NEW k \in keys
      PROVE  cache'[k] = time /\ time \in TimesOf(k) /\ \A t \in TimesOf(k) : t <= time
  <2>1. k \in Key /\ queued[k] = time
    BY DEF IInv, QueueInv
  <2>2. time \in TimesOf(k)
    BY <2>1 DEF TimesOf, IInv, CacheNeverAhead
  <2>3. \A t \in TimesOf(k) : t <= time
    <3>1. k[1] = "feed" => <<"id", k[2]>> \in Table
      BY <2>1 DEF Key, Table
    <3>2. QED BY <3>1 DEF TimesOf, IInv, RowInv
  <2>4. cache'[k] = time
    BY <2>1 DEF Apply
  <2>5. QED BY <2>2, <2>3, <2>4
<1>3. \A k \in Key : k \notin keys => cache'[k] = cache[k]
  BY DEF Apply
<1>4. \A k \in Key : TimesOf(k)' = TimesOf(k)
  BY DEF TimesOf
<1>5. Store!Publish(keys)
  BY <1>1, <1>2, <1>3, <1>4 DEF Store!Publish, Store!Newest
<1>6. QED BY <1>5

\* SqlEngine.write and its cache implement CachedStore, for any number of channels
\* and whatever the threads of configure() and the readers do meanwhile.
THEOREM Refinement == Spec => ImplementsStore
<1>1. Init => Store!Init
  BY DEF Init, Nothing, TimesOf, Store!Init, Key, Table
<1>2. IInv /\ [Next]_vars => [Store!Next]_Store!storeVars
  <2> SUFFICES ASSUME IInv, [Next]_vars PROVE [Store!Next]_Store!storeVars
    OBVIOUS
  <2>1. CASE Inserts
    <3>1. time \in Time
      BY <2>1 DEF Inserts, WriteUncached, WriteChannel, WriteQueueFails, Round, IInv, StageInv
    <3>2. QED BY <2>1, <3>1, InsertImplements DEF Store!Next
  <2>2. CASE WriteExec /\ Apply
    <3>1. time \in Time /\ UNCHANGED <<generic, rows>>
      BY <2>2 DEF WriteExec, WriteStep, settings, IInv, StageInv
    <3>2. QED BY <2>2, <3>1, ExecImplements DEF Store!Next
  <2>3. CASE UNCHANGED <<generic, rows, cache>>
    <3>1. \A k \in Key : TimesOf(k)' = TimesOf(k)
      BY <2>3 DEF TimesOf
    <3>2. QED BY <2>3, <3>1 DEF Store!storeVars
  <2>4. CASE WriteNext /\ ~Inserts /\ ~(WriteExec /\ Apply)
    <3>1. UNCHANGED generic
      BY Separation DEF settings
    <3>2. UNCHANGED <<rows, cache>>
      BY <2>4 DEF WriteNext, Inserts, WriteConnect, WriteSkip, WriteBreaks, WriteInsertFails,
                  WriteInput, WriteInputFails, WriteExec, WriteClose
    <3>3. QED BY <2>3, <3>1, <3>2
  <2>5. CASE ~WriteNext
    BY <2>3, <2>5, Separation DEF settings
  <2>6. QED
    BY <2>1, <2>2, <2>4, <2>5 DEF Inserts, WriteNext
<1>3. QED BY <1>1, <1>2, Invariance, PTL DEF Spec, ImplementsStore, Store!Spec

\* configure() leaves no feed of an earlier configuration in the map, as long as
\* calls do not overlap.
THEOREM CurrentFeeds == Spec => []FeedsCurrent
<1>1. IInv => FeedsCurrent
  BY DEF IInv
<1>2. QED BY <1>1, Invariance, PTL

\* The thread of the last configure() puts a feed for every channel that has a
\* feed id, whatever older threads and readers put meanwhile.
THEOREM CompleteFeeds == Spec => []FeedsComplete
<1>1. IInv => FeedsComplete
  BY DEF IInv
<1>2. QED BY <1>1, Invariance, PTL
================================================================================
