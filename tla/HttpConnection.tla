----------------------------- MODULE HttpConnection -----------------------------
(***************************************************************************)
(* org.emoncms.http.HttpConnection and the HttpCallable its pool runs.     *)
(*                                                                         *)
(* Any number of application threads call the connection.  Each call is    *)
(* one request r: it enters the synchronized submitRequest, hands a task   *)
(* to the thread pool, and waits for the task's Future at most TIMEOUT     *)
(* milliseconds.  The pool's workers talk to the server on blocking        *)
(* sockets, with no connect or read timeout.  Owners open, close and       *)
(* configure the connection without the lock, so their single steps are    *)
(* separate actions here.                                                  *)
(*                                                                         *)
(* The executor field is not volatile.  A stale read of it returns a pool  *)
(* that was shut down since, or null: a call then ends as it does when it  *)
(* reads between two steps of close(), so the actions read the field's     *)
(* current value.  HttpURLConnection, the JDK's pool and FutureTask are    *)
(* modelled from how the code uses them.                                   *)
(***************************************************************************)

EXTENDS Naturals, Sequences, FiniteSets

CONSTANTS
  Request,        \* the calls of onGet and onPost, one request each
  Owner,          \* the threads that open, close and configure the connection
  ThreadCounts,   \* the values setMaxThreads is given
  MaxOpens,       \* bound: how many thread pools are ever created
  Free            \* the monitor when no call holds it

ASSUME RequestAssumption == Free \notin Request
ASSUME PoolAssumption == MaxOpens \in Nat /\ ThreadCounts \subseteq Nat

Pool == 1 .. MaxOpens
NoPool == 0

VARIABLES
  closed,      \* HttpConnection.closed
  executor,    \* HttpConnection.executor: a pool, or NoPool for null
  maxThreads,  \* HttpConnection.maxThreads
  owner,       \* what each owner is about to do
  pool,        \* the state of each ThreadPoolExecutor
  size,        \* the number of threads each pool was created with
  queue,       \* the tasks that wait in each pool, oldest first
  running,     \* the tasks each pool's threads are executing
  monitor,     \* the call inside the synchronized submitRequest
  call,        \* how far each call has come, or what its caller was told
  future,      \* the state of each request's FutureTask
  wire         \* how far each request has come on its way to the server

ownerVars == <<closed, executor, maxThreads, owner>>
poolVars == <<pool, size>>
taskVars == <<queue, running, future>>
callVars == <<monitor, call>>
vars == <<ownerVars, poolVars, taskVars, callVars, wire>>

Inside == {"submit", "await", "giveUp"}            \* holds the monitor
Returned == {"ok", "failed", "refused", "crashed"} \* has told its caller
CallState == {"unused", "blocked"} \cup Inside \cup Returned
OwnerState == {"idle", "closeShutdown", "closeNull", "closeFlag",
               "openShutdown", "openNew", "openFlag"}

TypeOK ==
  /\ closed \in BOOLEAN
  /\ executor \in Pool \cup {NoPool}
  /\ maxThreads \in ThreadCounts
  /\ owner \in [Owner -> OwnerState]
  /\ pool \in [Pool -> {"none", "running", "shutdown"}]
  /\ size \in [Pool -> ThreadCounts \cup {0}]
  /\ queue \in [Pool -> Seq(Request)]
  /\ running \in [Pool -> SUBSET Request]
  /\ monitor \in Request \cup {Free}
  /\ call \in [Request -> CallState]
  /\ future \in [Request -> {"none", "pending", "completed", "failed", "cancelled"}]
  /\ wire \in [Request -> {"none", "sent", "processed"}]

Init ==
  /\ closed = TRUE
  /\ executor = NoPool
  /\ maxThreads \in ThreadCounts
  /\ owner = [o \in Owner |-> "idle"]
  /\ pool = [p \in Pool |-> "none"]
  /\ size = [p \in Pool |-> 0]
  /\ queue = [p \in Pool |-> <<>>]
  /\ running = [p \in Pool |-> {}]
  /\ monitor = Free
  /\ call = [r \in Request |-> "unused"]
  /\ future = [r \in Request |-> "none"]
  /\ wire = [r \in Request |-> "none"]

--------------------------------------------------------------------------------
(* The owners: close(), open() and setMaxThreads() *)

OwnerStep(o, from, to) ==
  /\ owner[o] = from
  /\ owner' = [owner EXCEPT ![o] = to]
  /\ UNCHANGED <<maxThreads, taskVars, callVars, wire>>

BeginClose(o) ==
  /\ OwnerStep(o, "idle", IF executor # NoPool THEN "closeShutdown" ELSE "closeFlag")
  /\ UNCHANGED <<closed, executor, poolVars>>

\* executor.shutdown(): the field is read again, and may be null by now, which
\* ends close() or open() with a NullPointerException.
ShutdownPool(o, from, to) ==
  /\ UNCHANGED <<closed, executor, size>>
  /\ \/ /\ executor # NoPool
        /\ OwnerStep(o, from, to)
        /\ pool' = [pool EXCEPT ![executor] = "shutdown"]
     \/ /\ executor = NoPool
        /\ OwnerStep(o, from, "idle")
        /\ UNCHANGED pool

CloseShutdown(o) == ShutdownPool(o, "closeShutdown", "closeNull")

CloseNull(o) ==
  /\ OwnerStep(o, "closeNull", "closeFlag")
  /\ executor' = NoPool
  /\ UNCHANGED <<closed, poolVars>>

CloseFlag(o) ==
  /\ OwnerStep(o, "closeFlag", "idle")
  /\ closed' = TRUE
  /\ UNCHANGED <<executor, poolVars>>

\* Mutant: initialize() replaces the executor without shutting the old one down.
OpenKeepsOldPool(o) ==
  /\ OwnerStep(o, "idle", "openNew")
  /\ UNCHANGED <<closed, executor, poolVars>>

BeginOpen(o) ==
  /\ OwnerStep(o, "idle", IF executor # NoPool THEN "openShutdown" ELSE "openNew")
  /\ UNCHANGED <<closed, executor, poolVars>>

OpenShutdown(o) == ShutdownPool(o, "openShutdown", "openNew")

\* A pool of n threads becomes the executor.
NewPool(o, n) ==
  \E p \in Pool :
    /\ \A q \in Pool : pool[q] = "none" <=> q >= p
    /\ OwnerStep(o, "openNew", "openFlag")
    /\ executor' = p
    /\ pool' = [pool EXCEPT ![p] = "running"]
    /\ size' = [size EXCEPT ![p] = n]
    /\ UNCHANGED closed

\* Mutant: one thread more than the configured maximum.
OpenOneMore(o) == maxThreads > 0 /\ NewPool(o, maxThreads + 1)

OpenNew(o) == maxThreads > 0 /\ NewPool(o, maxThreads)

\* newFixedThreadPool(0) throws an IllegalArgumentException
OpenFails(o) ==
  /\ maxThreads = 0
  /\ OwnerStep(o, "openNew", "idle")
  /\ UNCHANGED <<closed, executor, poolVars>>

OpenFlag(o) ==
  /\ OwnerStep(o, "openFlag", "idle")
  /\ closed' = FALSE
  /\ UNCHANGED <<executor, poolVars>>

SetMaxThreads(n) ==
  /\ maxThreads' = n
  /\ UNCHANGED <<closed, executor, owner, poolVars, taskVars, callVars, wire>>

--------------------------------------------------------------------------------
(* The calls: sendRequest and the synchronized submitRequest *)

\* onGet and onPost: the calling thread comes to the synchronized method.
Invoke(r) ==
  /\ call[r] = "unused"
  /\ call' = [call EXCEPT ![r] = "blocked"]
  /\ UNCHANGED <<ownerVars, poolVars, taskVars, monitor, wire>>

\* The caller leaves the synchronized method and is told the result.
Leave(r, told) ==
  /\ monitor' = Free
  /\ call' = [call EXCEPT ![r] = told]

Enter(r) ==
  /\ call[r] = "blocked"
  /\ monitor = Free
  /\ IF closed
       THEN Leave(r, "refused")
       ELSE monitor' = r /\ call' = [call EXCEPT ![r] = "submit"]
  /\ UNCHANGED <<ownerVars, poolVars, taskVars, wire>>

Submit(r) ==
  /\ call[r] = "submit"
  /\ executor # NoPool
  /\ pool[executor] = "running"
  /\ call' = [call EXCEPT ![r] = "await"]
  /\ future' = [future EXCEPT ![r] = "pending"]
  /\ queue' = [queue EXCEPT ![executor] = Append(@, r)]
  /\ UNCHANGED <<ownerVars, poolVars, running, monitor, wire>>

\* The executor was set to null or shut down since the closed flag was read:
\* a NullPointerException or RejectedExecutionException leaves the method.
SubmitCrashes(r) ==
  /\ call[r] = "submit"
  /\ executor # NoPool => pool[executor] = "shutdown"
  /\ Leave(r, "crashed")
  /\ UNCHANGED <<ownerVars, poolVars, taskVars, wire>>

\* submit.get returns the response, or throws the task's ExecutionException
GetReturns(r) ==
  /\ call[r] = "await"
  /\ \/ future[r] = "completed" /\ Leave(r, "ok")
     \/ future[r] = "failed" /\ Leave(r, "failed")
  /\ UNCHANGED <<ownerVars, poolVars, taskVars, wire>>

\* Mutant: get() without a timeout.
GetWaitsOn(r) == FALSE /\ call[r] = "await" /\ UNCHANGED vars

\* TIMEOUT expires, or the calling thread is interrupted: the call is still
\* holding the monitor, and cancels the task in a step of its own.
GetGivesUp(r) ==
  /\ call[r] = "await"
  /\ future[r] = "pending"
  /\ call' = [call EXCEPT ![r] = "giveUp"]
  /\ UNCHANGED <<ownerVars, poolVars, taskVars, monitor, wire>>

\* Mutant: the caller gives up without cancelling the task.
LeaveTask(r) ==
  /\ call[r] = "giveUp"
  /\ Leave(r, "failed")
  /\ UNCHANGED <<ownerVars, poolVars, taskVars, wire>>

\* submit.cancel(true) has no effect on a task that completed meanwhile; the
\* caller is told of a failure all the same.
Cancel(r) ==
  /\ call[r] = "giveUp"
  /\ future' = [future EXCEPT ![r] = IF @ = "pending" THEN "cancelled" ELSE @]
  /\ Leave(r, "failed")
  /\ UNCHANGED <<ownerVars, poolVars, queue, running, wire>>

--------------------------------------------------------------------------------
(* The pool's workers (HttpCallable.call) and the server *)

\* A free thread takes the oldest task, and does not execute a skipped one.
TakeTask(p, skipped) ==
  /\ queue[p] # <<>>
  /\ Cardinality(running[p]) < size[p]
  /\ LET r == Head(queue[p]) IN
       running' = [running EXCEPT ![p] = IF future[r] \in skipped THEN @ ELSE @ \cup {r}]
  /\ queue' = [queue EXCEPT ![p] = Tail(@)]
  /\ UNCHANGED <<ownerVars, poolVars, callVars, future, wire>>

\* Mutants: the cancelled flag is not looked at; the tasks of a pool that was
\* shut down are dropped; they are left in its queue.
StartCancelledToo(p) == TakeTask(p, {})
DropAfterShutdown(p) ==
  TakeTask(p, IF pool[p] = "shutdown" THEN {"pending", "cancelled"} ELSE {"cancelled"})
StopAtShutdown(p) == pool[p] = "running" /\ TakeTask(p, {"cancelled"})

\* Mutant: a thread is made for every task, as newCachedThreadPool does.
StartOnNewThread(p) ==
  /\ queue[p] # <<>>
  /\ running' = [running EXCEPT ![p] =
       IF future[Head(queue[p])] = "cancelled" THEN @ ELSE @ \cup {Head(queue[p])}]
  /\ queue' = [queue EXCEPT ![p] = Tail(@)]
  /\ UNCHANGED <<ownerVars, poolVars, callVars, future, wire>>

\* In a pool that was shut down too.
StartTask(p) == TakeTask(p, {"cancelled"})

\* The request is on the wire.  Neither cancellation nor shutdown stops a
\* worker that is on its way there.
SendRequest(p, r) ==
  /\ r \in running[p]
  /\ wire[r] = "none"
  /\ wire' = [wire EXCEPT ![r] = "sent"]
  /\ UNCHANGED <<ownerVars, poolVars, taskVars, callVars>>

\* The server, or the network, may be arbitrarily late, or never do it.
ServerProcesses(r) ==
  /\ wire[r] = "sent"
  /\ wire' = [wire EXCEPT ![r] = "processed"]
  /\ UNCHANGED <<ownerVars, poolVars, taskVars, callVars>>

\* The worker is free again; a cancelled future keeps no result.
EndTask(p, r, result) ==
  /\ r \in running[p]
  /\ running' = [running EXCEPT ![p] = @ \ {r}]
  /\ future' = [future EXCEPT ![r] = IF @ = "pending" THEN result ELSE @]
  /\ UNCHANGED <<ownerVars, poolVars, queue, callVars, wire>>

\* Mutant: the answer is not waited for.
TaskReturnsEarly(p, r) == EndTask(p, r, "completed")

\* The server answered with status 200 and a body HttpResponse accepts.
TaskReturns(p, r) == wire[r] = "processed" /\ EndTask(p, r, "completed")

\* No connection, a connection lost before the answer is read, another status,
\* an empty body or one that reports an error: all before or after the server
\* has processed the request.
TaskThrows(p, r) == EndTask(p, r, "failed")

--------------------------------------------------------------------------------

OwnerNext(o) ==
  \/ BeginClose(o) \/ CloseShutdown(o) \/ CloseNull(o) \/ CloseFlag(o)
  \/ BeginOpen(o) \/ OpenShutdown(o) \/ OpenNew(o) \/ OpenFails(o) \/ OpenFlag(o)

CallNext(r) ==
  \/ Enter(r) \/ Submit(r) \/ SubmitCrashes(r)
  \/ GetReturns(r) \/ GetGivesUp(r) \/ Cancel(r)

WorkerNext(p) ==
  \/ StartTask(p)
  \/ \E r \in Request : SendRequest(p, r) \/ TaskReturns(p, r) \/ TaskThrows(p, r)

Next ==
  \/ \E o \in Owner : OwnerNext(o)
  \/ \E n \in ThreadCounts : SetMaxThreads(n)
  \/ \E r \in Request : Invoke(r) \/ CallNext(r) \/ ServerProcesses(r)
  \/ \E p \in Pool : WorkerNext(p)

Spec == Init /\ [][Next]_vars

\* A thread inside submitRequest runs on, its wait is bounded by TIMEOUT, and
\* the monitor is handed to a waiting thread when it is free.  Nothing is
\* assumed of owners, workers and the server.
FairSpec == Spec /\ \A r \in Request : WF_vars(CallNext(r))

\* The server answers whatever reaches it, and the workers run.
ServerAnswers ==
  /\ \A p \in Pool : WF_vars(StartTask(p))
  /\ \A p \in Pool, r \in Request :
       WF_vars(SendRequest(p, r)) /\ WF_vars(TaskReturns(p, r))
  /\ \A r \in Request : WF_vars(ServerProcesses(r))

--------------------------------------------------------------------------------
(* Properties *)

\* The connection keeps the promise of RequestContract to its callers: a call
\* that returns an answer took effect, one that was refused or crashed never
\* does, and one that failed may take effect later, but once at most.
Told(stage) ==
  CASE stage \in {"unused", "ok", "failed"} -> stage
    [] stage \in {"refused", "crashed"} -> "refused"
    [] OTHER -> "pending"

Contract == INSTANCE RequestContract WITH
  outcome <- [r \in Request |-> Told(call[r])],
  effect <- [r \in Request |-> wire[r] = "processed"]

ImplementsContract == Contract!Spec

\* However many threads the pool has, at most one task is ever wanted by a
\* caller: submitRequest awaits its task inside the monitor and cancels the
\* task it gives up on.  The other threads only serve abandoned tasks.
AtMostOneWanted ==
  \A r, s \in Request : future[r] = "pending" /\ future[s] = "pending" => r = s

\* A task somebody waits for is never lost: shutting its pool down, or opening
\* the connection again, leaves it waiting in or running on the old pool.
WantedTaskIsHeld ==
  \A r \in Request : future[r] = "pending" =>
    \E p \in Pool :
      r \in running[p] \/ \E i \in DOMAIN queue[p] : queue[p][i] = r

\* A caller that was told of a failure knows at least this: no thread of any
\* pool starts on its request any more, though one that had may go on.
NoLateStart ==
  [][\A r \in Request, p \in Pool :
       call[r] \in Returned /\ r \notin running[p] => r \notin running'[p]]_vars

\* When the owners are sequential and rest, the executor field, the closed flag
\* and the pools agree: an open connection has one pool that accepts tasks, and
\* a closed one none, so no pool's threads are leaked by close() or open().
PoolMatchesFlag ==
  (\A o \in Owner : owner[o] = "idle") =>
    {p \in Pool : pool[p] = "running"} = IF closed THEN {} ELSE {executor}

\* Every call returns to its caller, whatever the server, the workers and the
\* owners do or leave undone.
CallReturns ==
  \A r \in Request : call[r] = "blocked" ~> call[r] \in Returned

\* A pool that was shut down finishes all tasks it holds, if the server answers.
ShutdownDrains ==
  ServerAnswers =>
    \A p \in Pool : pool[p] = "shutdown" ~> queue[p] = <<>> /\ running[p] = {}

\* Emoncms.post and its siblings document one failure, EmoncmsException.  A
\* call that loses the race with close() ends in another.
FailuresAreDeclared == \A r \in Request : call[r] # "crashed"
================================================================================
