----------------------------- MODULE HttpOrderProofs -----------------------------
(***************************************************************************)
(* The order of abandoned and later requests on a single thread, for any   *)
(* number of calls, owners and pools.                                      *)
(***************************************************************************)

EXTENDS HttpOrder, HttpConnectionProofs, FiniteSetTheorems

--------------------------------------------------------------------------------
(* The inductive invariant *)

\* Request r was submitted to pool p, and, in After, late was after early.
Entry(p, r) == [request |-> r, pool |-> p]

Logged(p, r) == \E i \in 1 .. Len(log) : log[i] = Entry(p, r)

After(p, early, late) ==
  \E i, j \in 1 .. Len(log) : i < j /\ log[i] = Entry(p, early) /\ log[j] = Entry(p, late)

\* A logged request was submitted to a pool that was opened, and is only there.
LogInv ==
  /\ log \in Seq([request : Request, pool : Pool])
  /\ \A p \in Pool, r \in Request : Logged(p, r) =>
       /\ future[r] # "none"
       /\ pool[p] # "none"
       /\ \A q \in Pool : r \in running[q] \/ Queued(q, r) => q = p

\* The threads of a pool are executing finitely many tasks, and no request of a
\* task that still waits has been sent.
WaitInv ==
  /\ \A p \in Pool : IsFiniteSet(running[p])
  /\ \A p \in Pool, r \in Request : Queued(p, r) => wire[r] = "none"

\* On a single thread, what was submitted later waits behind what waits or runs.
Behind(p, early, late) ==
  /\ \A a \in 1 .. Len(queue[p]) : queue[p][a] = early =>
       \E b \in 1 .. Len(queue[p]) : a < b /\ queue[p][b] = late
  /\ early \in running[p] => Queued(p, late)

BehindInv ==
  \A p \in Pool, early, late \in Request :
    size[p] = 1 /\ After(p, early, late) => Behind(p, early, late)

OrderInv == LogInv /\ WaitInv /\ BehindInv

--------------------------------------------------------------------------------
(* Steps *)

\* Steps that move no task, and send nothing that waits.
LEMMA OrderKept ==
  ASSUME OrderInv, IInv, UNCHANGED <<queue, running, log>>,
         \A r \in Request : future[r] # "none" => future'[r] # "none",
         \A p \in Pool : pool[p] # "none" => pool'[p] # "none" /\ size'[p] = size[p],
         \A r \in Request : wire'[r] # wire[r] =>
           wire[r] # "none" \/ \E p \in Pool : r \in running[p]
  PROVE  OrderInv'
<1>1. \A p, r : (Queued(p, r)' <=> Queued(p, r)) /\ (Logged(p, r)' <=> Logged(p, r))
  BY DEF Queued, Logged
<1>2. \A p, r, s : (After(p, r, s)' <=> After(p, r, s)) /\ (Behind(p, r, s)' <=> Behind(p, r, s))
  BY <1>1 DEF After, Behind
<1>3. LogInv'
  BY <1>1 DEF OrderInv, LogInv
<1>4. WaitInv'
  <2>1. \A p, q \in Pool, r \in Request : Queued(p, r) => r \notin running[q]
    BY DEF IInv, PlaceInv, Queued
  <2>2. QED BY <1>1, <2>1 DEF OrderInv, WaitInv
<1>5. \A p \in Pool, r, s \in Request : After(p, r, s) => pool[p] # "none"
  BY DEF After, Logged, OrderInv, LogInv
<1>6. BehindInv'
  BY <1>2, <1>5 DEF OrderInv, BehindInv
<1>7. QED BY <1>3, <1>4, <1>6 DEF OrderInv

\* What an entry adds to the log.
LEMMA LogAppend ==
  ASSUME NEW r \in Request, NEW x \in Pool, log \in Seq([request : Request, pool : Pool]),
         log' = Append(log, Entry(x, r))
  PROVE  /\ log' \in Seq([request : Request, pool : Pool])
         /\ \A p, s : Logged(p, s)' => Logged(p, s) \/ (p = x /\ s = r)
         /\ \A p, s, t : After(p, s, t)' => After(p, s, t) \/ (p = x /\ t = r /\ Logged(x, s))
<1> DEFINE n == Len(log)
<1>1. Entry(x, r) \in [request : Request, pool : Pool]
  BY DEF Entry
<1>2. /\ n \in Nat /\ Len(log') = n + 1 /\ log'[n + 1] = Entry(x, r)
      /\ \A i \in 1 .. n : log'[i] = log[i]
      /\ log' \in Seq([request : Request, pool : Pool])
  BY <1>1, AppendElements, AppendProperties
<1>3. \A i \in 1 .. Len(log') : i \in 1 .. n \/ i = n + 1
  BY <1>2
<1>4. \A p, s : Entry(p, s) = Entry(x, r) => p = x /\ s = r
  BY DEF Entry
<1>5. ASSUME NEW p, NEW s, Logged(p, s)' PROVE Logged(p, s) \/ (p = x /\ s = r)
  <2>1. PICK i \in 1 .. Len(log') : log'[i] = Entry(p, s)
    BY <1>5 DEF Logged, Entry
  <2>2. QED BY <1>2, <1>3, <1>4, <2>1 DEF Logged
<1>6. ASSUME NEW p, NEW s, NEW t, After(p, s, t)'
      PROVE  After(p, s, t) \/ (p = x /\ t = r /\ Logged(x, s))
  <2>1. PICK i \in 1 .. Len(log'), j \in 1 .. Len(log') :
          i < j /\ log'[i] = Entry(p, s) /\ log'[j] = Entry(p, t)
    BY <1>6 DEF After, Entry
  <2>2. i \in 1 .. n /\ log[i] = Entry(p, s)
    BY <1>2, <1>3, <2>1
  <2>3. CASE j \in 1 .. n
    BY <1>2, <2>1, <2>2, <2>3 DEF After
  <2>4. CASE j = n + 1
    BY <1>2, <1>4, <2>1, <2>2, <2>4 DEF Logged
  <2>5. QED BY <1>3, <2>3, <2>4
<1>7. QED BY <1>2, <1>5, <1>6

\* The new request goes behind all others of its pool.
LEMMA SubmitOrder ==
  ASSUME OrderInv, IInv, NEW r \in Request, Submit(r),
         log' = Append(log, [request |-> r, pool |-> executor])
  PROVE  OrderInv'
<1> DEFINE x == executor
<1>1. /\ x \in Pool /\ pool[x] # "none" /\ future[r] = "none"
      /\ UNCHANGED <<pool, size, running, wire>>
      /\ \A s \in Request : future'[s] = IF s = r THEN "pending" ELSE future[s]
      /\ queue' = [queue EXCEPT ![x] = Append(queue[x], r)]
  BY DEF Submit, IInv, TypeOK, StageInv, ownerVars, poolVars
<1>2. \A p \in Pool : queue[p] \in Seq(Request) /\ Len(queue[p]) \in Nat
  BY DEF IInv, TypeOK
<1>3. /\ Len(queue'[x]) = Len(queue[x]) + 1 /\ queue'[x][Len(queue[x]) + 1] = r
      /\ \A a \in 1 .. Len(queue[x]) : queue'[x][a] = queue[x][a]
      /\ \A p \in Pool : p # x => queue'[p] = queue[p]
  BY <1>1, <1>2, AppendElements DEF IInv, TypeOK
<1>4. \A p \in Pool, s \in Request : Queued(p, s)' <=> Queued(p, s) \/ (p = x /\ s = r)
  <2> SUFFICES ASSUME NEW p \in Pool, NEW s \in Request
               PROVE  Queued(p, s)' <=> Queued(p, s) \/ (p = x /\ s = r)
    OBVIOUS
  <2>1. CASE p # x
    BY <1>3, <2>1 DEF Queued
  <2>2. CASE p = x
    <3>1. \A a \in 1 .. Len(queue[x]) + 1 : a \in 1 .. Len(queue[x]) \/ a = Len(queue[x]) + 1
      BY <1>1, <1>2
    <3>2. Len(queue[x]) + 1 \in 1 .. Len(queue[x]) + 1
          /\ 1 .. Len(queue[x]) \subseteq 1 .. Len(queue[x]) + 1
      BY <1>1, <1>2
    <3>3. QED BY <1>3, <2>2, <3>1, <3>2 DEF Queued
  <2>3. QED BY <2>1, <2>2
<1>5. \A p \in Pool : r \notin running[p] /\ ~Queued(p, r)
  BY <1>1 DEF IInv, TaskInv
<1>6. /\ log' \in Seq([request : Request, pool : Pool])
      /\ \A p, s : Logged(p, s)' => Logged(p, s) \/ (p = x /\ s = r)
      /\ \A p, s, t : After(p, s, t)' => After(p, s, t) \/ (p = x /\ t = r /\ Logged(x, s))
  BY <1>1, LogAppend DEF OrderInv, LogInv, Entry
<1>7. \A p \in Pool, s \in Request : Logged(p, s) => s # r
  BY <1>1 DEF OrderInv, LogInv
<1>8. LogInv'
  <2> SUFFICES ASSUME NEW p \in Pool, NEW s \in Request, Logged(p, s)'
               PROVE  /\ future'[s] # "none" /\ pool'[p] # "none"
                      /\ \A q \in Pool : s \in running'[q] \/ Queued(q, s)' => q = p
    BY <1>6 DEF LogInv
  <2>1. CASE p = x /\ s = r
    BY <1>1, <1>4, <1>5, <2>1
  <2>2. CASE Logged(p, s)
    <3>1. /\ s # r /\ future[s] # "none" /\ pool[p] # "none"
          /\ \A q \in Pool : s \in running[q] \/ Queued(q, s) => q = p
      BY <1>7, <2>2 DEF OrderInv, LogInv
    <3>2. QED BY <1>1, <1>4, <3>1
  <2>3. QED BY <1>6, <2>1, <2>2
<1>9. WaitInv'
  <2>1. wire[r] = "none"
    BY <1>1 DEF IInv, StageInv
  <2>2. QED BY <1>1, <1>4, <2>1 DEF OrderInv, WaitInv
<1>10. BehindInv'
  <2> SUFFICES ASSUME NEW p \in Pool, NEW early \in Request, NEW late \in Request,
                      size'[p] = 1, After(p, early, late)'
               PROVE  Behind(p, early, late)'
    BY DEF BehindInv
  <2>1. Logged(p, early) /\ early # r
    BY <1>6, <1>7 DEF After, Logged
  <2>2. \A a \in 1 .. Len(queue'[p]) : queue'[p][a] = early =>
          a \in 1 .. Len(queue[p]) /\ queue[p][a] = early
    <3> SUFFICES ASSUME NEW a \in 1 .. Len(queue'[p]), queue'[p][a] = early
                 PROVE  a \in 1 .. Len(queue[p]) /\ queue[p][a] = early
      OBVIOUS
    <3>1. CASE p # x
      BY <1>3, <3>1
    <3>2. CASE p = x
      <4>1. a \in 1 .. Len(queue[x]) + 1
        BY <1>3, <3>2
      <4>2. a # Len(queue[x]) + 1
        BY <1>3, <2>1, <3>2
      <4>3. Len(queue[x]) \in Nat
        BY <1>1, <1>2
      <4>4. a \in 1 .. Len(queue[x])
        BY <4>1, <4>2, <4>3
      <4>5. QED BY <1>3, <3>2, <4>4
    <3>3. QED BY <3>1, <3>2
  <2>3. CASE After(p, early, late)
    <3>1. Behind(p, early, late)
      BY <1>1, <2>3 DEF OrderInv, BehindInv
    <3>2. ASSUME NEW a \in 1 .. Len(queue'[p]), queue'[p][a] = early
          PROVE  \E b \in 1 .. Len(queue'[p]) : a < b /\ queue'[p][b] = late
      <4>1. PICK b \in 1 .. Len(queue[p]) : a < b /\ queue[p][b] = late
        BY <2>2, <3>1, <3>2 DEF Behind
      <4>2. b \in 1 .. Len(queue'[p]) /\ queue'[p][b] = queue[p][b]
        BY <1>2, <1>3, <4>1
      <4>3. QED BY <4>1, <4>2
    <3>3. early \in running'[p] => Queued(p, late)'
      BY <1>1, <1>4, <3>1 DEF Behind
    <3>4. QED BY <3>2, <3>3 DEF Behind
  <2>4. CASE p = x /\ late = r
    <3>1. Queued(p, late)'
      BY <1>1, <1>4, <2>4
    <3>2. ASSUME NEW a \in 1 .. Len(queue'[p]), queue'[p][a] = early
          PROVE  \E b \in 1 .. Len(queue'[p]) : a < b /\ queue'[p][b] = late
      <4>1. a \in 1 .. Len(queue[p])
        BY <2>2, <3>2
      <4>2. Len(queue[x]) + 1 \in 1 .. Len(queue'[p]) /\ a < Len(queue[x]) + 1
        BY <1>1, <1>2, <1>3, <2>4, <4>1
      <4>3. QED BY <1>3, <2>4, <4>2
    <3>3. QED BY <3>1, <3>2 DEF Behind
  <2>5. QED BY <1>6, <2>3, <2>4
<1>11. QED BY <1>8, <1>9, <1>10 DEF OrderInv

\* A single thread that takes the oldest task leaves the later ones waiting.
LEMMA StartOrder ==
  ASSUME OrderInv, IInv, NEW p \in Pool, StartTask(p), UNCHANGED log
  PROVE  OrderInv'
<1> DEFINE r == Head(queue[p])
<1>1. /\ queue[p] \in Seq(Request) /\ queue[p] # <<>>
      /\ UNCHANGED <<pool, size, wire, future>>
      /\ queue' = [queue EXCEPT ![p] = Tail(queue[p])]
      /\ running' = [running EXCEPT ![p] = IF future[r] \in {"cancelled"}
                                           THEN running[p] ELSE running[p] \cup {r}]
      /\ Cardinality(running[p]) < size[p]
  BY DEF StartTask, TakeTask, IInv, TypeOK, poolVars
<1>2. /\ running'[p] \in {running[p], running[p] \cup {r}} /\ queue'[p] = Tail(queue[p])
      /\ \A q \in Pool : q # p => running'[q] = running[q] /\ queue'[q] = queue[q]
  BY <1>1 DEF IInv, TypeOK
<1>3. /\ Len(queue[p]) \in Nat \ {0} /\ r = queue[p][1] /\ r \in Request
      /\ Len(queue'[p]) = Len(queue[p]) - 1
      /\ \A i \in 1 .. Len(queue'[p]) : i + 1 \in 1 .. Len(queue[p]) /\ queue'[p][i] = queue[p][i + 1]
      /\ \A i \in 1 .. Len(queue[p]) : i # 1 => i - 1 \in 1 .. Len(queue'[p])
                                               /\ queue'[p][i - 1] = queue[p][i]
  <2>1. Tail(queue[p]) = queue'[p] /\ r = Head(queue[p])
    BY <1>2
  <2>2. /\ Len(queue[p]) \in Nat \ {0} /\ r = queue[p][1] /\ r \in Request
        /\ Len(Tail(queue[p])) = Len(queue[p]) - 1
        /\ \A i \in 1 .. Len(Tail(queue[p])) :
             i + 1 \in 1 .. Len(queue[p]) /\ Tail(queue[p])[i] = queue[p][i + 1]
        /\ \A i \in 1 .. Len(queue[p]) : i # 1 =>
             i - 1 \in 1 .. Len(Tail(queue[p])) /\ Tail(queue[p])[i - 1] = queue[p][i]
    BY <1>1, TailElements
  <2>3. QED BY <2>1, <2>2
<1>4. \A q \in Pool, s \in Request : Queued(q, s)' => Queued(q, s)
  <2> SUFFICES ASSUME NEW q \in Pool, NEW s \in Request, Queued(q, s)' PROVE Queued(q, s)
    OBVIOUS
  <2>1. CASE q = p
    BY <1>3, <2>1 DEF Queued
  <2>2. CASE q # p
    BY <1>2, <2>2 DEF Queued
  <2>3. QED BY <2>1, <2>2
<1>5. Queued(p, r)
  <2>1. 1 \in 1 .. Len(queue[p])
    BY <1>3
  <2>2. QED BY <1>3, <2>1 DEF Queued
<1>6. \A q, s, t : (Logged(q, s)' <=> Logged(q, s)) /\ (After(q, s, t)' <=> After(q, s, t))
  BY DEF Logged, After
<1>7. LogInv'
  <2>1. \A q \in Pool, s \in Request :
          s \in running'[q] \/ Queued(q, s)' => s \in running[q] \/ Queued(q, s)
    BY <1>2, <1>4, <1>5
  <2>2. QED BY <1>1, <1>6, <2>1 DEF OrderInv, LogInv
<1>8. WaitInv'
  <2>1. IsFiniteSet(running[p] \cup {r})
    BY FS_AddElement DEF OrderInv, WaitInv
  <2>2. QED BY <1>1, <1>2, <1>4, <2>1 DEF OrderInv, WaitInv
<1>9. BehindInv'
  <2> SUFFICES ASSUME NEW q \in Pool, NEW early \in Request, NEW late \in Request,
                      size[q] = 1, Behind(q, early, late)
               PROVE  Behind(q, early, late)'
    BY <1>1, <1>6 DEF OrderInv, BehindInv
  <2>1. CASE q # p
    BY <1>2, <2>1 DEF Behind, Queued
  <2>2. CASE q = p
    <3>1. running[p] = {}
      <4>1. IsFiniteSet(running[p])
        BY DEF OrderInv, WaitInv
      <4>2. Cardinality(running[p]) = 0
        BY <1>1, <2>2, <4>1, FS_CardinalityType
      <4>3. QED BY <4>1, <4>2, FS_EmptySet
    <3>2. ASSUME NEW a \in 1 .. Len(queue'[p]), queue'[p][a] = early
          PROVE  \E b \in 1 .. Len(queue'[p]) : a < b /\ queue'[p][b] = late
      <4>1. a + 1 \in 1 .. Len(queue[p]) /\ queue[p][a + 1] = early
        BY <1>3, <3>2
      <4>2. PICK b \in 1 .. Len(queue[p]) : a + 1 < b /\ queue[p][b] = late
        BY <2>2, <4>1 DEF Behind
      <4>3. b # 1 /\ a < b - 1
        BY <4>1, <4>2
      <4>4. QED BY <1>3, <4>2, <4>3
    <3>3. ASSUME early \in running'[p] PROVE Queued(p, late)'
      <4>1. early = queue[p][1] /\ 1 \in 1 .. Len(queue[p])
        BY <1>2, <1>3, <3>1, <3>3
      <4>2. PICK b \in 1 .. Len(queue[p]) : 1 < b /\ queue[p][b] = late
        BY <2>2, <4>1 DEF Behind
      <4>3. b - 1 \in 1 .. Len(queue'[p]) /\ queue'[p][b - 1] = late
        BY <1>3, <4>2
      <4>4. QED BY <4>3 DEF Queued
    <3>4. QED BY <2>2, <3>2, <3>3 DEF Behind
  <2>3. QED BY <2>1, <2>2
<1>10. QED BY <1>7, <1>8, <1>9 DEF OrderInv

\* A thread that is free again executes fewer tasks.
LEMMA EndOrder ==
  ASSUME OrderInv, IInv, NEW p \in Pool, NEW r \in Request, NEW result \in {"completed", "failed"},
         EndTask(p, r, result), UNCHANGED log
  PROVE  OrderInv'
<1>1. /\ UNCHANGED <<queue, pool, size, wire>>
      /\ running' = [running EXCEPT ![p] = running[p] \ {r}]
      /\ \A s \in Request : future[s] # "none" => future'[s] # "none"
  BY DEF EndTask, IInv, TypeOK, poolVars
<1>2. \A q \in Pool : running'[q] \in {running[q], running[q] \ {r}}
  BY <1>1 DEF IInv, TypeOK
<1>3. \A q, s, t : /\ Queued(q, s)' <=> Queued(q, s)
                   /\ Logged(q, s)' <=> Logged(q, s)
                   /\ After(q, s, t)' <=> After(q, s, t)
  BY <1>1 DEF Queued, Logged, After
<1>4. LogInv'
  <2>1. \A q \in Pool, s \in Request : s \in running'[q] => s \in running[q]
    BY <1>2
  <2>2. QED BY <1>1, <1>3, <2>1 DEF OrderInv, LogInv
<1>5. WaitInv'
  <2>1. \A q \in Pool : IsFiniteSet(running'[q])
    <3>1. \A q \in Pool : IsFiniteSet(running[q]) /\ running'[q] \in SUBSET running[q]
      BY <1>2 DEF OrderInv, WaitInv
    <3>2. QED BY <3>1, FS_Subset
  <2>2. QED BY <1>1, <1>3, <2>1 DEF OrderInv, WaitInv
<1>6. BehindInv'
  <2> SUFFICES ASSUME NEW q \in Pool, NEW early \in Request, NEW late \in Request,
                      Behind(q, early, late)
               PROVE  Behind(q, early, late)'
    BY <1>1, <1>3 DEF OrderInv, BehindInv
  <2>1. running'[q] \subseteq running[q]
    BY <1>2
  <2>2. QED BY <1>1, <1>3, <2>1 DEF Behind
<1>7. QED BY <1>4, <1>5, <1>6 DEF OrderInv

\* What is logged by a step: the request that is submitted in it, if any.
LEMMA RecordEffect ==
  ASSUME IInv, Next, Record
  PROVE  \/ \E r \in Request : /\ Submit(r)
                               /\ log' = Append(log, [request |-> r, pool |-> executor])
         \/ UNCHANGED log /\ \A r \in Request : ~Submit(r)
<1> DEFINE submitted == {r \in Request : call[r] = "submit" /\ call'[r] = "await"}
<1>1. ASSUME NEW r \in Request, Submit(r) PROVE submitted = {r}
  BY <1>1 DEF Submit, IInv, TypeOK
<1>2. ASSUME \A r \in Request : ~Submit(r) PROVE submitted = {}
  <2>1. CASE UNCHANGED call
    BY <2>1
  <2>2. CASE ~UNCHANGED call
    <3>1. PICK r \in Request, stage \in CallState \ {"await"} : call' = [call EXCEPT ![r] = stage]
      BY <1>2, <2>2
         DEF Next, OwnerNext, OwnerStep, BeginClose, CloseShutdown, ShutdownPool, CloseNull,
             CloseFlag, BeginOpen, OpenShutdown, OpenNew, NewPool, OpenFails, OpenFlag,
             SetMaxThreads, CallNext, Invoke, Enter, SubmitCrashes, GetReturns, GetGivesUp, Cancel,
             Leave, ServerProcesses, WorkerNext, StartTask, TakeTask, SendRequest, TaskReturns,
             TaskThrows, EndTask, callVars, CallState, Inside, Returned
    <3>2. QED BY <3>1 DEF IInv, TypeOK
  <2>3. QED BY <2>1, <2>2
<1>3. CASE \E r \in Request : Submit(r)
  <2>1. PICK r \in Request : Submit(r)
    BY <1>3
  <2>2. submitted = {r}
    BY <1>1, <2>1
  <2>3. (CHOOSE s \in submitted : TRUE) = r /\ submitted # {}
    BY <2>2
  <2>4. QED BY <2>1, <2>3 DEF Record
<1>4. CASE \A r \in Request : ~Submit(r)
  BY <1>2, <1>4 DEF Record
<1>5. QED BY <1>3, <1>4

LEMMA OrderStep ==
  ASSUME OrderInv, IInv, [OrderNext]_orderVars
  PROVE  OrderInv'
<1> DEFINE Opened == \A p \in Pool : pool[p] # "none" => pool'[p] # "none" /\ size'[p] = size[p]
<1>1. CASE \E r \in Request : Submit(r) /\ log' = Append(log, [request |-> r, pool |-> executor])
  BY <1>1, SubmitOrder
<1>2. CASE UNCHANGED log /\ Next /\ \A r \in Request : ~Submit(r)
  <2>1. ASSUME NEW o \in Owner, OwnerNext(o) PROVE OrderInv'
    <3>1. UNCHANGED <<queue, running, future, wire>>
      BY <2>1, OwnersLeaveCalls
    <3>2. Opened
      <4>1. CASE OpenNew(o)
        <5>1. PICK p \in Pool : /\ \A q \in Pool : pool[q] = "none" <=> q >= p
                                /\ pool' = [pool EXCEPT ![p] = "running"]
                                /\ size' = [size EXCEPT ![p] = maxThreads]
          BY <4>1 DEF OpenNew, NewPool
        <5>2. pool[p] = "none"
          BY <5>1, PoolAssumption DEF Pool
        <5>3. QED BY <5>1, <5>2 DEF IInv, TypeOK
      <4>2. CASE CloseShutdown(o) \/ OpenShutdown(o)
        BY <4>2 DEF CloseShutdown, OpenShutdown, ShutdownPool, IInv, TypeOK
      <4>3. CASE ~OpenNew(o) /\ ~CloseShutdown(o) /\ ~OpenShutdown(o)
        BY <2>1, <4>3 DEF OwnerNext, BeginClose, CloseNull, CloseFlag, BeginOpen, OpenFails,
                          OpenFlag, poolVars
      <4>4. QED BY <4>1, <4>2, <4>3
    <3>3. QED BY <1>2, <3>1, <3>2, OrderKept
  <2>2. ASSUME NEW n \in ThreadCounts, SetMaxThreads(n) PROVE OrderInv'
    BY <1>2, <2>2, OrderKept DEF SetMaxThreads, poolVars, taskVars
  <2>3. ASSUME NEW r \in Request, Invoke(r) \/ CallNext(r) PROVE OrderInv'
    <3>1. UNCHANGED <<queue, running, wire, pool, size>>
      BY <1>2, <2>3 DEF CallNext, Invoke, Enter, SubmitCrashes, GetReturns, GetGivesUp, Cancel,
                        poolVars, taskVars
    <3>2. \A s \in Request : future[s] # "none" => future'[s] # "none"
      BY <1>2, <2>3 DEF CallNext, Invoke, Enter, SubmitCrashes, GetReturns, GetGivesUp, Cancel,
                        taskVars, IInv, TypeOK
    <3>3. QED BY <1>2, <3>1, <3>2, OrderKept
  <2>4. ASSUME NEW r \in Request, ServerProcesses(r) PROVE OrderInv'
    <3>1. \A s \in Request : wire'[s] # wire[s] => wire[s] # "none"
      BY <2>4 DEF ServerProcesses, IInv, TypeOK
    <3>2. QED BY <1>2, <2>4, <3>1, OrderKept DEF ServerProcesses, poolVars, taskVars
  <2>5. ASSUME NEW p \in Pool, StartTask(p) PROVE OrderInv'
    BY <1>2, <2>5, StartOrder
  <2>6. ASSUME NEW p \in Pool, NEW r \in Request, SendRequest(p, r) PROVE OrderInv'
    <3>1. \A s \in Request : wire'[s] # wire[s] => s \in running[p]
      BY <2>6 DEF SendRequest, IInv, TypeOK
    <3>2. QED BY <1>2, <2>6, <3>1, OrderKept DEF SendRequest, poolVars, taskVars
  <2>7. ASSUME NEW p \in Pool, NEW r \in Request, TaskReturns(p, r) \/ TaskThrows(p, r)
        PROVE  OrderInv'
    BY <1>2, <2>7, EndOrder DEF TaskReturns, TaskThrows
  <2>8. QED BY <1>2, <2>1, <2>2, <2>3, <2>4, <2>5, <2>6, <2>7 DEF Next, WorkerNext
<1>3. CASE UNCHANGED orderVars
  BY <1>3, OrderKept DEF orderVars, vars, poolVars, taskVars
<1>4. QED BY <1>1, <1>2, <1>3, RecordEffect DEF OrderNext

--------------------------------------------------------------------------------
(* Theorems *)

LEMMA OrderInvariance == OrderSpec => [](IInv /\ OrderInv)
<1>1. OrderInit => Init /\ OrderInv
  <2> SUFFICES ASSUME OrderInit PROVE OrderInv
    BY DEF OrderInit
  <2>1. log = <<>> /\ Len(log) = 0 /\ \A p \in Pool : queue[p] = <<>> /\ running[p] = {}
    BY DEF OrderInit, Init
  <2>2. log \in Seq([request : Request, pool : Pool]) /\ 1 .. Len(log) = {}
    BY <2>1
  <2>3. WaitInv
    <3>1. \A p \in Pool, r \in Request : ~Queued(p, r)
      BY <2>1 DEF Queued
    <3>2. QED BY <2>1, <3>1, FS_EmptySet DEF WaitInv
  <2>4. QED BY <2>1, <2>2, <2>3 DEF OrderInv, LogInv, Logged, BehindInv, After
<1>2. [OrderNext]_orderVars => [Next]_vars
  BY DEF OrderNext, orderVars
<1>3. OrderSpec => []IInv
  BY <1>1, <1>2, Invariance, PTL DEF OrderSpec, Spec
<1>4. OrderInv /\ IInv /\ [OrderNext]_orderVars => OrderInv'
  BY OrderStep
<1>5. QED BY <1>1, <1>3, <1>4, PTL DEF OrderSpec

\* HttpConnection.submitRequest with a pool of one thread: an abandoned request
\* that is still running keeps all later ones of its pool waiting, so it takes
\* effect behind one of them only if its worker has lost it on the wire.
THEOREM OvertakesNever == OrderSpec => NoOvertaking
<1>1. IInv /\ OrderInv =>
        [\A i, j \in DOMAIN log :
           LET early == log[i].request  late == log[j].request
           IN /\ i < j /\ SameThread(i, j)
              /\ wire[early] = "sent" /\ wire'[early] = "processed"
              /\ wire[late] = "processed"
              => \A p \in Pool : early \notin running[p]]_orderVars
  <2> SUFFICES ASSUME IInv, OrderInv, NEW i \in DOMAIN log, NEW j \in DOMAIN log,
                      i < j, SameThread(i, j), wire[log[j].request] = "processed",
                      NEW p \in Pool, log[i].request \in running[p]
               PROVE  FALSE
    OBVIOUS
  <2> DEFINE x == log[i].pool
  <2>1. log \in Seq([request : Request, pool : Pool]) /\ i \in 1 .. Len(log) /\ j \in 1 .. Len(log)
    BY DEF OrderInv, LogInv
  <2>2. log[i] \in [request : Request, pool : Pool] /\ log[j] \in [request : Request, pool : Pool]
    BY <2>1, ElementOfSeq
  <2>3. log[i] = Entry(x, log[i].request) /\ log[j] = Entry(x, log[j].request)
    BY <2>2 DEF Entry, SameThread
  <2>4. After(x, log[i].request, log[j].request) /\ Logged(x, log[i].request)
    BY <2>1, <2>3 DEF After, Logged
  <2>5. p = x
    BY <2>2, <2>4 DEF OrderInv, LogInv
  <2>6. Queued(p, log[j].request)
    BY <2>2, <2>4, <2>5 DEF OrderInv, BehindInv, Behind, SameThread
  <2>7. QED BY <2>2, <2>6 DEF OrderInv, WaitInv
<1>2. QED BY <1>1, OrderInvariance, PTL DEF NoOvertaking
================================================================================
