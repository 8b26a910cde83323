-------------------------- MODULE HttpConnectionProofs --------------------------
(***************************************************************************)
(* Safety of HttpConnection for any number of calls, owners, pools and     *)
(* pool threads.                                                           *)
(***************************************************************************)

EXTENDS HttpConnection, SequenceTheorems, TLAPS

\* A step keeps the types.
LEMMA TypeStep ==
  ASSUME TypeOK, [Next]_vars
  PROVE  TypeOK'
<1> USE RequestAssumption, PoolAssumption DEF Pool, NoPool
<1> USE DEF TypeOK
<1>1. ASSUME NEW o \in Owner, OwnerNext(o) PROVE TypeOK'
  <2> USE DEF OwnerStep, OwnerState, taskVars, callVars, poolVars
  <2>1. CASE BeginClose(o) BY <2>1 DEF BeginClose
  <2>2. CASE CloseShutdown(o) BY <2>2 DEF CloseShutdown, ShutdownPool
  <2>3. CASE CloseNull(o) BY <2>3 DEF CloseNull
  <2>4. CASE CloseFlag(o) BY <2>4 DEF CloseFlag
  <2>5. CASE BeginOpen(o) BY <2>5 DEF BeginOpen
  <2>6. CASE OpenShutdown(o) BY <2>6 DEF OpenShutdown, ShutdownPool
  <2>7. CASE OpenNew(o) BY <2>7 DEF OpenNew, NewPool
  <2>8. CASE OpenFails(o) BY <2>8 DEF OpenFails
  <2>9. CASE OpenFlag(o) BY <2>9 DEF OpenFlag
  <2>10. QED
    BY <1>1, <2>1, <2>2, <2>3, <2>4, <2>5, <2>6, <2>7, <2>8, <2>9 DEF OwnerNext
<1>2. ASSUME NEW n \in ThreadCounts, SetMaxThreads(n) PROVE TypeOK'
  BY <1>2 DEF SetMaxThreads, poolVars, taskVars, callVars
<1>3. ASSUME NEW r \in Request, Invoke(r) \/ CallNext(r) \/ ServerProcesses(r)
      PROVE TypeOK'
  <2> USE DEF CallState, Inside, Returned, Leave, ownerVars, poolVars, taskVars, callVars
  <2>1. CASE Invoke(r) BY <2>1 DEF Invoke
  <2>2. CASE Enter(r) BY <2>2 DEF Enter
  <2>3. CASE Submit(r)
    <3>1. executor \in Pool /\ Append(queue[executor], r) \in Seq(Request)
      BY <2>3, AppendProperties DEF Submit
    <3>2. queue' \in [Pool -> Seq(Request)]
      BY <2>3, <3>1 DEF Submit
    <3>3. QED BY <2>3, <3>2 DEF Submit
  <2>4. CASE SubmitCrashes(r) BY <2>4 DEF SubmitCrashes
  <2>5. CASE GetReturns(r) BY <2>5 DEF GetReturns
  <2>6. CASE GetGivesUp(r) BY <2>6 DEF GetGivesUp
  <2>7. CASE Cancel(r) BY <2>7 DEF Cancel
  <2>8. CASE ServerProcesses(r) BY <2>8 DEF ServerProcesses
  <2>9. QED
    BY <1>3, <2>1, <2>2, <2>3, <2>4, <2>5, <2>6, <2>7, <2>8 DEF CallNext
<1>4. ASSUME NEW p \in Pool, WorkerNext(p) PROVE TypeOK'
  <2> USE DEF ownerVars, poolVars, taskVars, callVars
  <2>1. CASE StartTask(p) BY <2>1 DEF StartTask, TakeTask
  <2>2. ASSUME NEW r \in Request, SendRequest(p, r) PROVE TypeOK'
    BY <2>2 DEF SendRequest
  <2>3. ASSUME NEW r \in Request, TaskReturns(p, r) \/ TaskThrows(p, r) PROVE TypeOK'
    <3>1. PICK result \in {"completed", "failed"} : EndTask(p, r, result)
      BY <2>3 DEF TaskReturns, TaskThrows
    <3>2. running[p] \ {r} \in SUBSET Request
      OBVIOUS
    <3>3. running' \in [Pool -> SUBSET Request]
      BY <3>1, <3>2 DEF EndTask
    <3>4. future' \in [Request -> {"none", "pending", "completed", "failed", "cancelled"}]
      BY <3>1 DEF EndTask
    <3>5. QED BY <3>1, <3>3, <3>4 DEF EndTask
  <2>4. QED BY <1>4, <2>1, <2>2, <2>3 DEF WorkerNext
<1>5. CASE UNCHANGED vars
  BY <1>5 DEF vars, ownerVars, poolVars, taskVars, callVars
<1>6. QED BY <1>1, <1>2, <1>3, <1>4, <1>5 DEF Next

\* Every variable has its type in every reachable state.
THEOREM TypeCorrect == Spec => []TypeOK
<1>1. Init => TypeOK
  BY RequestAssumption, PoolAssumption DEF Init, TypeOK, CallState, OwnerState, Pool, NoPool
<1>2. TypeOK /\ [Next]_vars => TypeOK'
  BY TypeStep
<1>3. QED BY <1>1, <1>2, PTL DEF Spec

--------------------------------------------------------------------------------
(* The inductive invariant *)

\* The monitor belongs to the one call that is inside submitRequest.
MonitorInv == \A r \in Request : monitor = r <=> call[r] \in Inside

\* What a call's stage says of its task, and the task of its request.
StageInv ==
  \A r \in Request :
    /\ call[r] \in {"unused", "blocked", "submit", "refused", "crashed"} => future[r] = "none"
    /\ future[r] = "pending" => call[r] \in {"await", "giveUp"}
    /\ call[r] = "ok" => future[r] = "completed"
    /\ future[r] = "completed" => wire[r] = "processed"
    /\ wire[r] # "none" => future[r] # "none"

Queued(p, r) == \E i \in 1 .. Len(queue[p]) : queue[p][i] = r

\* A task that waits or runs has no result yet.
TaskInv ==
  \A p \in Pool, r \in Request :
    r \in running[p] \/ Queued(p, r) => future[r] \in {"pending", "cancelled"}

\* A task is in one place of one pool.
PlaceInv ==
  /\ \A p, q \in Pool : \A i \in 1 .. Len(queue[p]), j \in 1 .. Len(queue[q]) :
       queue[p][i] = queue[q][j] => p = q /\ i = j
  /\ \A p, q \in Pool : \A i \in 1 .. Len(queue[p]) : queue[p][i] \notin running[q]
  /\ \A p, q \in Pool : p # q => running[p] \cap running[q] = {}

HeldInv ==
  \A r \in Request : future[r] = "pending" =>
    \E p \in Pool : r \in running[p] \/ Queued(p, r)

IInv == TypeOK /\ MonitorInv /\ StageInv /\ TaskInv /\ PlaceInv /\ HeldInv

--------------------------------------------------------------------------------
(* Lemmas *)

\* The queue's operations, element by element.
LEMMA TailElements ==
  ASSUME NEW S, NEW s \in Seq(S), s # <<>>
  PROVE  /\ Len(s) \in Nat \ {0} /\ Head(s) = s[1] /\ Head(s) \in S
         /\ Len(Tail(s)) = Len(s) - 1
         /\ \A i \in 1 .. Len(Tail(s)) : i + 1 \in 1 .. Len(s) /\ Tail(s)[i] = s[i + 1]
         /\ \A i \in 1 .. Len(s) : i # 1 => i - 1 \in 1 .. Len(Tail(s)) /\ Tail(s)[i - 1] = s[i]
BY HeadTailProperties, EmptySeq, ElementOfSeq

LEMMA AppendElements ==
  ASSUME NEW S, NEW s \in Seq(S), NEW e \in S
  PROVE  /\ Len(s) \in Nat /\ Len(Append(s, e)) = Len(s) + 1
         /\ \A i \in 1 .. Len(s) : Append(s, e)[i] = s[i]
         /\ Append(s, e)[Len(s) + 1] = e
BY AppendProperties

\* Owners, and configuring the connection, touch no call, task or request.
LEMMA OwnersLeaveCalls ==
  ASSUME \/ \E o \in Owner : OwnerNext(o)
         \/ \E n \in ThreadCounts : SetMaxThreads(n)
         \/ UNCHANGED vars
  PROVE  UNCHANGED <<queue, running, future, monitor, call, wire>>
BY DEF OwnerNext, OwnerStep, BeginClose, CloseShutdown, ShutdownPool, CloseNull, CloseFlag,
       BeginOpen, OpenShutdown, OpenNew, NewPool, OpenFails, OpenFlag, SetMaxThreads,
       vars, taskVars, callVars

\* Steps that leave tasks alone keep what the invariant says of them.
LEMMA TasksUnchanged ==
  ASSUME TaskInv, PlaceInv, HeldInv, UNCHANGED <<queue, running, future>>
  PROVE  TaskInv' /\ PlaceInv' /\ HeldInv'
BY DEF TaskInv, PlaceInv, HeldInv, Queued

\* Submit puts a task that is nowhere yet at the end of one queue.
LEMMA SubmitStep ==
  ASSUME IInv, NEW r \in Request, Submit(r)
  PROVE  MonitorInv' /\ StageInv' /\ TaskInv' /\ PlaceInv' /\ HeldInv'
<1> USE DEF IInv, TypeOK
<1>1. PICK x \in Pool :
      /\ call[r] = "submit" /\ future[r] = "none"
      /\ call' = [call EXCEPT ![r] = "await"]
      /\ future' = [future EXCEPT ![r] = "pending"]
      /\ queue' = [queue EXCEPT ![x] = Append(queue[x], r)]
      /\ UNCHANGED <<running, monitor, wire>>
  BY DEF Submit, StageInv, NoPool
<1>2. \A p \in Pool : queue[p] \in Seq(Request) /\ Len(queue[p]) \in Nat
  OBVIOUS
<1>3. /\ Len(queue'[x]) = Len(queue[x]) + 1
      /\ \A i \in 1 .. Len(queue[x]) : queue'[x][i] = queue[x][i]
      /\ queue'[x][Len(queue[x]) + 1] = r
      /\ \A p \in Pool : p # x => queue'[p] = queue[p]
  BY <1>1, <1>2, AppendElements
<1>4. \A p \in Pool : r \notin running[p] /\ ~Queued(p, r)
  BY <1>1 DEF TaskInv
<1>5. MonitorInv' /\ StageInv'
  BY <1>1 DEF MonitorInv, StageInv, Inside, CallState
<1>6. \A p \in Pool : \A i \in 1 .. Len(queue'[p]) :
        IF p = x /\ i = Len(queue[x]) + 1
          THEN queue'[p][i] = r
          ELSE i \in 1 .. Len(queue[p]) /\ queue'[p][i] = queue[p][i]
  BY <1>1, <1>2, <1>3
<1>7. \A p \in Pool, s \in Request : Queued(p, s)' => Queued(p, s) \/ s = r
  BY <1>6 DEF Queued
<1>8. \A p \in Pool, s \in Request : Queued(p, s) => Queued(p, s)'
  BY <1>1, <1>2, <1>3 DEF Queued
<1>9. Queued(x, r)'
  BY <1>1, <1>2, <1>3 DEF Queued
<1>10. TaskInv'
  BY <1>1, <1>7 DEF TaskInv
<1>11. HeldInv'
  BY <1>1, <1>8, <1>9 DEF HeldInv
<1>12. PlaceInv'
  <2>1. ASSUME NEW p \in Pool, NEW q \in Pool,
               NEW i \in 1 .. Len(queue'[p]), NEW j \in 1 .. Len(queue'[q]),
               queue'[p][i] = queue'[q][j]
        PROVE  p = q /\ i = j
    <3>1. CASE p = x /\ i = Len(queue[x]) + 1 /\ ~(q = x /\ j = Len(queue[x]) + 1)
      <4>1. j \in 1 .. Len(queue[q]) /\ queue[q][j] = r
        BY <2>1, <3>1, <1>6
      <4>2. QED BY <4>1, <1>4 DEF Queued
    <3>2. CASE q = x /\ j = Len(queue[x]) + 1 /\ ~(p = x /\ i = Len(queue[x]) + 1)
      <4>1. i \in 1 .. Len(queue[p]) /\ queue[p][i] = r
        BY <2>1, <3>2, <1>6
      <4>2. QED BY <4>1, <1>4 DEF Queued
    <3>3. CASE ~(p = x /\ i = Len(queue[x]) + 1) /\ ~(q = x /\ j = Len(queue[x]) + 1)
      BY <2>1, <3>3, <1>6 DEF PlaceInv
    <3>4. QED BY <3>1, <3>2, <3>3
  <2>2. ASSUME NEW p \in Pool, NEW q \in Pool, NEW i \in 1 .. Len(queue'[p])
        PROVE  queue'[p][i] \notin running'[q]
    BY <1>1, <1>4, <1>6 DEF PlaceInv
  <2>3. QED BY <2>1, <2>2, <1>1 DEF PlaceInv
<1>13. QED BY <1>5, <1>10, <1>11, <1>12

\* A worker takes the head of its queue: the other tasks keep their places.
LEMMA StartStep ==
  ASSUME IInv, NEW p \in Pool, StartTask(p)
  PROVE  MonitorInv' /\ StageInv' /\ TaskInv' /\ PlaceInv' /\ HeldInv'
<1> USE DEF IInv, TypeOK
<1>0. /\ queue[p] # <<>>
      /\ running' = [running EXCEPT ![p] = running[p] \cup
                       (IF future[Head(queue[p])] = "cancelled" THEN {} ELSE {Head(queue[p])})]
      /\ queue' = [queue EXCEPT ![p] = Tail(queue[p])]
      /\ UNCHANGED <<future, monitor, call, wire>>
  BY DEF StartTask, TakeTask, callVars
<1>1. PICK r \in Request, started \in SUBSET {Head(queue[p])} :
      /\ queue[p] # <<>> /\ r = Head(queue[p])
      /\ started = IF future[r] = "cancelled" THEN {} ELSE {r}
      /\ running' = [running EXCEPT ![p] = running[p] \cup started]
      /\ queue' = [queue EXCEPT ![p] = Tail(queue[p])]
      /\ UNCHANGED <<future, monitor, call, wire>>
  <2>1. Head(queue[p]) \in Request
    <3>1. queue[p] \in Seq(Request)
      OBVIOUS
    <3>2. QED BY <3>1, <1>0, TailElements
  <2>2. (IF future[Head(queue[p])] = "cancelled" THEN {} ELSE {Head(queue[p])})
          \in SUBSET {Head(queue[p])}
    OBVIOUS
  <2>3. QED BY <1>0, <2>1, <2>2, Zenon
<1>2. \A q \in Pool : queue[q] \in Seq(Request) /\ Len(queue[q]) \in Nat
  OBVIOUS
<1>3. /\ Len(queue[p]) \in Nat \ {0} /\ r = queue[p][1] /\ r \in Request
      /\ Len(queue'[p]) = Len(queue[p]) - 1
      /\ \A i \in 1 .. Len(queue'[p]) :
           i + 1 \in 1 .. Len(queue[p]) /\ queue'[p][i] = queue[p][i + 1]
      /\ \A i \in 1 .. Len(queue[p]) :
           i # 1 => i - 1 \in 1 .. Len(queue'[p]) /\ queue'[p][i - 1] = queue[p][i]
  BY <1>1, <1>2, TailElements
<1>4. \A q \in Pool : q # p => queue'[q] = queue[q] /\ running'[q] = running[q]
  BY <1>1
<1>5. running'[p] = running[p] \cup started /\ started \subseteq {r}
  BY <1>1
<1>6. MonitorInv' /\ StageInv'
  BY <1>1 DEF MonitorInv, StageInv
<1>7. Queued(p, r)
  <2>1. 1 \in 1 .. Len(queue[p])
    BY <1>3
  <2>2. QED BY <2>1, <1>3 DEF Queued
<1> DEFINE old(q, i) == IF q = p THEN i + 1 ELSE i
<1>8. \A q \in Pool : \A i \in 1 .. Len(queue'[q]) :
        old(q, i) \in 1 .. Len(queue[q]) /\ queue'[q][i] = queue[q][old(q, i)]
  BY <1>3, <1>4
<1>9. \A q \in Pool : \A i \in 1 .. Len(queue'[q]) :
        old(q, i) = IF q = p THEN i + 1 ELSE i
  OBVIOUS
<1> HIDE DEF old
<1>10. \A q \in Pool, s \in Request : Queued(q, s)' => Queued(q, s)
  <2>1. SUFFICES ASSUME NEW q \in Pool, NEW s \in Request, Queued(q, s)'
                 PROVE  Queued(q, s)
    OBVIOUS
  <2>2. PICK i \in 1 .. Len(queue'[q]) : queue'[q][i] = s
    BY <2>1 DEF Queued
  <2>3. old(q, i) \in 1 .. Len(queue[q]) /\ queue[q][old(q, i)] = s
    BY <2>2, <1>8
  <2>4. QED BY <2>3 DEF Queued
<1>11. TaskInv'
  BY <1>1, <1>4, <1>5, <1>7, <1>10 DEF TaskInv
<1>12. ASSUME NEW s \in Request, future'[s] = "pending"
       PROVE  \E q \in Pool : s \in running'[q] \/ Queued(q, s)'
  <2>1. PICK q \in Pool : s \in running[q] \/ Queued(q, s)
    BY <1>1, <1>12 DEF HeldInv
  <2>2. CASE s \in running[q]
    BY <2>2, <1>4, <1>5
  <2>3. CASE s = r
    <3>1. started = {r}
      BY <2>3, <1>1, <1>12
    <3>2. QED BY <2>3, <3>1, <1>5
  <2>4. CASE Queued(q, s) /\ s # r
    <3>1. PICK i \in 1 .. Len(queue[q]) : queue[q][i] = s
      BY <2>4 DEF Queued
    <3>2. CASE q # p
      BY <3>1, <3>2, <1>4 DEF Queued
    <3>3. CASE q = p
      <4>1. i - 1 \in 1 .. Len(queue'[p]) /\ queue'[p][i - 1] = s
        BY <3>1, <3>3, <2>4, <1>3
      <4>2. QED BY <4>1, <3>3 DEF Queued
    <3>4. QED BY <3>2, <3>3
  <2>5. QED BY <2>1, <2>2, <2>3, <2>4
<1>13. HeldInv'
  BY <1>12 DEF HeldInv
<1>14. PlaceInv'
  <2>1. ASSUME NEW q \in Pool, NEW t \in Pool,
               NEW i \in 1 .. Len(queue'[q]), NEW j \in 1 .. Len(queue'[t]),
               queue'[q][i] = queue'[t][j]
        PROVE  q = t /\ i = j
    <3>1. /\ old(q, i) \in 1 .. Len(queue[q]) /\ old(t, j) \in 1 .. Len(queue[t])
          /\ queue[q][old(q, i)] = queue[t][old(t, j)]
      BY <2>1, <1>8
    <3>2. q = t /\ old(q, i) = old(t, j)
      BY <3>1 DEF PlaceInv
    <3>3. i \in Int /\ j \in Int
      OBVIOUS
    <3>4. QED BY <3>2, <3>3, <1>9
  <2>2. ASSUME NEW q \in Pool, NEW t \in Pool, NEW i \in 1 .. Len(queue'[q])
        PROVE  queue'[q][i] \notin running'[t]
    <3>0. old(q, i) \in 1 .. Len(queue[q]) /\ queue'[q][i] = queue[q][old(q, i)]
      BY <1>8
    <3>1. queue'[q][i] \notin running[t]
      BY <3>0 DEF PlaceInv
    <3>2. queue'[q][i] # r
      <4>1. 1 \in 1 .. Len(queue[p])
        BY <1>2, <1>3
      <4>2. queue[q][old(q, i)] = queue[p][1] => q = p /\ old(q, i) = 1
        BY <3>0, <4>1 DEF PlaceInv
      <4>3. i + 1 # 1
        OBVIOUS
      <4>4. QED BY <4>2, <4>3, <3>0, <1>3, <1>9
    <3>3. QED BY <3>1, <3>2, <1>4, <1>5
  <2>3. ASSUME NEW q \in Pool, NEW t \in Pool, q # t
        PROVE  running'[q] \cap running'[t] = {}
    <3>1. \A u \in Pool : r \notin running[u]
      <4>1. 1 \in 1 .. Len(queue[p])
        BY <1>2, <1>3
      <4>2. QED BY <4>1, <1>3 DEF PlaceInv
    <3>2. running[q] \cap running[t] = {}
      BY <2>3 DEF PlaceInv
    <3>3. \A u \in Pool : running'[u] \subseteq running[u] \cup {r}
      BY <1>4, <1>5
    <3>4. running'[q] = running[q] \/ running'[t] = running[t]
      BY <2>3, <1>4
    <3>5. QED BY <3>1, <3>2, <3>3, <3>4
  <2>4. QED BY <2>1, <2>2, <2>3 DEF PlaceInv
<1>15. QED BY <1>6, <1>11, <1>13, <1>14

\* A worker that ends its task frees the task's only place.
LEMMA EndStep ==
  ASSUME IInv, NEW p \in Pool, NEW r \in Request, NEW result \in {"completed", "failed"},
         EndTask(p, r, result), result = "completed" => wire[r] = "processed"
  PROVE  MonitorInv' /\ StageInv' /\ TaskInv' /\ PlaceInv' /\ HeldInv'
<1> USE DEF IInv, TypeOK
<1>1. /\ r \in running[p]
      /\ running' = [running EXCEPT ![p] = running[p] \ {r}]
      /\ future' = [future EXCEPT ![r] = IF future[r] = "pending" THEN result ELSE future[r]]
      /\ UNCHANGED <<queue, monitor, call, wire>>
  BY DEF EndTask, callVars
<1>2. future[r] \in {"pending", "cancelled"}
  BY <1>1 DEF TaskInv
<1>3. MonitorInv' /\ StageInv'
  BY <1>1, <1>2 DEF MonitorInv, StageInv
<1>4. \A q \in Pool, s \in Request : Queued(q, s)' <=> Queued(q, s)
  BY <1>1 DEF Queued
<1>5. \A q \in Pool : r \notin running'[q] /\ ~Queued(q, r)
  BY <1>1 DEF PlaceInv, Queued
<1>6. \A q \in Pool, s \in Request : s # r => (s \in running'[q] <=> s \in running[q])
  BY <1>1
<1>7. TaskInv'
  BY <1>1, <1>4, <1>5, <1>6 DEF TaskInv
<1>8. future'[r] # "pending"
  BY <1>1, <1>2
<1>9. HeldInv'
  BY <1>1, <1>4, <1>6, <1>8 DEF HeldInv
<1>10. \A q \in Pool : running'[q] \subseteq running[q]
  BY <1>1
<1>11. PlaceInv'
  BY <1>1, <1>10 DEF PlaceInv
<1>12. QED BY <1>3, <1>7, <1>9, <1>11

--------------------------------------------------------------------------------
(* Theorems *)

\* IInv is inductive: it holds in every reachable state.
THEOREM Invariance == Spec => []IInv
<1>1. Init => MonitorInv /\ StageInv /\ TaskInv /\ PlaceInv /\ HeldInv
  BY RequestAssumption
     DEF Init, MonitorInv, StageInv, TaskInv, PlaceInv, HeldInv, Queued, Inside
<1>2. IInv /\ TypeOK' /\ [Next]_vars => IInv'
  <2> SUFFICES ASSUME IInv, TypeOK', [Next]_vars
               PROVE  MonitorInv' /\ StageInv' /\ TaskInv' /\ PlaceInv' /\ HeldInv'
    BY DEF IInv
  <2>1. CASE \/ \E o \in Owner : OwnerNext(o)
             \/ \E n \in ThreadCounts : SetMaxThreads(n)
             \/ UNCHANGED vars
    BY <2>1, OwnersLeaveCalls, TasksUnchanged DEF IInv, MonitorInv, StageInv
  <2>2. ASSUME NEW r \in Request, Invoke(r) \/ CallNext(r) \/ ServerProcesses(r)
        PROVE  MonitorInv' /\ StageInv' /\ TaskInv' /\ PlaceInv' /\ HeldInv'
    <3>0. CASE Submit(r)
      BY <3>0, SubmitStep
    <3> USE DEF IInv, TypeOK, MonitorInv, StageInv, Inside, CallState, taskVars, callVars
    <3> USE RequestAssumption
    <3>1. CASE Invoke(r)
      BY <3>1, TasksUnchanged DEF Invoke
    <3>2. CASE Enter(r)
      <4>1. /\ call[r] = "blocked" /\ monitor = Free
            /\ UNCHANGED <<queue, running, future, wire>>
        BY <3>2 DEF Enter
      <4>2. CASE monitor' = Free /\ call' = [call EXCEPT ![r] = "refused"]
        BY <4>1, <4>2, TasksUnchanged
      <4>3. CASE monitor' = r /\ call' = [call EXCEPT ![r] = "submit"]
        <5>1. \A s \in Request : call[s] \notin {"submit", "await", "giveUp"}
          BY <4>1
        <5>2. MonitorInv'
          BY <4>1, <4>3, <5>1
        <5>3. StageInv'
          BY <4>1, <4>3
        <5>4. QED BY <4>1, <5>2, <5>3, TasksUnchanged
      <4>4. QED BY <3>2, <4>2, <4>3 DEF Enter, Leave
    <3>4. CASE SubmitCrashes(r)
      BY <3>4, TasksUnchanged DEF SubmitCrashes, Leave
    <3>5. CASE GetReturns(r)
      <4>1. PICK told \in {"ok", "failed"} :
              call' = [call EXCEPT ![r] = told] /\ (told = "ok" => future[r] = "completed")
        BY <3>5 DEF GetReturns, Leave
      <4>2. call[r] = "await" /\ monitor' = Free /\ UNCHANGED <<queue, running, future, wire>>
        BY <3>5 DEF GetReturns, Leave
      <4>3. future[r] # "pending"
        BY <3>5 DEF GetReturns
      <4>4. MonitorInv' /\ StageInv'
        BY <4>1, <4>2, <4>3
      <4>5. QED BY <4>2, <4>4, TasksUnchanged
    <3>6. CASE GetGivesUp(r)
      BY <3>6, TasksUnchanged DEF GetGivesUp
    <3>7. CASE Cancel(r)
      <4>1. MonitorInv' /\ StageInv'
        BY <3>7 DEF Cancel, Leave
      <4>2. /\ UNCHANGED <<queue, running>>
            /\ \A s \in Request :
                 /\ future[s] \in {"pending", "cancelled"} => future'[s] \in {"pending", "cancelled"}
                 /\ future'[s] = "pending" => future[s] = "pending"
        BY <3>7 DEF Cancel
      <4>3. TaskInv' /\ PlaceInv' /\ HeldInv'
        BY <4>2 DEF TaskInv, PlaceInv, HeldInv, Queued
      <4>4. QED BY <4>1, <4>3
    <3>8. CASE ServerProcesses(r)
      BY <3>8, TasksUnchanged DEF ServerProcesses
    <3>9. QED
      BY <2>2, <3>0, <3>1, <3>2, <3>4, <3>5, <3>6, <3>7, <3>8 DEF CallNext
  <2>3. ASSUME NEW p \in Pool, WorkerNext(p)
        PROVE  MonitorInv' /\ StageInv' /\ TaskInv' /\ PlaceInv' /\ HeldInv'
    <3>1. CASE StartTask(p)
      BY <3>1, StartStep
    <3>2. ASSUME NEW r \in Request, SendRequest(p, r)
          PROVE  MonitorInv' /\ StageInv' /\ TaskInv' /\ PlaceInv' /\ HeldInv'
      <4>1. future[r] # "none"
        BY <3>2 DEF SendRequest, IInv, TaskInv
      <4>2. QED
        BY <3>2, <4>1, TasksUnchanged
           DEF SendRequest, IInv, TypeOK, MonitorInv, StageInv, taskVars, callVars
    <3>3. ASSUME NEW r \in Request, TaskReturns(p, r) \/ TaskThrows(p, r)
          PROVE  MonitorInv' /\ StageInv' /\ TaskInv' /\ PlaceInv' /\ HeldInv'
      BY <3>3, EndStep DEF TaskReturns, TaskThrows
    <3>4. QED BY <2>3, <3>1, <3>2, <3>3 DEF WorkerNext
  <2>4. QED BY <2>1, <2>2, <2>3 DEF Next
<1>3. QED BY <1>1, <1>2, TypeCorrect, PTL DEF Spec, IInv

\* However large the pool is, at most one task is wanted by a caller.
THEOREM OneWanted == Spec => []AtMostOneWanted
<1>1. IInv => AtMostOneWanted
  BY DEF IInv, MonitorInv, StageInv, AtMostOneWanted, Inside
<1>2. QED BY <1>1, Invariance, PTL

\* A task that a caller waits for is never lost to close() or open().
THEOREM TaskIsHeld == Spec => []WantedTaskIsHeld
<1>1. IInv => WantedTaskIsHeld
  <2>1. ASSUME TypeOK PROVE \A p \in Pool : DOMAIN queue[p] = 1 .. Len(queue[p])
    BY <2>1 DEF TypeOK
  <2>2. QED BY <2>1 DEF IInv, HeldInv, WantedTaskIsHeld, Queued
<1>2. QED BY <1>1, Invariance, PTL

\* No worker starts on the request of a call that has returned to its caller.
THEOREM LateStartNever == Spec => NoLateStart
<1>1. IInv /\ [Next]_vars =>
        [\A r \in Request, p \in Pool :
           call[r] \in Returned /\ r \notin running[p] => r \notin running'[p]]_vars
  <2> SUFFICES ASSUME IInv, Next, NEW r \in Request, NEW p \in Pool,
                      call[r] \in Returned, r \notin running[p], r \in running'[p]
               PROVE  FALSE
    OBVIOUS
  <2>1. StartTask(p)
    <3>1. ~ UNCHANGED running
      OBVIOUS
    <3>2. PICK q \in Pool : WorkerNext(q)
      BY <3>1, OwnersLeaveCalls DEF Next, CallNext, Invoke, Enter, Submit, SubmitCrashes, GetReturns,
         GetGivesUp, Cancel, ServerProcesses, taskVars
    <3>3. StartTask(q)
      <4>1. ASSUME NEW s \in Request, TaskReturns(q, s) \/ TaskThrows(q, s)
            PROVE  running'[p] \subseteq running[p]
        <5>1. running' = [running EXCEPT ![q] = running[q] \ {s}]
          BY <4>1 DEF TaskReturns, TaskThrows, EndTask
        <5>2. QED BY <5>1 DEF IInv, TypeOK
      <4>2. ASSUME NEW s \in Request, SendRequest(q, s)
            PROVE  FALSE
        BY <4>2, <3>1 DEF SendRequest, taskVars
      <4>3. QED BY <3>2, <4>1, <4>2 DEF WorkerNext
    <3>4. QED BY <3>3 DEF StartTask, TakeTask, IInv, TypeOK
  <2>2. queue[p] \in Seq(Request) /\ queue[p] # <<>>
    BY <2>1 DEF StartTask, TakeTask, IInv, TypeOK
  <2>3. r = Head(queue[p]) /\ future[r] # "cancelled"
    BY <2>1 DEF StartTask, TakeTask, IInv, TypeOK
  <2>4. Queued(p, r)
    <3>1. 1 \in 1 .. Len(queue[p]) /\ queue[p][1] = r
      BY <2>2, <2>3, TailElements
    <3>2. QED BY <3>1 DEF Queued
  <2>5. future[r] = "pending"
    BY <2>3, <2>4 DEF IInv, TaskInv
  <2>6. QED BY <2>5 DEF IInv, StageInv, Returned
<1>2. QED BY <1>1, Invariance, PTL DEF Spec, NoLateStart

--------------------------------------------------------------------------------
(* The refinement *)

\* What Contract makes of the connection's state.
told == [r \in Request |-> Told(call[r])]
done == [r \in Request |-> wire[r] = "processed"]

\* A step that moves one call on moves that call's outcome in the contract.
LEMMA OutcomeStep ==
  ASSUME TypeOK, NEW r \in Request, NEW stage, call' = [call EXCEPT ![r] = stage]
  PROVE  told' = [told EXCEPT ![r] = Told(stage)]
BY DEF TypeOK, told

\* Every step of the connection is a step of the contract, or changes nothing
\* that the contract speaks of.
LEMMA StepSimulation ==
  ASSUME IInv, [Next]_vars
  PROVE  [Contract!Next]_(Contract!vars)
<1> USE DEF Contract!vars
<1> DEFINE Goal == [Contract!Next]_(Contract!vars)
<1>1. TypeOK /\ TypeOK' BY TypeStep DEF IInv
<1>2. CASE UNCHANGED <<call, wire>>
  BY <1>2
<1>3. CASE UNCHANGED vars \/ (\E o \in Owner : OwnerNext(o))
           \/ \E n \in ThreadCounts : SetMaxThreads(n)
  BY <1>2, <1>3, OwnersLeaveCalls
<1>4. ASSUME NEW r \in Request, Invoke(r) \/ CallNext(r) PROVE Goal
  <2>1. UNCHANGED done
    BY <1>4 DEF done, Invoke, CallNext, Enter, Submit, SubmitCrashes, GetReturns, GetGivesUp, Cancel
  <2>2. PICK stage : call' = [call EXCEPT ![r] = stage]
    BY <1>4 DEF Invoke, CallNext, Enter, Submit, SubmitCrashes, GetReturns, GetGivesUp, Cancel, Leave
  <2>3. told' = [told EXCEPT ![r] = Told(stage)]
    BY <1>1, <2>2, OutcomeStep
  <2>4. stage = call'[r]
    BY <1>1, <2>2 DEF TypeOK
  <2>5. CASE Told(stage) = Told(call[r])
    BY <2>1, <2>3, <2>5 DEF told, done
  <2>6. CASE Invoke(r)
    <3>1. Told(stage) = "pending" /\ told[r] = "unused"
      BY <2>6, <1>1, <2>4 DEF Invoke, Told, told, TypeOK
    <3>2. Contract!Call(r)
      BY <3>1, <2>1, <2>3 DEF Contract!Call, Contract!Tell, told, done
    <3>3. QED BY <3>2 DEF Contract!Next
  <2>7. CASE Enter(r) \/ SubmitCrashes(r)
    <3>1. CASE stage \in {"refused", "crashed"}
      <4>1. Told(stage) = "refused" /\ told[r] = "pending"
        BY <3>1, <2>7, <1>1 DEF Enter, SubmitCrashes, Told, told, TypeOK
      <4>2. done[r] = FALSE
        BY <2>7 DEF Enter, SubmitCrashes, IInv, StageInv, done
      <4>3. Contract!Refuse(r)
        BY <4>1, <4>2, <2>1, <2>3 DEF Contract!Refuse, Contract!Tell, told, done
      <4>4. QED BY <4>3 DEF Contract!Next
    <3>2. CASE stage = "submit"
      BY <3>2, <2>5, <2>7, <1>1 DEF Enter, SubmitCrashes, Told, TypeOK
    <3>3. QED BY <2>7, <2>4, <1>1, <3>1, <3>2 DEF Enter, SubmitCrashes, Leave, TypeOK
  <2>8. CASE Submit(r) \/ GetGivesUp(r)
    BY <2>8, <2>4, <2>5, <1>1 DEF Submit, GetGivesUp, Told, TypeOK
  <2>9. CASE GetReturns(r) \/ Cancel(r)
    <3>1. told[r] = "pending"
      BY <2>9 DEF GetReturns, Cancel, Told, told
    <3>2. CASE stage = "ok"
      <4>1. done[r] /\ Told(stage) = "ok"
        <5>1. call'[r] = "ok" /\ call[r] # "ok"
          BY <3>2, <2>9, <2>4 DEF GetReturns, Cancel
        <5>2. future[r] = "completed"
          BY <5>1, <2>9, <1>1 DEF GetReturns, Cancel, Leave, TypeOK
        <5>3. wire[r] = "processed"
          BY <5>2 DEF IInv, StageInv
        <5>4. QED BY <5>3, <3>2 DEF done, Told
      <4>2. Contract!Succeed(r)
        BY <4>1, <3>1, <2>1, <2>3 DEF Contract!Succeed, Contract!Tell, told, done
      <4>3. QED BY <4>2 DEF Contract!Next
    <3>3. CASE stage = "failed"
      <4>1. Contract!Fail(r)
        BY <3>3, <3>1, <2>1, <2>3 DEF Contract!Fail, Contract!Tell, Told, told, done
      <4>2. QED BY <4>1 DEF Contract!Next
    <3>4. QED
      BY <2>9, <2>4, <1>1, <3>2, <3>3 DEF GetReturns, Cancel, Leave, TypeOK
  <2>10. QED
    BY <1>4, <2>6, <2>7, <2>8, <2>9 DEF CallNext
<1>5. ASSUME NEW r \in Request, ServerProcesses(r) PROVE Goal
  <2>1. UNCHANGED told /\ done[r] = FALSE /\ done' = [done EXCEPT ![r] = TRUE]
    <3>1. call' = call /\ wire[r] = "sent" /\ wire' = [wire EXCEPT ![r] = "processed"]
      BY <1>5 DEF ServerProcesses, callVars
    <3>2. \A s \in Request : wire'[s] = IF s = r THEN "processed" ELSE wire[s]
      BY <3>1, <1>1 DEF TypeOK
    <3>3. done' = [done EXCEPT ![r] = TRUE]
      BY <3>2 DEF done
    <3>4. QED BY <3>1, <3>3 DEF told, done
  <2>2. told[r] \in {"pending", "failed"}
    <3>1. wire[r] = "sent"
      BY <1>5 DEF ServerProcesses
    <3>2. call[r] \in {"await", "giveUp", "failed"}
      BY <3>1 DEF IInv, TypeOK, StageInv, CallState, Inside, Returned
    <3>3. QED BY <3>2 DEF told, Told
  <2>3. Contract!TakeEffect(r)
    BY <2>1, <2>2 DEF Contract!TakeEffect, told, done
  <2>4. QED BY <2>3 DEF Contract!Next
<1>6. ASSUME NEW p \in Pool, WorkerNext(p) PROVE Goal
  <2>1. UNCHANGED call
    BY <1>6 DEF WorkerNext, StartTask, TakeTask, SendRequest, TaskReturns, TaskThrows, EndTask, callVars
  <2>2. UNCHANGED done
    <3>1. CASE UNCHANGED wire
      BY <3>1 DEF done
    <3>2. ASSUME NEW r \in Request, SendRequest(p, r) PROVE UNCHANGED done
      BY <3>2, <1>1 DEF SendRequest, done, TypeOK
    <3>3. QED
      BY <1>6, <3>1, <3>2 DEF WorkerNext, StartTask, TakeTask, TaskReturns, TaskThrows, EndTask
  <2>3. QED BY <2>1, <2>2 DEF done
<1>7. QED BY <1>3, <1>4, <1>5, <1>6 DEF Next

\* The connection implements the contract: a call told of an answer has taken
\* effect, one that was refused never does, one that failed at most once.
THEOREM Refinement == Spec => ImplementsContract
<1>1. Init => Contract!Init
  <2>1. ASSUME Init PROVE \A r \in Request : call[r] = "unused" /\ wire[r] = "none"
    BY <2>1 DEF Init
  <2>2. QED BY <2>1 DEF Contract!Init, Told
<1>2. IInv /\ [Next]_vars => [Contract!Next]_(Contract!vars)
  BY StepSimulation
<1>3. QED BY <1>1, <1>2, Invariance, PTL DEF Spec, ImplementsContract, Contract!Spec

--------------------------------------------------------------------------------
(* The pools of a single owner *)

Accepting == {p \in Pool : pool[p] = "running"}

\* What each step of close() and open() leaves behind: which pools still accept
\* tasks, and whether the executor field holds one.
FieldInv(o) ==
  /\ owner[o] = "idle" => /\ Accepting = IF closed THEN {} ELSE {executor}
                          /\ closed <=> executor = NoPool
  /\ owner[o] = "closeShutdown" => executor # NoPool /\ Accepting = {executor}
  /\ owner[o] \in {"closeNull", "openNew"} => Accepting = {}
  /\ owner[o] = "closeFlag" => Accepting = {} /\ executor = NoPool
  /\ owner[o] = "openShutdown" => executor # NoPool /\ Accepting = {executor}
  /\ owner[o] = "openFlag" => executor # NoPool /\ Accepting = {executor}

\* Each step of the owner takes one stage to the next.
LEMMA FieldStep ==
  ASSUME NEW o \in Owner, Owner = {o}, 0 \notin ThreadCounts,
         TypeOK, FieldInv(o), [Next]_vars
  PROVE  FieldInv(o)'
<1> USE PoolAssumption DEF FieldInv
<1>1. owner \in [Owner -> OwnerState] /\ pool \in [Pool -> {"none", "running", "shutdown"}]
      /\ executor \in Pool \cup {NoPool} /\ maxThreads # 0
  BY DEF TypeOK
<1>2. CASE UNCHANGED <<closed, executor, owner, pool>>
  BY <1>2 DEF Accepting
<1>3. CASE OwnerNext(o)
  <2> USE DEF OwnerStep
  <2>1. CASE BeginClose(o) \/ BeginOpen(o)
    BY <1>1, <2>1 DEF BeginClose, BeginOpen, poolVars, Accepting, NoPool
  <2>2. CASE CloseShutdown(o) \/ OpenShutdown(o)
    <3>1. executor # NoPool /\ Accepting = {executor}
      BY <2>2 DEF CloseShutdown, OpenShutdown, ShutdownPool
    <3>2. pool' = [pool EXCEPT ![executor] = "shutdown"]
          /\ owner'[o] \in {"closeNull", "openNew"}
      BY <1>1, <2>2, <3>1 DEF CloseShutdown, OpenShutdown, ShutdownPool
    <3>3. Accepting' = {}
      BY <1>1, <3>1, <3>2 DEF Accepting
    <3>4. QED BY <3>2, <3>3
  <2>3. CASE CloseNull(o) \/ CloseFlag(o) \/ OpenFlag(o)
    BY <1>1, <2>3 DEF CloseNull, CloseFlag, OpenFlag, poolVars, Accepting, NoPool
  <2>4. CASE OpenNew(o)
    <3>1. PICK p \in Pool : /\ owner[o] = "openNew" /\ owner' = [owner EXCEPT ![o] = "openFlag"]
                            /\ executor' = p /\ pool' = [pool EXCEPT ![p] = "running"]
      BY <2>4 DEF OpenNew, NewPool
    <3>2. Accepting' = {p}
      BY <1>1, <3>1 DEF Accepting
    <3>3. owner'[o] = "openFlag" /\ p # NoPool
      BY <1>1, <3>1 DEF Pool, NoPool
    <3>4. QED BY <3>1, <3>2, <3>3
  <2>5. CASE OpenFails(o)
    BY <1>1, <2>5 DEF OpenFails
  <2>6. QED BY <1>3, <2>1, <2>2, <2>3, <2>4, <2>5 DEF OwnerNext
<1>4. ASSUME NEW r \in Request, Invoke(r) \/ CallNext(r) \/ ServerProcesses(r)
      PROVE  UNCHANGED <<closed, executor, owner, pool>>
  BY <1>4 DEF Invoke, CallNext, Enter, Submit, SubmitCrashes, GetReturns, GetGivesUp, Cancel,
              ServerProcesses, ownerVars, poolVars
<1>5. ASSUME NEW p \in Pool, WorkerNext(p)
      PROVE  UNCHANGED <<closed, executor, owner, pool>>
  BY <1>5 DEF WorkerNext, StartTask, TakeTask, SendRequest, TaskReturns, TaskThrows, EndTask,
              ownerVars, poolVars
<1>6. ASSUME NEW n \in ThreadCounts, SetMaxThreads(n)
      PROVE  UNCHANGED <<closed, executor, owner, pool>>
  BY <1>6 DEF SetMaxThreads, poolVars
<1>7. CASE UNCHANGED vars
  BY <1>2, <1>7 DEF vars, ownerVars, poolVars
<1>8. QED BY <1>2, <1>3, <1>4, <1>5, <1>6, <1>7 DEF Next

\* An owner that opens, closes and resizes the connection in any order leaves no
\* pool behind: one that is open has a pool that accepts tasks, and no other
\* pool does.  With two owners at once, or a pool of no threads, this fails.
THEOREM PoolsMatch ==
  ASSUME NEW o \in Owner, Owner = {o}, 0 \notin ThreadCounts
  PROVE  Spec => []PoolMatchesFlag
<1>1. Init => FieldInv(o)
  BY DEF Init, FieldInv, Accepting, NoPool
<1>2. TypeOK /\ FieldInv(o) /\ [Next]_vars => FieldInv(o)'
  BY FieldStep
<1>3. FieldInv(o) => PoolMatchesFlag
  BY DEF FieldInv, PoolMatchesFlag, Accepting
<1>4. Spec => []TypeOK
  BY Invariance, PTL DEF IInv
<1>5. QED BY <1>1, <1>2, <1>3, <1>4, PTL DEF Spec

================================================================================
