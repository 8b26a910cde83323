---------------------------- MODULE HttpEngineProofs ----------------------------
(***************************************************************************)
(* Safety of HttpEngine.write for lists of any length with any nodes,      *)
(* authentications and times.                                              *)
(***************************************************************************)

EXTENDS HttpEngine, Induction, FiniteSetTheorems

--------------------------------------------------------------------------------
(* The inductive invariant *)

\* A channel that the loop over the list has passed.
Passed(c) == c \in DOMAIN list /\ (stage = "collect" => c < at)

\* A container has the value of channel c.
Holds(container, c) ==
  \E i \in DOMAIN container.data : c \in Range(container.data[i].values)

\* The channels of a data set are in the order of the list.
Increasing(values) == \A x, y \in DOMAIN values : x < y => values[x] < values[y]

\* A list has one data set for a node and second, with its channels in order.
Grouped(data) ==
  /\ \A i, j \in DOMAIN data :
       data[i].node = data[j].node /\ data[i].time = data[j].time => i = j
  /\ \A i \in DOMAIN data : Increasing(data[i].values)

\* What is in a data set of a container belongs there.
Belongs(c, container, i) ==
  /\ Passed(c) /\ list[c].valid
  /\ Same(container.authentication, list[c].authentication)
  /\ container.data[i].node = list[c].node
  /\ container.data[i].time = ToSeconds(TimeOf(c))

\* The loops and the end of the call go together.
Control ==
  /\ stage = "idle" <=> result # "none"
  /\ stage = "collect" => Len(containers) < at /\ requests = <<>> /\ at <= Len(list) + 1
  /\ stage = "post" =>
       /\ Len(list) > 1 /\ Len(requests) = at - 1
       /\ at <= Len(containers) + 1
  /\ Len(containers) <= Len(list)
  /\ Len(list) = 1 => containers = <<>> /\ (stage = "collect" => at = 1)

\* There is one container for an authentication.
Separate ==
  \A k, l \in DOMAIN containers :
    Same(containers[k].authentication, containers[l].authentication) => k = l

\* The containers hold what belongs to them.
Contained ==
  \A k \in DOMAIN containers :
    /\ Grouped(containers[k].data)
    /\ \A i \in DOMAIN containers[k].data : \A c \in Range(containers[k].data[i].values) :
         Belongs(c, containers[k], i)

\* Every valid channel that was passed is in a container, unless the collection broke.
Gathered ==
  Len(list) > 1 /\ (stage # "idle" \/ requests # <<>> \/ result = "ok") =>
    \A c \in DOMAIN list : Passed(c) /\ list[c].valid =>
      \E k \in DOMAIN containers : Holds(containers[k], c)

\* The values of a request are those of the data sets, each once: value x is member
\* place[x] of data set set[x], in the order of time, and within a set in its order.
IsContent(values, data, set, place) ==
  /\ set \in [DOMAIN values -> DOMAIN data]
  /\ \A x \in DOMAIN values :
       LET d == data[set[x]]
       IN place[x] \in DOMAIN d.values /\ values[x] = Sent(d.values[place[x]], d.node, d.time)
  /\ \A x, y \in DOMAIN values :
       x < y => /\ data[set[x]].time <= data[set[y]].time
                /\ set[x] = set[y] => place[x] < place[y]
  /\ \A i \in DOMAIN data : \A j \in DOMAIN data[i].values :
       \E x \in DOMAIN values : set[x] = i /\ place[x] = j

\* The values form a sequence, spread over the data sets in such a way.
Contents(values, data) ==
  values \in Seq(Value) /\ \E set, place : IsContent(values, data, set, place)

\* A request that posts a container: its values, whatever the present was.
Posts(request, container) ==
  /\ request.authentication = AuthenticationOf(container)
  /\ Contents(request.values, container.data)

\* The requests are those of the first containers, and of all after success.
Requested ==
  Len(list) > 1 =>
    /\ Len(requests) <= Len(containers)
    /\ \A r \in DOMAIN requests : Posts(requests[r], containers[r])
    /\ result = "ok" => Len(requests) = Len(containers)

\* A single channel is posted on its own, if it is valid.
RequestedAlone ==
  Len(list) = 1 =>
    /\ requests # <<>> =>
         /\ list[1].valid
         /\ requests = <<[authentication |-> Default,
                          values |-> <<Sent(1, list[1].node, ToSeconds(TimeOf(1)))>>]>>
    /\ result = "ok" /\ list[1].valid => requests # <<>>

\* The inductive invariant.
IInv ==
  TypeOK /\ Control /\ Separate /\ Contained /\ Gathered /\ Requested /\ RequestedAlone

--------------------------------------------------------------------------------
(* Sorting *)

\* One index comes before another: by its time, or by itself.
Earlier(t, v, w) == t[v] < t[w] \/ (t[v] = t[w] /\ v < w)

\* p puts the indices up to m into the order of their times, without changing the
\* order of indices with one time.
Orders(p, t, m) ==
  /\ p \in [1 .. m -> 1 .. m]
  /\ \A v \in 1 .. m : \E i \in 1 .. m : p[i] = v
  /\ \A i, j \in 1 .. m : i < j => Earlier(t, p[i], p[j])

\* The indices with a time up to another come first.
LEMMA SplitAt ==
  ASSUME NEW m \in Nat, NEW n \in Nat, m <= n, NEW t \in [1 .. n -> Nat], NEW p, Orders(p, t, m),
         NEW u \in Nat
  PROVE  \E k \in 0 .. m : \A i \in 1 .. m : i <= k <=> t[p[i]] <= u
<1> DEFINE s == {i \in 1 .. m : t[p[i]] <= u}
<1>1. \A i \in 1 .. m : p[i] \in 1 .. n /\ t[p[i]] \in Nat
  <2>1. \A i \in 1 .. m : p[i] \in 1 .. m
    BY DEF Orders
  <2>2. 1 .. m \subseteq 1 .. n
    OBVIOUS
  <2>3. QED BY <2>1, <2>2
<1>2. ASSUME NEW i \in 1 .. m, NEW j \in s, i < j PROVE i \in s
  <2>1. t[p[i]] <= t[p[j]]
    <3>1. Earlier(t, p[i], p[j])
      BY <1>2 DEF Orders
    <3>2. t[p[i]] \in Nat /\ t[p[j]] \in Nat
      BY <1>1
    <3>3. QED BY <3>1, <3>2 DEF Earlier
  <2>2. QED BY <1>1, <2>1
<1>3. CASE s = {}
  <2>1. 0 \in 0 .. m /\ \A i \in 1 .. m : ~(i <= 0) /\ ~(t[p[i]] <= u)
    BY <1>3
  <2>2. QED BY <2>1
<1>4. CASE s # {}
  <2>1. Max(s) \in s /\ \A i \in s : i <= Max(s)
    <3>1. s \in SUBSET (1 .. m)
      OBVIOUS
    <3> HIDE DEF s
    <3>2. QED BY <1>4, <3>1, MaxIsThere
  <2>2. Max(s) \in 1 .. m /\ Max(s) \in 0 .. m
    BY <2>1
  <2>3. ASSUME NEW i \in 1 .. m PROVE i <= Max(s) <=> i \in s
    <3> HIDE DEF s
    <3>1. CASE i < Max(s)
      BY <1>2, <2>1, <3>1
    <3>2. CASE i = Max(s)
      BY <2>1, <2>2, <3>2
    <3>3. CASE i > Max(s)
      BY <2>1, <2>2, <3>3
    <3>4. QED BY <2>2, <3>1, <3>2, <3>3
  <2>4. QED BY <2>2, <2>3
<1>5. QED BY <1>3, <1>4

\* With one more index there still is such an order: the index goes behind those of
\* its time.
LEMMA OrderOn ==
  ASSUME NEW m \in Nat, NEW n \in Nat, m + 1 <= n, NEW t \in [1 .. n -> Nat], NEW p, Orders(p, t, m)
  PROVE  \E q : Orders(q, t, m + 1)
<1>1. PICK k \in 0 .. m : \A i \in 1 .. m : i <= k <=> t[p[i]] <= t[m + 1]
  <2>1. m + 1 \in 1 .. n /\ m <= n
    OBVIOUS
  <2>2. t[m + 1] \in Nat
    BY <2>1
  <2>3. QED BY <2>1, <2>2, SplitAt
<1> DEFINE q == [i \in 1 .. m + 1 |-> IF i <= k THEN p[i]
                                      ELSE IF i = k + 1 THEN m + 1 ELSE p[i - 1]]
<1>2. p \in [1 .. m -> 1 .. m]
  BY DEF Orders
<1>3. /\ \A i \in 1 .. k : i \in 1 .. m /\ i \in 1 .. m + 1 /\ q[i] = p[i]
      /\ k + 1 \in 1 .. m + 1 /\ q[k + 1] = m + 1
      /\ \A i \in k + 2 .. m + 1 : i - 1 \in 1 .. m /\ i \in 1 .. m + 1 /\ q[i] = p[i - 1]
      /\ \A i \in 1 .. m + 1 : i \in 1 .. k \/ i = k + 1 \/ i \in k + 2 .. m + 1
  OBVIOUS
<1>4. \A i \in 1 .. m + 1 : q[i] \in 1 .. m + 1
  <2>1. \A i \in 1 .. m : p[i] \in 1 .. m + 1
    BY <1>2
  <2> HIDE DEF q
  <2>2. m + 1 \in 1 .. m + 1
    OBVIOUS
  <2>3. QED BY ONLY <1>3, <2>1, <2>2
<1>5. q \in [1 .. m + 1 -> 1 .. m + 1]
  BY <1>4
<1>6. \A i \in 1 .. m : t[p[i]] \in Nat /\ p[i] < m + 1
  BY <1>2
<1>7. t[m + 1] \in Nat
  OBVIOUS
<1> HIDE DEF q
<1>8. ASSUME NEW v \in 1 .. m + 1 PROVE \E i \in 1 .. m + 1 : q[i] = v
  <2>1. CASE v = m + 1
    BY <1>3, <2>1
  <2>2. CASE v \in 1 .. m
    <3>1. PICK i \in 1 .. m : p[i] = v
      BY <2>2 DEF Orders
    <3>2. CASE i <= k
      <4>1. i \in 1 .. k
        BY <3>2
      <4>2. QED BY <1>3, <3>1, <4>1
    <3>3. CASE i > k
      <4>1. i + 1 \in k + 2 .. m + 1 /\ (i + 1) - 1 = i
        BY <3>3
      <4>2. QED BY <1>3, <3>1, <4>1
    <3>4. QED BY <3>2, <3>3
  <2>3. QED BY <2>1, <2>2
<1>9. \A i, j \in 1 .. m : i < j => Earlier(t, p[i], p[j])
  BY DEF Orders
<1>10. ASSUME NEW i \in 1 .. m + 1, NEW j \in 1 .. m + 1, i < j
       PROVE  Earlier(t, q[i], q[j])
  <2>1. CASE i \in 1 .. k /\ j \in 1 .. k
    <3>1. i \in 1 .. m /\ j \in 1 .. m /\ q[i] = p[i] /\ q[j] = p[j]
      BY ONLY <1>3, <2>1
    <3>2. QED BY ONLY <1>9, <1>10, <3>1
  <2>2. CASE i \in 1 .. k /\ j = k + 1
    <3>1. t[p[i]] <= t[m + 1] /\ q[i] = p[i] /\ i \in 1 .. m
      BY <1>1, <1>3, <2>2
    <3>2. t[p[i]] \in Nat /\ p[i] < m + 1 /\ q[j] = m + 1
      BY <1>3, <1>6, <2>2, <3>1
    <3>3. QED BY ONLY <1>7, <3>1, <3>2 DEF Earlier
  <2>3. CASE i \in 1 .. k /\ j \in k + 2 .. m + 1
    <3>1. i < j - 1
      BY <2>3
    <3>2. i \in 1 .. m /\ j - 1 \in 1 .. m /\ q[i] = p[i] /\ q[j] = p[j - 1]
      BY ONLY <1>3, <2>3
    <3>3. QED BY ONLY <1>9, <3>1, <3>2
  <2>4. CASE i = k + 1 /\ j \in k + 2 .. m + 1
    <3>1. j - 1 \in 1 .. m /\ ~(j - 1 <= k) /\ q[j] = p[j - 1] /\ q[i] = m + 1
      BY <1>3, <2>4
    <3>2. ~(t[p[j - 1]] <= t[m + 1]) /\ t[p[j - 1]] \in Nat
      BY ONLY <1>1, <1>6, <3>1
    <3>3. QED BY ONLY <1>7, <3>1, <3>2 DEF Earlier
  <2>5. CASE i \in k + 2 .. m + 1 /\ j \in k + 2 .. m + 1
    <3>1. i - 1 < j - 1
      BY <1>10, <2>5
    <3>2. i - 1 \in 1 .. m /\ j - 1 \in 1 .. m /\ q[i] = p[i - 1] /\ q[j] = p[j - 1]
      BY ONLY <1>3, <2>5
    <3>3. QED BY ONLY <1>9, <3>1, <3>2
  <2>6. QED BY <1>3, <1>10, <2>1, <2>2, <2>3, <2>4, <2>5
<1>11. Orders(q, t, m + 1)
  BY <1>5, <1>8, <1>10 DEF Orders
<1>12. QED BY <1>11

\* Such an order exists, by induction.
LEMMA OrdersExist ==
  ASSUME NEW n \in Nat, NEW t \in [1 .. n -> Nat]
  PROVE  \E p : Orders(p, t, n)
<1> DEFINE S == {m \in Nat : m <= n => \E p : Orders(p, t, m)}
<1>1. 0 \in S
  <2>1. Orders([i \in 1 .. 0 |-> 0], t, 0)
    BY DEF Orders
  <2>2. QED BY <2>1
<1>2. ASSUME NEW m \in Nat, m \in S PROVE m + 1 \in S
  <2>1. SUFFICES ASSUME m + 1 <= n PROVE \E q : Orders(q, t, m + 1)
    OBVIOUS
  <2>2. PICK p : Orders(p, t, m)
    BY <1>2, <2>1
  <2>3. QED BY <2>1, <2>2, OrderOn
<1>3. n \in S
  <2> HIDE DEF S
  <2>1. QED BY <1>1, <1>2, SetInduction
<1>4. QED BY <1>3

\* The order by which Sort picks the data sets.
SortOrder(data) == CHOOSE order \in [DOMAIN data -> DOMAIN data] : IsOrder(order, data)

\* Sort finds an order: it is a rearrangement by time, and stable.
THEOREM SortIsStable ==
  ASSUME NEW data \in Seq(DataSet)
  PROVE  /\ IsOrder(SortOrder(data), data)
         /\ Sort(data) = [i \in DOMAIN data |-> data[SortOrder(data)[i]]]
<1> DEFINE n == Len(data)
           t == [i \in 1 .. n |-> data[i].time]
<1>1. n \in Nat /\ DOMAIN data = 1 .. n /\ \A i \in 1 .. n : data[i] \in DataSet
  OBVIOUS
<1>2. t \in [1 .. n -> Nat]
  BY <1>1 DEF DataSet
<1>3. PICK p : Orders(p, t, n)
  <2> HIDE DEF n, t
  <2>1. QED BY <1>1, <1>2, OrdersExist
<1> HIDE DEF n
<1>4. p \in [1 .. n -> 1 .. n]
  BY <1>3 DEF Orders
<1>5. \A i, j \in 1 .. n : i < j => Before(data, p[i], p[j])
  <2>1. \A i \in 1 .. n : t[p[i]] = data[p[i]].time
    BY <1>4
  <2> HIDE DEF t
  <2>2. \A i, j \in 1 .. n : i < j => Earlier(t, p[i], p[j])
    BY <1>3 DEF Orders
  <2>3. ASSUME NEW i \in 1 .. n, NEW j \in 1 .. n, i < j PROVE Before(data, p[i], p[j])
    <3>1. Earlier(t, p[i], p[j]) /\ t[p[i]] = data[p[i]].time /\ t[p[j]] = data[p[j]].time
      BY <2>1, <2>2, <2>3
    <3>2. QED BY ONLY <3>1 DEF Before, Earlier
  <2>4. QED BY <2>3
<1>6. IsInjective(p)
  <2>1. \A i, j \in 1 .. n : i < j => p[i] # p[j]
    <3>1. \A i \in 1 .. n : p[i] \in 1 .. n /\ t[p[i]] \in Nat
      BY <1>2, <1>4
    <3> HIDE DEF t
    <3>2. \A i, j \in 1 .. n : i < j => Earlier(t, p[i], p[j])
      BY <1>3 DEF Orders
    <3>3. QED BY <3>1, <3>2 DEF Earlier
  <2>2. \A i, j \in 1 .. n : i # j => i < j \/ j < i
    BY <1>1
  <2>3. QED BY <1>4, <2>1, <2>2 DEF IsInjective
<1>7. p \in Bijection(1 .. n, 1 .. n)
  BY <1>3, <1>4, <1>6 DEF Orders, Bijection, Injection, Surjection
<1>8. IsOrder(p, data)
  BY <1>1, <1>5, <1>7 DEF IsOrder
<1>9. IsOrder(SortOrder(data), data)
  BY <1>1, <1>4, <1>8 DEF SortOrder
<1>10. QED BY <1>9 DEF Sort, SortOrder

--------------------------------------------------------------------------------
(* The content of a request *)

\* A value as it is sent: its time may lie before that of its request.
Relative == [channel : Channel, node : Node, time : Int]

\* The parts of a data set.
LEMMA DataSetFacts ==
  ASSUME NEW d \in DataSet
  PROVE  /\ d.time \in Nat /\ d.node \in Node /\ d.values \in Seq(Channel)
         /\ Len(d.values) \in Nat /\ DOMAIN d.values = 1 .. Len(d.values)
<1>1. d.time \in Nat /\ d.node \in Node /\ d.values \in Seq(Channel)
  BY DEF DataSet
<1>2. QED BY <1>1

\* What is sent of a data set in a request with a time.
LEMMA ValuesFacts ==
  ASSUME NEW d \in DataSet, NEW reference \in Nat
  PROVE  /\ Values(d, reference) \in Seq(Relative)
         /\ Len(Values(d, reference)) = Len(d.values)
         /\ \A j \in 1 .. Len(d.values) :
              Values(d, reference)[j] = Sent(d.values[j], d.node, d.time - reference)
<1>1. /\ d.time \in Nat /\ d.node \in Node /\ d.values \in Seq(Channel)
      /\ Len(d.values) \in Nat /\ DOMAIN d.values = 1 .. Len(d.values)
  BY DataSetFacts
<1>2. \A j \in 1 .. Len(d.values) : Sent(d.values[j], d.node, d.time - reference) \in Relative
  BY <1>1 DEF Sent, Relative
<1>3. Values(d, reference)
        = [j \in 1 .. Len(d.values) |-> Sent(d.values[j], d.node, d.time - reference)]
  BY <1>1 DEF Values
<1>4. QED BY <1>1, <1>2, <1>3

\* A bulk request has the data sets one after the other, in the order of time, and the
\* server finds their times again, whatever the present was.
LEMMA BulkFacts ==
  ASSUME NEW data \in Seq(DataSet), NEW present \in Nat
  PROVE  Contents(Received(present, Bulk(data, present)), data)
<1> DEFINE n == Len(data)
           order == SortOrder(data)
           lines == [i \in DOMAIN data |-> Values(Sort(data)[i], present)]
           sent == FlattenSeq(lines)
           s == Received(present, sent)
<1>1. n \in Nat /\ DOMAIN data = 1 .. n /\ \A i \in 1 .. n : data[i] \in DataSet
  OBVIOUS
<1>2. IsOrder(order, data) /\ Sort(data) = [i \in 1 .. n |-> data[order[i]]]
  BY <1>1, SortIsStable
<1> HIDE DEF n, order
<1>3. /\ order \in [1 .. n -> 1 .. n]
      /\ \A i, j \in 1 .. n : order[i] = order[j] => i = j
      /\ \A v \in 1 .. n : \E i \in 1 .. n : order[i] = v
  BY <1>1, <1>2 DEF IsOrder, Bijection, Injection, Surjection, IsInjective
<1>4. \A i, j \in 1 .. n : i < j => data[order[i]].time <= data[order[j]].time
  <2>1. \A i \in 1 .. n : order[i] \in 1 .. n
    BY <1>3
  <2>2. \A i \in 1 .. n : data[i].time \in Nat
    BY <1>1, DataSetFacts
  <2>3. ASSUME NEW i \in 1 .. n, NEW j \in 1 .. n, i < j
        PROVE  data[order[i]].time <= data[order[j]].time
    <3>1. Before(data, order[i], order[j])
      BY <1>1, <1>2, <2>3 DEF IsOrder
    <3>2. data[order[i]].time \in Nat /\ data[order[j]].time \in Nat
      BY <2>1, <2>2
    <3>3. QED BY <3>1, <3>2 DEF Before
  <2>4. QED BY <2>3
<1>5. \A i \in 1 .. n : lines[i] = Values(data[order[i]], present) /\ data[order[i]] \in DataSet
  BY <1>1, <1>2, <1>3
<1>6. \A i \in 1 .. n : lines[i] \in Seq(Relative)
  <2> HIDE DEF lines
  <2>1. QED BY <1>5, ValuesFacts
<1>7. lines \in Seq(Seq(Relative)) /\ Len(lines) = n
  <2>1. lines = [i \in 1 .. n |-> lines[i]]
    BY <1>1
  <2> HIDE DEF lines
  <2>2. QED BY <1>1, <1>6, <2>1
<1> HIDE DEF lines
<1>8. sent \in Seq(Relative) /\ Spreads(lines, n, sent)
  BY <1>7, FlattenSpreads
<1> HIDE DEF sent
<1>9. Len(sent) \in Nat /\ DOMAIN sent = 1 .. Len(sent) /\ DOMAIN s = 1 .. Len(sent)
  BY <1>8 DEF Received
<1>10. PICK line, place : IsSpread(lines, n, sent, line, place)
  BY <1>8 DEF Spreads
<1> DEFINE set == [x \in 1 .. Len(sent) |-> order[line[x]]]
<1>11. ASSUME NEW x \in 1 .. Len(sent)
       PROVE  /\ set[x] = order[line[x]] /\ line[x] \in 1 .. n /\ set[x] \in 1 .. n
              /\ place[x] \in DOMAIN data[set[x]].values
              /\ s[x] = Sent(data[set[x]].values[place[x]], data[set[x]].node, data[set[x]].time)
  <2>1. line[x] \in 1 .. n /\ place[x] \in 1 .. Len(lines[line[x]]) /\ sent[x] = lines[line[x]][place[x]]
    BY <1>10 DEF IsSpread
  <2>2. set[x] = order[line[x]]
    OBVIOUS
  <2> HIDE DEF set
  <2>3. set[x] \in 1 .. n
    BY <1>3, <2>1, <2>2
  <2>4. lines[line[x]] = Values(data[set[x]], present) /\ data[set[x]] \in DataSet
    BY <1>5, <2>1, <2>2
  <2> DEFINE d == data[set[x]]
  <2>5. /\ place[x] \in DOMAIN d.values /\ d.time \in Nat
        /\ sent[x] = Sent(d.values[place[x]], d.node, d.time - present)
    BY <2>1, <2>4, DataSetFacts, ValuesFacts
  <2>6. s[x] = [sent[x] EXCEPT !.time = present + @]
    BY <1>9 DEF Received
  <2> HIDE DEF d, s
  <2>7. s[x] = Sent(d.values[place[x]], d.node, d.time)
    <3>1. present + (d.time - present) = d.time
      BY <2>5
    <3>2. s[x] = Sent(d.values[place[x]], d.node, present + (d.time - present))
      BY <2>5, <2>6 DEF Sent
    <3>3. QED BY <3>1, <3>2
  <2>8. QED BY <2>1, <2>2, <2>3, <2>5, <2>7 DEF d
<1>12. set \in [1 .. Len(sent) -> 1 .. n]
  BY <1>11
<1> HIDE DEF set, s
<1>13. ASSUME NEW x \in 1 .. Len(sent), NEW y \in 1 .. Len(sent), x < y
       PROVE  /\ data[set[x]].time <= data[set[y]].time
              /\ set[x] = set[y] => place[x] < place[y]
  <2>1. line[x] < line[y] \/ (line[x] = line[y] /\ place[x] < place[y])
    BY ONLY <1>10, <1>13 DEF IsSpread
  <2>2. set[x] = order[line[x]] /\ line[x] \in 1 .. n /\ set[y] = order[line[y]] /\ line[y] \in 1 .. n
        /\ set[x] \in 1 .. n
    BY <1>11
  <2>3. CASE line[x] < line[y]
    <3>1. data[set[x]].time <= data[set[y]].time
      BY ONLY <1>4, <2>2, <2>3
    <3>2. set[x] # set[y]
      BY <1>3, <2>2, <2>3
    <3>3. QED BY <3>1, <3>2
  <2>4. CASE line[x] = line[y] /\ place[x] < place[y]
    <3>1. data[set[x]].time \in Nat /\ set[x] = set[y]
      BY <1>1, <2>2, <2>4, DataSetFacts
    <3>2. QED BY <2>4, <3>1
  <2>5. QED BY <2>1, <2>3, <2>4
<1>14. ASSUME NEW i \in 1 .. n, NEW j \in DOMAIN data[i].values
       PROVE  \E x \in 1 .. Len(sent) : set[x] = i /\ place[x] = j
  <2>1. PICK l \in 1 .. n : order[l] = i
    BY <1>3
  <2>2. lines[l] = Values(data[i], present) /\ data[i] \in DataSet
    BY <1>5, <2>1
  <2>3. j \in 1 .. Len(lines[l])
    <3> DEFINE d == data[i]
               values == lines[l]
    <3>1. d \in DataSet /\ values = Values(d, present) /\ j \in DOMAIN d.values
      BY <2>2
    <3> HIDE DEF d, values
    <3>2. Len(values) = Len(d.values) /\ DOMAIN d.values = 1 .. Len(d.values)
      BY <3>1, DataSetFacts, ValuesFacts
    <3>3. j \in 1 .. Len(values)
      BY <3>1, <3>2
    <3>4. QED BY <3>3 DEF values
  <2>4. PICK x \in 1 .. Len(sent) : line[x] = l /\ place[x] = j
    BY ONLY <1>10, <2>1, <2>3 DEF IsSpread
  <2>5. QED BY <1>11, <2>1, <2>4
<1>15. IsContent(s, data, set, place)
  <2>1. set \in [DOMAIN s -> DOMAIN data]
    BY ONLY <1>1, <1>9, <1>12
  <2>2. \A x \in DOMAIN s :
          /\ place[x] \in DOMAIN data[set[x]].values
          /\ s[x] = Sent(data[set[x]].values[place[x]], data[set[x]].node, data[set[x]].time)
    BY ONLY <1>9, <1>11
  <2>3. \A x, y \in DOMAIN s :
          x < y => /\ data[set[x]].time <= data[set[y]].time
                   /\ set[x] = set[y] => place[x] < place[y]
    BY ONLY <1>9, <1>13
  <2>4. \A i \in DOMAIN data : \A j \in DOMAIN data[i].values :
          \E x \in DOMAIN s : set[x] = i /\ place[x] = j
    BY ONLY <1>1, <1>9, <1>14
  <2>5. QED BY ONLY <2>1, <2>2, <2>3, <2>4 DEF IsContent
<1>16. s \in Seq(Value)
  <2>1. ASSUME NEW x \in 1 .. Len(sent) PROVE s[x] \in Value
    <3> DEFINE d == data[set[x]]
    <3>1. place[x] \in DOMAIN d.values /\ s[x] = Sent(d.values[place[x]], d.node, d.time) /\ d \in DataSet
      BY <1>1, <1>11
    <3> HIDE DEF d
    <3>2. d.values[place[x]] \in Channel /\ d.node \in Node /\ d.time \in Nat
      BY <3>1, DataSetFacts
    <3>3. QED BY <3>1, <3>2 DEF Sent, Value
  <2>2. s = [x \in 1 .. Len(sent) |-> s[x]]
    BY <1>9 DEF s, Received
  <2>3. QED BY <1>9, <2>1, <2>2
<1>17. s = Received(present, Bulk(data, present))
  BY DEF s, sent, lines, Bulk
<1>18. QED BY <1>15, <1>16, <1>17 DEF Contents

\* A single data set is sent with the second it has in the list.
LEMMA SingleFacts ==
  ASSUME NEW data \in Seq(DataSet), Len(data) = 1, NEW present
  PROVE  Contents(Content(data, present), data)
<1> DEFINE d == data[1]
           s == Values(d, 0)
<1>1. d \in DataSet /\ DOMAIN data = {1}
  OBVIOUS
<1>2. ToSeconds(d.time * 1000) = d.time
  <2>1. d.time \in Nat
    BY <1>1, DataSetFacts
  <2>2. \A t \in Nat : (t * 1000) \div 1000 = t
    OBVIOUS
  <2>3. QED BY <2>1, <2>2 DEF ToSeconds
<1>3. [d EXCEPT !.time = ToSeconds(@ * 1000)] = d
  <2>1. [d EXCEPT !.time = ToSeconds(@ * 1000)] = [d EXCEPT !.time = d.time]
    BY <1>2
  <2>2. [d EXCEPT !.time = d.time] = d
    BY <1>1 DEF DataSet
  <2>3. QED BY <2>1, <2>2
<1>4. Content(data, present) = s
  BY <1>3 DEF Content
<1>5. /\ s \in Seq(Value) /\ d.time \in Nat
      /\ DOMAIN s = 1 .. Len(d.values) /\ DOMAIN d.values = 1 .. Len(d.values)
      /\ \A j \in 1 .. Len(d.values) : s[j] = Sent(d.values[j], d.node, d.time)
  <2> HIDE DEF d
  <2>1. d.time \in Nat /\ d.node \in Node /\ d.values \in Seq(Channel)
        /\ Len(d.values) \in Nat /\ DOMAIN d.values = 1 .. Len(d.values) /\ d.time - 0 = d.time
    BY <1>1, DataSetFacts
  <2>2. s = [j \in 1 .. Len(d.values) |-> Sent(d.values[j], d.node, d.time)]
    BY <2>1 DEF Values
  <2>3. \A j \in 1 .. Len(d.values) : Sent(d.values[j], d.node, d.time) \in Value
    BY <2>1 DEF Sent, Value
  <2> HIDE DEF s
  <2>4. QED BY <2>1, <2>2, <2>3
<1> HIDE DEF s, d
<1> DEFINE set == [x \in DOMAIN s |-> 1]
           place == [x \in DOMAIN s |-> x]
<1>6. IsContent(s, data, set, place)
  <2>1. set \in [DOMAIN s -> DOMAIN data] /\ \A x \in DOMAIN s : set[x] = 1 /\ place[x] = x
    BY <1>1
  <2>2. \A i \in DOMAIN data : i = 1 /\ data[i] = d
    BY <1>1 DEF d
  <2> HIDE DEF set, place
  <2>3. \A x \in DOMAIN s :
          /\ data[set[x]] = d /\ place[x] \in DOMAIN data[set[x]].values
          /\ s[x] = Sent(data[set[x]].values[place[x]], data[set[x]].node, data[set[x]].time)
    BY <1>1, <1>5, <2>1, <2>2
  <2>4. \A x, y \in DOMAIN s :
          x < y => /\ data[set[x]].time <= data[set[y]].time
                   /\ set[x] = set[y] => place[x] < place[y]
    <3>1. d.time <= d.time
      BY <1>5
    <3>2. QED BY <2>1, <2>3, <3>1
  <2>5. \A i \in DOMAIN data : \A j \in DOMAIN data[i].values :
          \E x \in DOMAIN s : set[x] = i /\ place[x] = j
    BY <1>5, <2>1, <2>2
  <2>6. QED BY <2>1, <2>3, <2>4, <2>5 DEF IsContent
<1>7. QED BY <1>4, <1>5, <1>6 DEF Contents

\* What a container's request carries.
THEOREM ContentIsWhole ==
  ASSUME NEW data \in Seq(DataSet), NEW present \in Nat
  PROVE  Contents(Content(data, present), data)
<1>1. CASE Len(data) = 1
  BY <1>1, SingleFacts
<1>2. CASE Len(data) # 1
  BY <1>2, BulkFacts DEF Content
<1>3. QED BY <1>1, <1>2

--------------------------------------------------------------------------------
(* Collecting *)

\* A data set with one more value.
With(d, c) == [d EXCEPT !.values = Append(@, c)]

\* It has the others as before, in order when the new one is last in the list.
LEMMA WithFacts ==
  ASSUME NEW d \in DataSet, NEW c \in Channel,
         Increasing(d.values), \A v \in Range(d.values) : v < c
  PROVE  /\ With(d, c) \in DataSet
         /\ With(d, c).node = d.node /\ With(d, c).time = d.time
         /\ Range(With(d, c).values) = Range(d.values) \cup {c}
         /\ Increasing(With(d, c).values)
<1> DEFINE s == d.values
           e == Append(s, c)
<1>1. d.time \in Nat /\ d.node \in Node /\ s \in Seq(Channel)
      /\ Len(s) \in Nat /\ DOMAIN s = 1 .. Len(s)
  BY DataSetFacts
<1>2. With(d, c) = [time |-> d.time, node |-> d.node, values |-> e]
  <2>1. d = [time |-> d.time, node |-> d.node, values |-> s]
    BY DEF DataSet
  <2>2. With([time |-> d.time, node |-> d.node, values |-> s], c) =
          [time |-> d.time, node |-> d.node, values |-> e]
    <3> HIDE DEF s
    <3>1. QED BY DEF With
  <2>3. QED BY <2>1, <2>2
<1> HIDE DEF s
<1>3. /\ e \in Seq(Channel) /\ DOMAIN e = 1 .. Len(s) + 1 /\ e[Len(s) + 1] = c
      /\ \A x \in 1 .. Len(s) : x \in DOMAIN e /\ e[x] = s[x]
  BY <1>1
<1> HIDE DEF e
<1>4. Range(e) = Range(s) \cup {c}
  <2>1. \A x \in DOMAIN e : x \in DOMAIN s \/ x = Len(s) + 1
    BY <1>1, <1>3
  <2>2. Len(s) + 1 \in DOMAIN e
    BY <1>1, <1>3
  <2>3. QED BY <1>1, <1>3, <2>1, <2>2 DEF Range
<1>5. Increasing(e)
  <2>1. ASSUME NEW x \in DOMAIN e, NEW y \in DOMAIN e, x < y PROVE e[x] < e[y]
    <3>1. x \in 1 .. Len(s)
      BY <1>1, <1>3, <2>1
    <3>2. CASE y \in 1 .. Len(s)
      <4>1. s[x] < s[y]
        BY ONLY <1>1, <2>1, <3>1, <3>2, Increasing(d.values) DEF Increasing, s
      <4>2. QED BY <1>3, <3>1, <3>2, <4>1
    <3>3. CASE y = Len(s) + 1
      <4>1. s[x] \in Range(s)
        BY <1>1, <3>1 DEF Range
      <4>2. QED BY <1>3, <3>1, <3>3, <4>1 DEF s
    <3>4. QED BY <1>1, <1>3, <3>2, <3>3
  <2>2. QED BY <2>1 DEF Increasing
<1>6. QED BY <1>1, <1>2, <1>3, <1>4, <1>5 DEF DataSet, s

\* A list of data sets has got the value c of a node and second, and no other.
Joins(new, data, second, node, c) ==
  /\ new \in Seq(DataSet) /\ Grouped(new)
  /\ \A i \in DOMAIN data :
       /\ i \in DOMAIN new /\ new[i].node = data[i].node /\ new[i].time = data[i].time
       /\ Range(data[i].values) \subseteq Range(new[i].values)
  /\ \E i \in DOMAIN new : c \in Range(new[i].values)
  /\ \A i \in DOMAIN new : \A v \in Range(new[i].values) :
       \/ v = c /\ new[i].node = node /\ new[i].time = second
       \/ i \in DOMAIN data /\ v \in Range(data[i].values)

\* Add keeps a list grouped.
LEMMA AddJoins ==
  ASSUME NEW data \in Seq(DataSet), Grouped(data), NEW millis \in Nat, NEW node \in Node,
         NEW c \in Channel,
         \A i \in DOMAIN data : \A v \in Range(data[i].values) : v < c
  PROVE  Joins(Add(data, millis, node, c), data, ToSeconds(millis), node, c)
<1> DEFINE new == Add(data, millis, node, c)
           second == ToSeconds(millis)
           Is(i) == data[i].node = node /\ data[i].time = second
<1>1. Len(data) \in Nat /\ DOMAIN data = 1 .. Len(data) /\ \A i \in DOMAIN data : data[i] \in DataSet
  OBVIOUS
<1>2. second \in Nat
  BY DEF ToSeconds
<1>3. \A i \in DOMAIN data : Increasing(data[i].values)
  BY DEF Grouped
<1>4. CASE \E i \in DOMAIN data : Is(i)
  <2>1. PICK k \in DOMAIN data : Is(k)
    BY <1>4
  <2>2. \A i \in DOMAIN data : Is(i) <=> i = k
    BY <2>1 DEF Grouped
  <2>3. new = [i \in DOMAIN data |-> IF Is(i) THEN With(data[i], c) ELSE data[i]]
    BY <1>4 DEF Add, With
  <2> HIDE DEF new, Is, second
  <2>4. /\ DOMAIN new = DOMAIN data
        /\ new[k] = With(data[k], c)
        /\ \A i \in DOMAIN data : i # k => new[i] = data[i]
    BY <2>1, <2>2, <2>3
  <2>5. /\ new[k] \in DataSet /\ new[k].node = data[k].node /\ new[k].time = data[k].time
        /\ Range(new[k].values) = Range(data[k].values) \cup {c}
        /\ Increasing(new[k].values)
    <3>1. /\ data[k] \in DataSet /\ Increasing(data[k].values)
          /\ \A v \in Range(data[k].values) : v < c
      BY <1>1, <1>3
    <3>2. /\ With(data[k], c) \in DataSet
          /\ With(data[k], c).node = data[k].node /\ With(data[k], c).time = data[k].time
          /\ Range(With(data[k], c).values) = Range(data[k].values) \cup {c}
          /\ Increasing(With(data[k], c).values)
      BY ONLY <3>1, WithFacts, c \in Channel
    <3>3. QED BY ONLY <2>4, <3>2
  <2>6. ASSUME NEW i \in DOMAIN data
        PROVE  /\ new[i] \in DataSet /\ new[i].node = data[i].node /\ new[i].time = data[i].time
               /\ Range(new[i].values) = Range(data[i].values) \cup (IF i = k THEN {c} ELSE {})
               /\ Increasing(new[i].values)
    BY <1>1, <1>3, <2>4, <2>5
  <2>7. new \in Seq(DataSet)
    <3>1. new = [i \in 1 .. Len(data) |-> new[i]]
      BY <1>1, <2>3
    <3>2. \A i \in 1 .. Len(data) : new[i] \in DataSet
      BY <1>1, <2>6
    <3>3. QED BY <1>1, <3>1, <3>2
  <2>8. Grouped(new)
    BY <2>4, <2>6 DEF Grouped
  <2>9. data[k].node = node /\ data[k].time = second
    BY <2>1 DEF Is
  <2>10. c \in Range(new[k].values) /\ k \in DOMAIN new
    BY <2>4, <2>5
  <2>11. \A i \in DOMAIN new : \A v \in Range(new[i].values) :
           \/ v = c /\ new[i].node = node /\ new[i].time = second
           \/ i \in DOMAIN data /\ v \in Range(data[i].values)
    BY <2>4, <2>6, <2>9
  <2>12. QED BY <2>4, <2>6, <2>7, <2>8, <2>10, <2>11 DEF Joins, new, second
<1>5. CASE ~\E i \in DOMAIN data : Is(i)
  <2> DEFINE d == [time |-> second, node |-> node, values |-> <<c>>]
             n == Len(data) + 1
  <2>1. new = Append(data, d)
    BY <1>5 DEF Add
  <2>2. d \in DataSet /\ Range(d.values) = {c} /\ Increasing(d.values)
        /\ d.node = node /\ d.time = second
    <3>1. <<c>> \in Seq(Channel) /\ DOMAIN <<c>> = {1} /\ <<c>>[1] = c
      OBVIOUS
    <3>2. Range(<<c>>) = {c}
      BY <3>1 DEF Range
    <3>3. Increasing(<<c>>)
      BY <3>1 DEF Increasing
    <3> HIDE DEF second
    <3>4. QED BY <1>2, <3>1, <3>2, <3>3 DEF DataSet
  <2> HIDE DEF new, second, d
  <2>3. /\ new \in Seq(DataSet) /\ DOMAIN new = DOMAIN data \cup {n} /\ new[n] = d
        /\ n \notin DOMAIN data
        /\ \A i \in DOMAIN data : new[i] = data[i]
    BY <1>1, <2>1, <2>2
  <2> HIDE DEF n
  <2>4. Grouped(new)
    <3>1. \A i \in DOMAIN new : Increasing(new[i].values)
      BY <1>3, <2>2, <2>3
    <3>2. \A i \in DOMAIN data : data[i].node # node \/ data[i].time # second
      BY <1>5
    <3>3. \A i, j \in DOMAIN new :
            new[i].node = new[j].node /\ new[i].time = new[j].time => i = j
      BY <2>2, <2>3, <3>2 DEF Grouped
    <3>4. QED BY <3>1, <3>3 DEF Grouped
  <2>5. c \in Range(new[n].values) /\ n \in DOMAIN new
    BY <2>2, <2>3
  <2>6. \A i \in DOMAIN new : \A v \in Range(new[i].values) :
          \/ v = c /\ new[i].node = node /\ new[i].time = second
          \/ i \in DOMAIN data /\ v \in Range(data[i].values)
    BY <2>2, <2>3
  <2>7. QED BY <2>3, <2>4, <2>5, <2>6 DEF Joins, new, second
<1>6. QED BY <1>4, <1>5

\* Authentications that are the same can be exchanged for each other.
LEMMA SameFacts ==
  ASSUME NEW a, NEW b, NEW c
  PROVE  /\ Same(a, a)
         /\ Same(a, b) => Same(b, a)
         /\ Same(a, b) /\ Same(b, c) => Same(a, c)
BY DEF Same

\* SelectInSeq finds a container of the authentication if there is one.
LEMMA ContainerOf ==
  ASSUME NEW cs \in Seq(Container), NEW a, NEW k,
         k = SelectInSeq(cs, LAMBDA c : Same(c.authentication, a))
  PROVE  \/ k = 0 /\ \A i \in DOMAIN cs : ~Same(cs[i].authentication, a)
         \/ k \in DOMAIN cs /\ k # 0 /\ Same(cs[k].authentication, a)
<1> DEFINE s == {i \in 1 .. Len(cs) : Same(cs[i].authentication, a)}
<1>1. k = IF s # {} THEN Min(s) ELSE 0
  BY DEF SelectInSeq
<1>2. DOMAIN cs = 1 .. Len(cs) /\ Len(cs) \in Nat
  OBVIOUS
<1>3. CASE s = {}
  BY <1>1, <1>2, <1>3
<1>4. CASE s # {}
  <2>1. Min(s) \in s
    <3>1. s \in SUBSET (1 .. Len(cs))
      OBVIOUS
    <3> HIDE DEF s
    <3>2. QED BY <1>2, <1>4, <3>1, MinIsThere
  <2>2. QED BY <1>1, <1>2, <1>4, <2>1
<1>5. QED BY <1>3, <1>4

--------------------------------------------------------------------------------
(* The invariant is inductive *)

\* The channels of the list, with their times.
LEMMA ListFacts ==
  ASSUME TypeOK
  PROVE  /\ Len(list) = 1 \/ Len(list) > 1
         /\ Len(list) \in Nat /\ 1 <= Len(list) /\ Len(list) <= Channels /\ Channels \in Nat
         /\ DOMAIN list = 1 .. Len(list) /\ DOMAIN list \subseteq Channel
         /\ \A c \in DOMAIN list :
              /\ list[c].node \in Node /\ list[c].authentication \in Authentication
              /\ TimeOf(c) \in Nat /\ ToSeconds(TimeOf(c)) \in Nat
<1>1. list \in Seq(Logged) /\ Len(list) \in 1 .. Channels /\ Channels \in Nat
  BY ChannelsAssumption DEF TypeOK, Channel
<1>2. Len(list) \in Nat /\ 1 <= Len(list) /\ Len(list) <= Channels /\ DOMAIN list = 1 .. Len(list)
  BY <1>1
<1>3. ASSUME NEW c \in DOMAIN list
      PROVE  /\ list[c].node \in Node /\ list[c].authentication \in Authentication
             /\ TimeOf(c) \in Nat /\ ToSeconds(TimeOf(c)) \in Nat
  <2>1. list[c] \in Logged
    BY <1>1
  <2>2. list[c].node \in Node /\ list[c].authentication \in Authentication
        /\ list[c].time \in Millis \cup {None}
    BY <2>1 DEF Logged
  <2>3. TimeOf(c) \in Nat
    BY <2>2, TimeAssumption DEF TimeOf
  <2>4. \A t \in Nat : t \div 1000 \in Nat
    OBVIOUS
  <2>5. QED BY <2>2, <2>3, <2>4 DEF ToSeconds
<1>4. QED BY <1>1, <1>2, <1>3 DEF Channel

\* What is in the containers stays right while they do and no channel is taken back.
LEMMA ContainersKept ==
  ASSUME Separate, Contained, UNCHANGED <<list, containers>>, \A c : Passed(c) => Passed(c)'
  PROVE  Separate' /\ Contained'
<1>1. \A c, container, i : Belongs(c, container, i) => Belongs(c, container, i)'
  BY DEF Belongs, TimeOf
<1>2. Contained'
  BY <1>1 DEF Contained
<1>3. Separate'
  BY DEF Separate
<1>4. QED BY <1>2, <1>3

\* A container, and a request that posts it.
LEMMA RequestFacts ==
  ASSUME NEW container \in Container
  PROVE  /\ container.authentication \in Authentication /\ container.data \in Seq(DataSet)
         /\ \A present \in Present :
              LET request == [authentication |-> AuthenticationOf(container),
                              values |-> Content(container.data, present)]
              IN /\ Posts(request, container)
                 /\ request \in [authentication : Authentication \cup {Default},
                                 values : Seq(Value)]
<1>1. container.authentication \in Authentication /\ container.data \in Seq(DataSet)
  BY DEF Container
<1>2. AuthenticationOf(container) \in Authentication \cup {Default}
  BY <1>1 DEF AuthenticationOf
<1>3. ASSUME NEW present \in Present
      PROVE  Contents(Content(container.data, present), container.data)
  <2>1. present \in Nat
    BY TimeAssumption
  <2>2. QED BY <1>1, <2>1, ContentIsWhole
<1>4. \A present \in Present : Content(container.data, present) \in Seq(Value)
  BY <1>3 DEF Contents
<1>5. QED BY <1>1, <1>2, <1>3, <1>4 DEF Posts

\* It holds initially: nothing is collected or posted.
LEMMA InitInv == Init => IInv
<1> SUFFICES ASSUME Init PROVE IInv
  OBVIOUS
<1>1. PICK n \in Channel : list \in [1 .. n -> Logged]
  BY DEF Init
<1>2. n \in Nat /\ 1 <= n /\ n <= Channels
  BY ChannelsAssumption DEF Channel
<1>3. list \in Seq(Logged) /\ Len(list) = n
  BY <1>1, <1>2
<1>4. /\ stage = "collect" /\ at = 1 /\ result = "none"
      /\ containers = <<>> /\ requests = <<>>
      /\ Len(containers) = 0 /\ Len(requests) = 0 /\ DOMAIN containers = {} /\ DOMAIN requests = {}
  BY DEF Init
<1>5. TypeOK
  <2>1. at \in 1 .. Channels + 1
    BY <1>2, <1>4, ChannelsAssumption
  <2>2. containers \in Seq(Container)
        /\ requests \in Seq([authentication : Authentication \cup {Default}, values : Seq(Value)])
    BY <1>4
  <2>3. QED BY <1>3, <1>4, <2>1, <2>2 DEF TypeOK
<1>6. Control
  BY <1>2, <1>3, <1>4 DEF Control
<1>7. Separate /\ Contained
  BY <1>4 DEF Separate, Contained
<1>8. Gathered
  BY <1>4 DEF Gathered, Passed
<1>9. Requested /\ RequestedAlone
  BY <1>2, <1>3, <1>4 DEF Requested, RequestedAlone
<1>10. QED BY <1>5, <1>6, <1>7, <1>8, <1>9 DEF IInv

\* A list of one channel.
LEMMA SingleStepInv ==
  ASSUME IInv, SkipSingle \/ WriteSingle
  PROVE  IInv'
<1> DEFINE request == [authentication |-> Default,
                       values |-> <<Sent(1, list[1].node, ToSeconds(TimeOf(1)))>>]
<1>1. TypeOK /\ Control /\ Separate /\ Contained /\ RequestedAlone
  BY DEF IInv
<1>2. /\ stage = "collect" /\ Len(list) = 1 /\ UNCHANGED <<list, containers>>
      /\ stage' = "idle" /\ at' = 1 /\ result' \in {"ok", "failed"}
      /\ requests' # requests => list[1].valid /\ requests' = Append(requests, request)
      /\ result' = "ok" /\ list[1].valid => requests' = Append(requests, request)
  BY DEF SkipSingle, WriteSingle, Single, Request, Return
<1>3. requests = <<>> /\ containers = <<>>
  BY <1>1, <1>2 DEF Control
<1>4. request \in [authentication : Authentication \cup {Default}, values : Seq(Value)]
  <2>1. 1 \in DOMAIN list /\ 1 \in Channel
    BY <1>1, <1>2, ListFacts
  <2>2. Sent(1, list[1].node, ToSeconds(TimeOf(1))) \in Value
    BY <1>1, <2>1, ListFacts DEF Sent, Value
  <2>3. QED BY <2>2
<1> HIDE DEF request
<1>5. requests' = <<>> \/ (list[1].valid /\ requests' = <<request>>)
  <2>1. Append(<<>>, request) = <<request>>
    OBVIOUS
  <2>2. QED BY <1>2, <1>3, <2>1
<1>6. result' = "ok" /\ list[1].valid => requests' # <<>>
  <2>1. Append(<<>>, request) # <<>>
    OBVIOUS
  <2>2. QED BY <1>2, <1>3, <2>1
<1>7. TypeOK'
  <2>1. requests' \in Seq([authentication : Authentication \cup {Default}, values : Seq(Value)])
    <3>1. \A S : <<>> \in Seq(S) /\ \A x \in S : <<x>> \in Seq(S)
      OBVIOUS
    <3>2. QED BY ONLY <1>4, <1>5, <3>1
  <2>2. at' \in 1 .. Channels + 1
    BY <1>2, ChannelsAssumption
  <2>3. QED BY <1>1, <1>2, <2>1, <2>2 DEF TypeOK
<1>8. Control'
  BY <1>1, <1>2, <1>3 DEF Control
<1>9. Separate' /\ Contained'
  <2>1. \A c : Passed(c) => Passed(c)'
    BY <1>2 DEF Passed
  <2>2. QED BY <1>1, <1>2, <2>1, ContainersKept
<1>10. Gathered' /\ Requested'
  <2>1. Len(list) = 1 /\ list' = list
    BY <1>2
  <2>2. Len(list') = 1
    BY ONLY <2>1
  <2>3. QED BY ONLY <2>2 DEF Gathered, Requested
<1>11. RequestedAlone'
  <2>1. request' = request
    BY <1>2 DEF request, TimeOf
  <2>2. QED BY <1>2, <1>5, <1>6, <2>1 DEF RequestedAlone, request
<1>12. QED BY <1>7, <1>8, <1>9, <1>10, <1>11 DEF IInv

\* The loop over the list, but for the channels that are collected.
LEMMA CollectStepInv ==
  ASSUME IInv, SkipChannel \/ BreakChannel \/ Collected
  PROVE  IInv'
<1>1. TypeOK /\ Control /\ Separate /\ Contained /\ Gathered
  BY DEF IInv
<1>2. /\ stage = "collect" /\ Len(list) > 1 /\ UNCHANGED <<list, containers, requests>>
      /\ \/ at <= Len(list) /\ ~list[at].valid /\ at' = at + 1 /\ stage' = stage /\ result' = result
         \/ stage' = "idle" /\ at' = 1 /\ result' = "failed"
         \/ at > Len(list) /\ stage' = "post" /\ at' = 1 /\ result' = result
  BY DEF SkipChannel, BreakChannel, Collected, Collect, Return
<1>3. /\ Len(list) \in Nat /\ Len(list) <= Channels /\ Channels \in Nat
      /\ DOMAIN list = 1 .. Len(list)
      /\ at \in Nat /\ 1 <= at /\ at <= Len(list) + 1 /\ Len(containers) \in Nat
  BY <1>1, <1>2, ListFacts DEF TypeOK, Control
<1>4. requests = <<>> /\ Len(containers) < at /\ result = "none" /\ Len(requests) = 0
      /\ DOMAIN requests = {}
  BY <1>1, <1>2 DEF Control, TypeOK
<1>5. TypeOK'
  <2>1. at' \in 1 .. Channels + 1
    BY <1>2, <1>3
  <2>2. QED BY <1>1, <1>2, <2>1 DEF TypeOK
<1>6. Control'
  BY <1>1, <1>2, <1>3, <1>4 DEF Control
<1>7. Separate' /\ Contained'
  <2>1. \A c : Passed(c) => Passed(c)'
    BY <1>2, <1>3 DEF Passed
  <2>2. QED BY <1>1, <1>2, <2>1, ContainersKept
<1>8. Gathered'
  <2>1. SUFFICES ASSUME stage' # "idle", NEW c \in DOMAIN list, Passed(c)', list[c].valid
                 PROVE  \E k \in DOMAIN containers : Holds(containers[k], c)
    BY <1>2, <1>4 DEF Gathered, Holds
  <2>2. Passed(c)
    BY <1>2, <1>3, <2>1 DEF Passed
  <2>3. QED BY <1>1, <1>2, <2>1, <2>2 DEF Gathered
<1>9. Requested' /\ RequestedAlone'
  BY <1>2, <1>3, <1>4 DEF Requested, RequestedAlone
<1>10. QED BY <1>5, <1>6, <1>7, <1>8, <1>9 DEF IInv

\* The channel at hand joins container k, whose data sets were old, or starts it.
CollectsIn(k, old) ==
  /\ containers' \in Seq(Container) /\ Len(containers') <= Len(containers) + 1
  /\ DOMAIN containers' = DOMAIN containers \cup {k}
  /\ \A l \in DOMAIN containers :
       /\ containers'[l].authentication = containers[l].authentication
       /\ l # k => containers'[l] = containers[l]
  /\ Same(containers'[k].authentication, list[at].authentication)
  /\ Joins(containers'[k].data, old, ToSeconds(TimeOf(at)), list[at].node, at)
  /\ k \in DOMAIN containers => old = containers[k].data
  /\ k \notin DOMAIN containers =>
       /\ old = <<>>
       /\ \A l \in DOMAIN containers :
            ~Same(containers[l].authentication, list[at].authentication)

\* This is what AddChannel does to the containers.
LEMMA AddEffect ==
  ASSUME TypeOK, Contained, AddChannel
  PROVE  \E k, old : CollectsIn(k, old)
<1> DEFINE a == list[at].authentication
           n == Len(containers)
           k == SelectInSeq(containers, LAMBDA c : Same(c.authentication, a))
           set(old) == Add(old, TimeOf(at), list[at].node, at)
           second == ToSeconds(TimeOf(at))
<1>1. at \in DOMAIN list /\ at \in Channel /\ list[at].node \in Node /\ a \in Authentication
      /\ TimeOf(at) \in Nat
  <2>1. at \in 1 .. Len(list)
    BY DEF AddChannel, Collect, TypeOK
  <2>2. QED BY <2>1, ListFacts
<1>2. containers \in Seq(Container) /\ n \in Nat /\ DOMAIN containers = 1 .. n
  BY DEF TypeOK
<1>3. ASSUME NEW old \in Seq(DataSet), Grouped(old),
             \A i \in DOMAIN old : \A v \in Range(old[i].values) : v < at
      PROVE  Joins(set(old), old, second, list[at].node, at)
  BY <1>1, <1>3, AddJoins
<1>4. \/ k = 0 /\ \A i \in DOMAIN containers : ~Same(containers[i].authentication, a)
      \/ k \in DOMAIN containers /\ k # 0 /\ Same(containers[k].authentication, a)
  BY <1>2, ContainerOf
<1>5. containers' = IF k = 0 THEN Append(containers, [authentication |-> a, data |-> set(<<>>)])
                    ELSE [containers EXCEPT ![k].data = set(containers[k].data)]
  BY DEF AddChannel
<1> HIDE DEF k, set, a, n
<1>6. CASE k = 0
  <2> DEFINE container == [authentication |-> a, data |-> set(<<>>)]
  <2>1. Joins(set(<<>>), <<>>, second, list[at].node, at)
    <3>1. <<>> \in Seq(DataSet) /\ DOMAIN <<>> = {}
      OBVIOUS
    <3>2. Grouped(<<>>)
      BY <3>1 DEF Grouped
    <3>3. QED BY <1>3, <3>1, <3>2
  <2>2. container \in Container
    BY <1>1, <2>1 DEF Container, Joins, a
  <2>3. container.authentication = a /\ container.data = set(<<>>)
    OBVIOUS
  <2> HIDE DEF container
  <2>4. /\ containers' \in Seq(Container) /\ Len(containers') = n + 1
        /\ containers'[n + 1] = container /\ n + 1 \notin DOMAIN containers
        /\ DOMAIN containers' = DOMAIN containers \cup {n + 1}
        /\ \A l \in DOMAIN containers : containers'[l] = containers[l]
    <3>1. containers' = Append(containers, container)
      BY <1>5, <1>6 DEF container
    <3>2. QED BY <1>2, <2>2, <3>1 DEF n
  <2>5. Same(container.authentication, a)
    BY <2>3, SameFacts
  <2>6. CollectsIn(n + 1, <<>>)
    BY <1>2, <1>4, <1>6, <2>1, <2>3, <2>4, <2>5 DEF CollectsIn, a, n
  <2>7. QED BY <2>6
<1>7. CASE k # 0
  <2> DEFINE old == containers[k].data
             container == [containers[k] EXCEPT !.data = set(old)]
  <2>1. k \in DOMAIN containers /\ Same(containers[k].authentication, a)
        /\ containers[k] \in Container /\ old \in Seq(DataSet)
    <3>1. k \in DOMAIN containers /\ Same(containers[k].authentication, a)
      BY <1>4, <1>7
    <3>2. containers[k] \in Container
      BY <1>2, <3>1
    <3>3. QED BY <3>1, <3>2, RequestFacts
  <2>2. Joins(set(old), old, second, list[at].node, at)
    <3>1. Grouped(old)
      BY <2>1 DEF Contained
    <3>2. \A i \in DOMAIN old : \A v \in Range(old[i].values) : v < at
      BY <2>1 DEF Contained, Belongs, Passed, AddChannel, Collect
    <3> HIDE DEF old
    <3>3. QED BY <1>3, <2>1, <3>1, <3>2
  <2>3. /\ container \in Container /\ container.data = set(old)
        /\ container.authentication = containers[k].authentication
    BY <2>1, <2>2 DEF Container, Joins
  <2>4. containers' = [containers EXCEPT ![k] = container]
    BY <1>5, <1>7
  <2> HIDE DEF container, old
  <2>5. /\ containers' \in Seq(Container) /\ Len(containers') = n
        /\ DOMAIN containers' = DOMAIN containers /\ containers'[k] = container
        /\ \A l \in DOMAIN containers : l # k => containers'[l] = containers[l]
    BY <1>2, <2>1, <2>3, <2>4 DEF n
  <2>6. n <= Len(containers) + 1
    BY <1>2 DEF n
  <2>7. CollectsIn(k, old)
    BY <2>1, <2>2, <2>3, <2>5, <2>6 DEF CollectsIn, a, old
  <2>8. QED BY <2>7
<1>8. QED BY <1>6, <1>7

\* A channel that is collected.
LEMMA AddStepInv ==
  ASSUME IInv, AddChannel
  PROVE  IInv'
<1>1. TypeOK /\ Control /\ Separate /\ Contained /\ Gathered
  BY DEF IInv
<1>2. PICK k, old : CollectsIn(k, old)
  BY <1>1, AddEffect
<1>3. /\ stage = "collect" /\ Len(list) > 1 /\ at <= Len(list) /\ list[at].valid
      /\ at' = at + 1 /\ UNCHANGED <<list, stage, requests, result>>
  BY DEF AddChannel, Collect
<1>4. /\ Len(list) \in Nat /\ Len(list) <= Channels /\ Channels \in Nat
      /\ DOMAIN list = 1 .. Len(list) /\ at \in Nat /\ 1 <= at /\ at \in DOMAIN list
      /\ Len(containers) \in Nat
  BY <1>1, <1>3, ListFacts DEF TypeOK
<1>5. requests = <<>> /\ Len(containers) < at /\ result = "none" /\ DOMAIN requests = {}
      /\ Len(requests) = 0
  BY <1>1, <1>3 DEF Control
<1>6. containers' \in Seq(Container) /\ Len(containers') <= Len(containers) + 1
      /\ Len(containers') \in Nat
  BY <1>2 DEF CollectsIn
<1>7. TypeOK'
  <2>1. at' \in 1 .. Channels + 1
    BY <1>3, <1>4
  <2>2. QED BY <1>1, <1>3, <1>6, <2>1 DEF TypeOK
<1>8. Control'
  BY <1>1, <1>3, <1>4, <1>5, <1>6 DEF Control
<1>9. \A c : Passed(c)' <=> Passed(c) \/ c = at
  BY <1>3, <1>4 DEF Passed
<1>10. Separate'
  <2>1. \A l \in DOMAIN containers : l # k =>
          ~Same(containers'[l].authentication, containers'[k].authentication)
    <3>1. CASE k \in DOMAIN containers
      BY <1>1, <1>2, <3>1 DEF CollectsIn, Separate
    <3>2. CASE k \notin DOMAIN containers
      BY <1>2, <3>2, SameFacts DEF CollectsIn
    <3>3. QED BY <3>1, <3>2
  <2>2. \A l, m \in DOMAIN containers :
          Same(containers'[l].authentication, containers'[m].authentication) => l = m
    BY <1>1, <1>2 DEF CollectsIn, Separate
  <2>3. DOMAIN containers' = DOMAIN containers \cup {k}
    BY <1>2 DEF CollectsIn
  <2>4. QED BY <2>1, <2>2, <2>3, SameFacts DEF Separate
<1>11. Joins(containers'[k].data, old, ToSeconds(TimeOf(at)), list[at].node, at)
  BY <1>2 DEF CollectsIn
<1>12. Contained'
  <2>1. ASSUME NEW l \in DOMAIN containers', l # k
        PROVE  /\ Grouped(containers'[l].data)
               /\ \A i \in DOMAIN containers'[l].data : \A c \in Range(containers'[l].data[i].values) :
                    Belongs(c, containers[l], i)'
    <3>1. l \in DOMAIN containers /\ containers'[l] = containers[l]
      BY <1>2, <2>1 DEF CollectsIn
    <3>2. \A i \in DOMAIN containers[l].data : \A c \in Range(containers[l].data[i].values) :
            Belongs(c, containers[l], i)
      BY <1>1, <3>1 DEF Contained
    <3>3. \A c, container, i : Belongs(c, container, i) => Belongs(c, container, i)'
      BY <1>3, <1>9 DEF Belongs, TimeOf
    <3>4. QED BY <1>1, <3>1, <3>2, <3>3 DEF Contained
  <2>2. Grouped(containers'[k].data)
    BY <1>11 DEF Joins
  <2>3. ASSUME NEW i \in DOMAIN containers'[k].data, NEW c \in Range(containers'[k].data[i].values)
        PROVE  Belongs(c, containers[k], i)'
    <3>1. CASE c = at /\ containers'[k].data[i].node = list[at].node
               /\ containers'[k].data[i].time = ToSeconds(TimeOf(at))
      <4>1. Same(containers'[k].authentication, list[at].authentication)
        BY <1>2 DEF CollectsIn
      <4>2. Passed(c)' /\ TimeOf(c)' = TimeOf(at)
        BY <1>3, <1>9, <3>1 DEF TimeOf
      <4>3. QED BY <1>3, <3>1, <4>1, <4>2 DEF Belongs
    <3>2. CASE i \in DOMAIN old /\ c \in Range(old[i].values)
      <4>1. k \in DOMAIN containers /\ old = containers[k].data
        <5>1. DOMAIN <<>> = {}
          OBVIOUS
        <5>2. QED BY <1>2, <3>2, <5>1 DEF CollectsIn
      <4>2. Belongs(c, containers[k], i)
        BY <1>1, <3>2, <4>1 DEF Contained
      <4>3. containers'[k].data[i].node = old[i].node /\ containers'[k].data[i].time = old[i].time
        BY <1>11, <3>2 DEF Joins
      <4>4. containers'[k].authentication = containers[k].authentication
        BY <1>2, <4>1 DEF CollectsIn
      <4>5. Passed(c)' /\ TimeOf(c)' = TimeOf(c)
        BY <1>3, <1>9, <4>2 DEF Belongs, TimeOf
      <4>6. QED BY <1>3, <4>1, <4>2, <4>3, <4>4, <4>5 DEF Belongs
    <3>3. QED BY <1>11, <3>1, <3>2 DEF Joins
  <2>4. QED BY <2>1, <2>2, <2>3 DEF Contained
<1>13. Gathered'
  <2>1. SUFFICES ASSUME NEW c \in DOMAIN list, Passed(c)', list[c].valid
                 PROVE  \E l \in DOMAIN containers' : Holds(containers'[l], c)
    BY <1>3 DEF Gathered, Holds
  <2>2. k \in DOMAIN containers'
    BY <1>2 DEF CollectsIn
  <2>3. CASE c = at
    BY <1>11, <2>2, <2>3 DEF Joins, Holds
  <2>4. CASE Passed(c)
    <3>1. PICK l \in DOMAIN containers : Holds(containers[l], c)
      BY <1>1, <1>3, <2>1, <2>4 DEF Gathered
    <3>2. CASE l # k
      BY <1>2, <3>1, <3>2 DEF CollectsIn
    <3>3. CASE l = k
      <4>1. old = containers[k].data
        BY <1>2, <3>1, <3>3 DEF CollectsIn
      <4>2. Holds(containers'[k], c)
        BY <1>11, <3>1, <3>3, <4>1 DEF Joins, Holds
      <4>3. QED BY <2>2, <4>2
    <3>4. QED BY <3>2, <3>3
  <2>5. QED BY <1>9, <2>1, <2>3, <2>4
<1>14. Requested' /\ RequestedAlone'
  BY <1>3, <1>5, <1>6 DEF Requested, RequestedAlone
<1>15. QED BY <1>7, <1>8, <1>10, <1>12, <1>13, <1>14 DEF IInv

\* A request, and its place behind the others.
LEMMA AppendRequest ==
  ASSUME TypeOK, Requested, Len(list) > 1, result # "ok", NEW next, next = Len(requests) + 1,
         UNCHANGED <<list, containers>>,
         NEW request \in [authentication : Authentication \cup {Default}, values : Seq(Value)],
         Posts(request, containers[next]),
         requests' = Append(requests, request)
  PROVE  /\ requests' \in Seq([authentication : Authentication \cup {Default}, values : Seq(Value)])
         /\ Len(requests') = next
         /\ \A r \in DOMAIN requests' : Posts(requests'[r], containers[r])
<1> DEFINE R == [authentication : Authentication \cup {Default}, values : Seq(Value)]
<1>1. requests \in Seq(R) /\ request \in R
  BY DEF TypeOK
<1>2. \A r \in DOMAIN requests : Posts(requests[r], containers[r])
  BY DEF Requested
<1> HIDE DEF R
<1>3. /\ requests' \in Seq(R) /\ Len(requests') = next
      /\ DOMAIN requests' = DOMAIN requests \cup {next}
      /\ \A r \in DOMAIN requests : requests'[r] = requests[r]
      /\ requests'[next] = request
  BY <1>1
<1>4. QED BY <1>2, <1>3 DEF R

\* The loop over the containers.
LEMMA PostStepInv ==
  ASSUME IInv, PostContainer \/ FailContainer \/ EndWrite
  PROVE  IInv'
<1>1. TypeOK /\ Control /\ Separate /\ Contained /\ Gathered /\ Requested
  BY DEF IInv
<1>2. /\ stage = "post" /\ UNCHANGED <<list, containers>>
      /\ \/ /\ at <= Len(containers) /\ at' = at + 1 /\ stage' = "post" /\ result' = result
            /\ Post
         \/ /\ at <= Len(containers) /\ stage' = "idle" /\ at' = 1 /\ result' = "failed"
            /\ Post \/ requests' = requests
         \/ /\ at > Len(containers) /\ stage' = "idle" /\ at' = 1 /\ result' = "ok"
            /\ requests' = requests
  BY DEF PostContainer, FailContainer, EndWrite, Posting, Return
<1>3. /\ Len(list) > 1 /\ Len(list) \in Nat /\ Len(list) <= Channels /\ Channels \in Nat
      /\ at \in Nat /\ 1 <= at /\ at <= Len(containers) + 1
      /\ Len(containers) \in Nat /\ DOMAIN containers = 1 .. Len(containers)
      /\ Len(containers) <= Len(list)
      /\ Len(requests) = at - 1 /\ result = "none"
  BY <1>1, <1>2, ListFacts DEF TypeOK, Control
<1>4. ASSUME at <= Len(containers), Post
      PROVE  /\ requests' \in Seq([authentication : Authentication \cup {Default}, values : Seq(Value)])
             /\ Len(requests') = at
             /\ \A r \in DOMAIN requests' : Posts(requests'[r], containers[r])
  <2>1. at = Len(requests) + 1 /\ at \in DOMAIN containers /\ result # "ok"
    BY <1>3, <1>4
  <2>2. containers[at] \in Container
    BY <1>1, <2>1 DEF TypeOK
  <2>3. PICK present \in Present :
          Request(AuthenticationOf(containers[at]), Content(containers[at].data, present))
    BY <1>4 DEF Post
  <2> DEFINE request == [authentication |-> AuthenticationOf(containers[at]),
                         values |-> Content(containers[at].data, present)]
  <2>4. /\ request \in [authentication : Authentication \cup {Default}, values : Seq(Value)]
        /\ Posts(request, containers[at])
    BY <2>2, RequestFacts
  <2>5. requests' = Append(requests, request)
    BY <2>3 DEF Request
  <2> HIDE DEF request
  <2>6. QED BY <1>1, <1>2, <1>3, <2>1, <2>4, <2>5, AppendRequest
<1>5. /\ requests' \in Seq([authentication : Authentication \cup {Default}, values : Seq(Value)])
      /\ \A r \in DOMAIN requests' : Posts(requests'[r], containers[r])
      /\ Len(requests') <= Len(containers)
      /\ stage' = "post" => Len(requests') = at
      /\ result' = "ok" => Len(requests') = Len(containers)
  <2>1. CASE at <= Len(containers) /\ Post /\ result' # "ok"
    <3>1. /\ requests' \in Seq([authentication : Authentication \cup {Default}, values : Seq(Value)])
          /\ Len(requests') = at
          /\ \A r \in DOMAIN requests' : Posts(requests'[r], containers[r])
      BY <1>4, <2>1
    <3>2. QED BY ONLY <2>1, <3>1
  <2>2. CASE requests' = requests /\ stage' = "idle"
    <3>1. \A r \in DOMAIN requests : Posts(requests[r], containers[r])
      BY <1>1, <1>3 DEF Requested
    <3>2. requests \in Seq([authentication : Authentication \cup {Default}, values : Seq(Value)])
      BY <1>1 DEF TypeOK
    <3>3. Len(requests) <= Len(containers) /\ (result' = "ok" => Len(requests) = Len(containers))
      BY <1>2, <1>3
    <3>4. QED BY <2>2, <3>1, <3>2, <3>3
  <2>3. QED BY <1>2, <1>3, <2>1, <2>2
<1>6. TypeOK'
  <2>1. at' \in 1 .. Channels + 1 /\ stage' \in {"idle", "post"} /\ result' \in {"none", "ok", "failed"}
    BY <1>2, <1>3
  <2>2. QED BY <1>1, <1>2, <1>5, <2>1 DEF TypeOK
<1>7. Control'
  BY <1>1, <1>2, <1>3, <1>5 DEF Control
<1>8. Separate' /\ Contained'
  <2>1. \A c : Passed(c) => Passed(c)'
    BY <1>2 DEF Passed
  <2>2. QED BY <1>1, <1>2, <2>1, ContainersKept
<1>9. Gathered'
  <2>1. \A c \in DOMAIN list : list[c].valid => \E k \in DOMAIN containers : Holds(containers[k], c)
    BY <1>1, <1>2, <1>3 DEF Gathered, Passed
  <2>2. QED BY <1>2, <2>1 DEF Gathered, Holds
<1>10. Requested'
  BY <1>2, <1>5 DEF Requested
<1>11. RequestedAlone'
  <2>1. Len(list') # 1
    <3>1. list' = list
      BY <1>2
    <3>2. Len(list') = Len(list)
      BY ONLY <3>1
    <3>3. QED BY ONLY <1>3, <3>2
  <2>2. QED BY ONLY <2>1 DEF RequestedAlone
<1>12. QED BY <1>6, <1>7, <1>8, <1>9, <1>10, <1>11 DEF IInv

\* Every step keeps the invariant.
LEMMA NextInv == IInv /\ [Next]_vars => IInv'
<1> SUFFICES ASSUME IInv, [Next]_vars PROVE IInv'
  OBVIOUS
<1>1. CASE UNCHANGED vars
  <2>1. UNCHANGED <<list, stage, at, containers, requests, result>>
    BY <1>1 DEF vars
  <2>2. TypeOK' /\ Control'
    BY <2>1 DEF IInv, TypeOK, Control
  <2>3. Separate' /\ Contained'
    <3>1. \A c : Passed(c) => Passed(c)'
      BY <2>1 DEF Passed
    <3>2. QED BY <2>1, <3>1, ContainersKept DEF IInv
  <2>4. Gathered'
    BY <2>1 DEF IInv, Gathered, Passed, Holds
  <2>5. Requested' /\ RequestedAlone'
    BY <2>1 DEF IInv, Requested, RequestedAlone, TimeOf
  <2>6. QED BY <2>2, <2>3, <2>4, <2>5 DEF IInv
<1>2. CASE SkipSingle \/ WriteSingle
  BY <1>2, SingleStepInv
<1>3. CASE SkipChannel \/ BreakChannel \/ Collected
  BY <1>3, CollectStepInv
<1>4. CASE AddChannel
  BY <1>4, AddStepInv
<1>5. CASE PostContainer \/ FailContainer \/ EndWrite
  BY <1>5, PostStepInv
<1>6. QED BY <1>1, <1>2, <1>3, <1>4, <1>5 DEF Next

\* The inductive invariant holds in every reachable state.
THEOREM Invariant == Spec => []IInv
<1>1. QED BY InitInv, NextInv, PTL DEF Spec

\* Every variable keeps its type.
THEOREM TypesKept == Spec => []TypeOK
<1>1. IInv => TypeOK
  BY DEF IInv
<1>2. QED BY <1>1, Invariant, PTL

--------------------------------------------------------------------------------
(* What is carried *)

\* The values of a channel in the requests, as Carried lists them.
LEMMA CarriedFacts ==
  ASSUME NEW c
  PROVE  /\ \A x \in Carried(c) :
              /\ x[1] \in DOMAIN requests /\ x[2] \in DOMAIN requests[x[1]].values
              /\ requests[x[1]].values[x[2]].channel = c
              /\ x = <<x[1], x[2]>>
         /\ \A r \in DOMAIN requests : \A i \in DOMAIN requests[r].values :
              requests[r].values[i].channel = c => <<r, i>> \in Carried(c)
BY DEF Carried

\* Every value of a request belongs to its container.
LEMMA RequestBelongs ==
  ASSUME IInv, Len(list) > 1, NEW r \in DOMAIN requests
  PROVE  /\ r \in DOMAIN containers
         /\ requests[r].authentication = AuthenticationOf(containers[r])
         /\ Contents(requests[r].values, containers[r].data)
         /\ \A i \in DOMAIN containers[r].data : \A c \in Range(containers[r].data[i].values) :
              Belongs(c, containers[r], i)
         /\ Grouped(containers[r].data)
<1>1. TypeOK /\ Contained /\ Requested
  BY DEF IInv
<1>2. r \in DOMAIN containers /\ Posts(requests[r], containers[r])
  <2>1. Len(requests) <= Len(containers) /\ Posts(requests[r], containers[r])
    BY <1>1 DEF Requested
  <2>2. /\ requests \in Seq([authentication : Authentication \cup {Default}, values : Seq(Value)])
        /\ containers \in Seq(Container)
    BY <1>1 DEF TypeOK
  <2>3. QED BY <2>1, <2>2
<1>3. QED BY <1>1, <1>2 DEF Contained, Posts

\* Value i of a request is member j of its data set k.
Stems(r, i, k, j) ==
  /\ k \in DOMAIN containers[r].data /\ j \in DOMAIN containers[r].data[k].values
  /\ requests[r].values[i].channel = containers[r].data[k].values[j]
  /\ requests[r].values[i].node = containers[r].data[k].node
  /\ requests[r].values[i].time = containers[r].data[k].time
  /\ Belongs(requests[r].values[i].channel, containers[r], k)

\* Two values of a request come from its data sets, the earlier one not later in time,
\* and before the other when the data set is one.
LEMMA ValuesStem ==
  ASSUME IInv, Len(list) > 1, NEW r \in DOMAIN requests,
         NEW x \in DOMAIN requests[r].values, NEW y \in DOMAIN requests[r].values
  PROVE  \E k, j, l, m :
           /\ Stems(r, x, k, j) /\ Stems(r, y, l, m)
           /\ x < y => /\ containers[r].data[k].time <= containers[r].data[l].time
                       /\ k = l => j < m
<1> DEFINE values == requests[r].values
           data == containers[r].data
<1>1. PICK set, place : IsContent(values, data, set, place)
  BY RequestBelongs DEF Contents
<1>2. ASSUME NEW z \in DOMAIN values PROVE Stems(r, z, set[z], place[z])
  <2>1. /\ set[z] \in DOMAIN data /\ place[z] \in DOMAIN data[set[z]].values
        /\ values[z] = Sent(data[set[z]].values[place[z]], data[set[z]].node, data[set[z]].time)
    BY <1>1 DEF IsContent
  <2>2. Belongs(data[set[z]].values[place[z]], containers[r], set[z])
    <3>1. data[set[z]].values[place[z]] \in Range(data[set[z]].values)
      BY <2>1 DEF Range
    <3>2. QED BY <2>1, <3>1, RequestBelongs
  <2>3. QED BY <2>1, <2>2 DEF Stems, Sent
<1>3. x < y => /\ data[set[x]].time <= data[set[y]].time
               /\ set[x] = set[y] => place[x] < place[y]
  BY <1>1 DEF IsContent
<1>4. QED BY <1>2, <1>3

\* A value is where and when its channel was logged.
LEMMA ValueBelongs ==
  ASSUME IInv, Len(list) > 1, NEW r \in DOMAIN requests, NEW x \in DOMAIN requests[r].values,
         NEW c, c = requests[r].values[x].channel
  PROVE  /\ c \in DOMAIN list /\ list[c].valid
         /\ Same(containers[r].authentication, list[c].authentication)
         /\ requests[r].values[x].node = list[c].node
         /\ requests[r].values[x].time = ToSeconds(TimeOf(c))
<1>1. PICK k, j : Stems(r, x, k, j)
  BY ValuesStem
<1>2. QED BY <1>1 DEF Stems, Belongs, Passed

\* The values of one data set come in the order of their channels, and no others
\* have its node and second.
LEMMA ValuesOrdered ==
  ASSUME IInv, Len(list) > 1, NEW r \in DOMAIN requests,
         NEW x \in DOMAIN requests[r].values, NEW y \in DOMAIN requests[r].values, x < y
  PROVE  LET v == requests[r].values[x]
             w == requests[r].values[y]
         IN /\ v.time <= w.time
            /\ v.time = w.time /\ v.node = w.node => v.channel < w.channel
<1> DEFINE v == requests[r].values[x]
           w == requests[r].values[y]
           data == containers[r].data
<1>1. PICK k, j, l, m :
        /\ Stems(r, x, k, j) /\ Stems(r, y, l, m)
        /\ data[k].time <= data[l].time /\ (k = l => j < m)
  BY ValuesStem
<1>2. v.time <= w.time
  BY <1>1 DEF Stems
<1>3. ASSUME v.time = w.time, v.node = w.node PROVE v.channel < w.channel
  <2>1. Grouped(data)
    BY RequestBelongs
  <2>2. k = l
    BY <1>1, <1>3, <2>1 DEF Stems, Grouped
  <2>3. data[k].values[j] < data[k].values[m]
    BY <1>1, <2>1, <2>2 DEF Stems, Grouped, Increasing
  <2>4. QED BY <1>1, <2>2, <2>3 DEF Stems
<1>4. QED BY <1>2, <1>3

\* The values of a request have numbers.
LEMMA ValuesNumbered ==
  ASSUME TypeOK, NEW r \in DOMAIN requests
  PROVE  DOMAIN requests[r].values \subseteq Nat
<1> DEFINE R == [authentication : Authentication \cup {Default}, values : Seq(Value)]
<1>1. requests \in Seq(R)
  BY DEF TypeOK
<1>2. requests[r] \in R
  <2> HIDE DEF R
  <2>1. QED BY <1>1
<1>3. requests[r].values \in Seq(Value)
  BY <1>2
<1>4. QED BY <1>3

\* A channel has one value in the requests at most.
LEMMA CarriedOnce ==
  ASSUME IInv, Len(list) > 1, NEW c, NEW x \in Carried(c), NEW y \in Carried(c)
  PROVE  x = y
<1> DEFINE r == x[1]
           s == y[1]
<1>1. /\ r \in DOMAIN requests /\ x[2] \in DOMAIN requests[r].values
      /\ s \in DOMAIN requests /\ y[2] \in DOMAIN requests[s].values
      /\ requests[r].values[x[2]].channel = c /\ requests[s].values[y[2]].channel = c
      /\ x = <<x[1], x[2]>> /\ y = <<y[1], y[2]>>
  BY CarriedFacts
<1> HIDE DEF r, s
<1>2. /\ c \in DOMAIN list
      /\ Same(containers[r].authentication, list[c].authentication)
      /\ Same(containers[s].authentication, list[c].authentication)
      /\ requests[r].values[x[2]].node = list[c].node
      /\ requests[r].values[x[2]].time = ToSeconds(TimeOf(c))
      /\ requests[s].values[y[2]].node = list[c].node
      /\ requests[s].values[y[2]].time = ToSeconds(TimeOf(c))
  BY <1>1, ValueBelongs
<1>3. r = s
  <2>1. r \in DOMAIN containers /\ s \in DOMAIN containers
    BY <1>1, RequestBelongs
  <2>2. Same(containers[r].authentication, containers[s].authentication)
    BY <1>2, SameFacts
  <2>3. QED BY <2>1, <2>2 DEF IInv, Separate
<1>4. c \in Nat
  BY <1>2, ListFacts DEF IInv, Channel
<1>5. x[2] \in Nat /\ y[2] \in Nat
  BY <1>1, ValuesNumbered DEF IInv
<1>6. ~(x[2] < y[2]) /\ ~(y[2] < x[2])
  BY <1>1, <1>2, <1>3, <1>4, ValuesOrdered
<1>7. x[2] = y[2]
  BY <1>5, <1>6
<1>8. QED BY <1>1, <1>3, <1>7 DEF r, s

\* A channel in a container that was posted is carried.
LEMMA HeldIsCarried ==
  ASSUME IInv, Len(list) > 1, NEW r \in DOMAIN requests, NEW c, Holds(containers[r], c)
  PROVE  Carried(c) # {}
<1>1. PICK set, place : IsContent(requests[r].values, containers[r].data, set, place)
  BY RequestBelongs DEF Contents
<1>2. PICK k \in DOMAIN containers[r].data : c \in Range(containers[r].data[k].values)
  BY DEF Holds
<1>3. PICK j \in DOMAIN containers[r].data[k].values : containers[r].data[k].values[j] = c
  BY <1>2 DEF Range
<1>4. PICK x \in DOMAIN requests[r].values : set[x] = k /\ place[x] = j
  BY <1>1, <1>2, <1>3 DEF IsContent
<1>5. requests[r].values[x].channel = c
  <2>1. requests[r].values[x] =
          Sent(containers[r].data[k].values[j], containers[r].data[k].node, containers[r].data[k].time)
    BY <1>1, <1>4 DEF IsContent
  <2>2. QED BY <1>3, <2>1 DEF Sent
<1>6. <<r, x>> \in Carried(c)
  BY <1>5, CarriedFacts
<1>7. QED BY <1>6

\* A write of one channel has one value at most.
LEMMA CarriedAlone ==
  ASSUME IInv, Len(list) = 1, NEW c
  PROVE  /\ \A x \in Carried(c) :
              /\ c = 1 /\ list[1].valid /\ x = <<1, 1>>
              /\ requests[1].authentication = Default
              /\ requests[1].values[1].node = list[1].node
              /\ requests[1].values[1].time = ToSeconds(TimeOf(1))
         /\ requests # <<>> => <<1, 1>> \in Carried(1)
<1> DEFINE value == Sent(1, list[1].node, ToSeconds(TimeOf(1)))
           request == [authentication |-> Default, values |-> <<value>>]
<1>1. requests = <<>> \/ (list[1].valid /\ requests = <<request>>)
  BY DEF IInv, RequestedAlone
<1>2. value.channel = 1 /\ value.node = list[1].node /\ value.time = ToSeconds(TimeOf(1))
  BY DEF Sent
<1> HIDE DEF value
<1>3. CASE requests = <<>>
  <2>1. Carried(c) = {}
    BY <1>3 DEF Carried
  <2>2. QED BY <1>3, <2>1
<1>4. CASE list[1].valid /\ requests = <<request>>
  <2>1. /\ DOMAIN requests = {1} /\ requests[1].authentication = Default
        /\ requests[1].values = <<value>>
    BY <1>4
  <2>2. DOMAIN requests[1].values = {1} /\ requests[1].values[1] = value
    BY <2>1
  <2> HIDE DEF request
  <2>3. \A x \in Carried(c) : c = 1 /\ x = <<1, 1>>
    BY <1>2, <2>1, <2>2, CarriedFacts
  <2>4. <<1, 1>> \in Carried(1)
    BY <1>2, <2>1, <2>2, CarriedFacts
  <2>5. QED BY <1>2, <1>4, <2>1, <2>2, <2>3, <2>4
<1>5. QED BY <1>1, <1>3, <1>4

--------------------------------------------------------------------------------
(* The properties *)

\* A set of at most one member.
LEMMA OneAtMost ==
  ASSUME NEW S, \A x, y \in S : x = y
  PROVE  Cardinality(S) \in {0, 1}
<1>1. CASE S = {}
  BY <1>1, FS_EmptySet
<1>2. CASE S # {}
  <2>1. PICK x : S = {x}
    BY <1>2
  <2>2. QED BY <2>1, FS_Singleton
<1>3. QED BY <1>1, <1>2

\* After success every valid channel is in a container that was posted.
LEMMA OkIsComplete ==
  ASSUME IInv, Len(list) > 1, result = "ok", NEW c \in DOMAIN list, list[c].valid
  PROVE  Carried(c) # {}
<1>1. TypeOK /\ Control /\ Gathered /\ Requested
  BY DEF IInv
<1>2. stage = "idle"
  BY <1>1 DEF Control
<1>3. PICK r \in DOMAIN containers : Holds(containers[r], c)
  BY <1>1, <1>2 DEF Gathered, Passed
<1>4. r \in DOMAIN requests
  <2>1. /\ requests \in Seq([authentication : Authentication \cup {Default}, values : Seq(Value)])
        /\ containers \in Seq(Container) /\ Len(requests) = Len(containers)
    BY <1>1 DEF TypeOK, Requested
  <2>2. QED BY <2>1
<1>5. QED BY <1>3, <1>4, HeldIsCarried

\* A write that returns has brought every valid value to the server exactly once,
\* one that fails has brought none twice, and an invalid one never: whatever the
\* channels have in common.
THEOREM OkHasAll == Spec => []OkMeansAll
<1>1. ASSUME IInv, NEW c \in DOMAIN list
      PROVE  /\ Cardinality(Carried(c)) <= 1
             /\ ~list[c].valid => Carried(c) = {}
             /\ result = "ok" /\ list[c].valid => Carried(c) # {}
  <2>1. Len(list) \in Nat /\ 1 <= Len(list) /\ DOMAIN list = 1 .. Len(list)
    BY <1>1, ListFacts DEF IInv
  <2>2. CASE Len(list) > 1
    <3>1. \A x, y \in Carried(c) : x = y
      BY <1>1, <2>2, CarriedOnce
    <3>2. \A x \in Carried(c) : list[c].valid
      BY <1>1, <2>2, CarriedFacts, ValueBelongs
    <3>3. QED BY <1>1, <2>2, <3>1, <3>2, OneAtMost, OkIsComplete
  <2>3. CASE Len(list) = 1
    <3>1. c = 1
      BY <2>1, <2>3
    <3>2. \A x \in Carried(c) : x = <<1, 1>> /\ list[c].valid
      BY <1>1, <2>3, <3>1, CarriedAlone
    <3>3. result = "ok" /\ list[c].valid => Carried(c) # {}
      BY <1>1, <2>3, <3>1, CarriedAlone DEF IInv, RequestedAlone
    <3>4. \A x, y \in Carried(c) : x = y
      BY <3>2
    <3>5. QED BY <3>2, <3>3, <3>4, OneAtMost
  <2>4. QED BY <2>1, <2>2, <2>3
<1>2. IInv => OkMeansAll
  BY <1>1 DEF OkMeansAll
<1>3. QED BY <1>2, Invariant, PTL

\* A value arrives at its own node, with the second of its own time and under the
\* authentication of its channel, whatever else is in its request.
THEOREM AsLogged == Spec => []ArrivesAsLogged
<1>1. ASSUME IInv, NEW c \in DOMAIN list, NEW x \in Carried(c)
      PROVE  /\ requests[x[1]].values[x[2]].node = list[c].node
             /\ requests[x[1]].values[x[2]].time = ToSeconds(TimeOf(c))
             /\ requests[x[1]].authentication =
                  IF Len(list) = 1 \/ list[c].authentication.authorization = "DEFAULT"
                  THEN Default ELSE list[c].authentication
  <2>1. Len(list) \in Nat /\ 1 <= Len(list) /\ DOMAIN list = 1 .. Len(list)
        /\ list[c].authentication \in Authentication
    BY <1>1, ListFacts DEF IInv
  <2>2. CASE Len(list) > 1
    <3> DEFINE r == x[1]
               a == containers[r].authentication
               own == list[c].authentication
    <3>1. r \in DOMAIN requests /\ x[2] \in DOMAIN requests[r].values
          /\ requests[r].values[x[2]].channel = c
      BY CarriedFacts
    <3> HIDE DEF r
    <3>2. /\ Same(a, own)
          /\ requests[r].values[x[2]].node = list[c].node
          /\ requests[r].values[x[2]].time = ToSeconds(TimeOf(c))
      BY <1>1, <2>2, <3>1, ValueBelongs
    <3>3. requests[r].authentication = IF a.authorization = "DEFAULT" THEN Default ELSE a
      BY <1>1, <2>2, <3>1, RequestBelongs DEF AuthenticationOf
    <3>4. a \in Authentication
      <4>1. r \in DOMAIN containers /\ containers \in Seq(Container)
        BY <1>1, <2>2, <3>1, RequestBelongs DEF IInv, TypeOK
      <4>2. containers[r] \in Container
        BY <4>1
      <4>3. QED BY <4>2, RequestFacts
    <3>5. CASE own.authorization = "DEFAULT"
      BY <2>2, <3>2, <3>3, <3>5 DEF Same, r
    <3>6. CASE own.authorization # "DEFAULT"
      <4>1. a.authorization = own.authorization /\ a.key = own.key
        BY <3>2, <3>6 DEF Same
      <4>2. a = [authorization |-> a.authorization, key |-> a.key]
            /\ own = [authorization |-> own.authorization, key |-> own.key]
        BY <2>1, <3>4, AuthenticationAssumption
      <4>3. a = own
        BY <4>1, <4>2
      <4>4. requests[r].authentication = own
        BY <3>3, <3>6, <4>3
      <4>5. Len(list) # 1
        BY ONLY <2>1, <2>2
      <4>6. QED BY <3>2, <3>6, <4>4, <4>5 DEF r
    <3>7. QED BY <3>5, <3>6
  <2>3. CASE Len(list) = 1
    BY <1>1, <2>1, <2>3, CarriedAlone
  <2>4. QED BY <2>1, <2>2, <2>3
<1>2. IInv => ArrivesAsLogged
  BY <1>1 DEF ArrivesAsLogged
<1>3. QED BY <1>2, Invariant, PTL

\* The values of one authentication arrive together or not at all, also when the
\* write fails between two requests.
THEOREM GroupsWhole == Spec => []GroupArrivesWhole
<1>1. ASSUME IInv, NEW c \in DOMAIN list, NEW d \in DOMAIN list, Carried(c) # {}, list[d].valid,
             list[c].authentication = list[d].authentication
      PROVE  Carried(d) # {}
  <2>1. Len(list) \in Nat /\ 1 <= Len(list) /\ DOMAIN list = 1 .. Len(list)
    BY <1>1, ListFacts DEF IInv
  <2>2. CASE Len(list) > 1
    <3>1. PICK x \in Carried(c) : TRUE
      BY <1>1
    <3> DEFINE r == x[1]
    <3>2. r \in DOMAIN requests /\ x[2] \in DOMAIN requests[r].values
          /\ requests[r].values[x[2]].channel = c
      BY CarriedFacts
    <3> HIDE DEF r
    <3>3. r \in DOMAIN containers /\ Same(containers[r].authentication, list[d].authentication)
      BY <1>1, <2>2, <3>2, ValueBelongs, RequestBelongs
    <3>4. requests # <<>> /\ stage # "collect"
      <4>1. requests # <<>>
        BY <3>2
      <4>2. QED BY <1>1, <4>1 DEF IInv, Control
    <3>5. PICK k \in DOMAIN containers : Holds(containers[k], d)
      BY <1>1, <2>2, <3>4 DEF IInv, Gathered, Passed
    <3>6. Same(containers[k].authentication, list[d].authentication)
      BY <1>1, <3>5 DEF IInv, Contained, Holds, Belongs
    <3>7. k = r
      BY <1>1, <3>3, <3>5, <3>6, SameFacts DEF IInv, Separate
    <3>8. QED BY <1>1, <2>2, <3>2, <3>5, <3>7, HeldIsCarried
  <2>3. CASE Len(list) = 1
    <3>1. c = 1 /\ d = 1
      BY <2>1, <2>3
    <3>2. QED BY <1>1, <3>1
  <2>4. QED BY <2>1, <2>2, <2>3
<1>2. IInv => GroupArrivesWhole
  BY <1>1 DEF GroupArrivesWhole
<1>3. QED BY <1>2, Invariant, PTL

\* In each request the values are in the order of time, and within a second and node
\* in the order of the list.
THEOREM InOrder == Spec => []ArrivesInOrder
<1>1. ASSUME IInv, NEW r \in DOMAIN requests,
             NEW i \in DOMAIN requests[r].values, NEW j \in DOMAIN requests[r].values, i < j
      PROVE  /\ requests[r].values[i].time <= requests[r].values[j].time
             /\ requests[r].values[i].time = requests[r].values[j].time
                /\ requests[r].values[i].node = requests[r].values[j].node
                  => requests[r].values[i].channel < requests[r].values[j].channel
  <2>1. Len(list) = 1 \/ Len(list) > 1
    BY <1>1, ListFacts DEF IInv
  <2>2. CASE Len(list) > 1
    BY <1>1, <2>2, ValuesOrdered
  <2>3. CASE Len(list) = 1
    <3>1. requests # <<>>
      OBVIOUS
    <3>2. requests = <<[authentication |-> Default,
                        values |-> <<Sent(1, list[1].node, ToSeconds(TimeOf(1)))>>]>>
      BY <1>1, <2>3, <3>1 DEF IInv, RequestedAlone
    <3> DEFINE value == Sent(1, list[1].node, ToSeconds(TimeOf(1)))
    <3>3. requests[r].values = <<value>>
      BY <3>2
    <3> HIDE DEF value
    <3>4. i = 1 /\ j = 1
      BY <3>3
    <3>5. QED BY <1>1, <3>4
  <2>4. QED BY ONLY <2>1, <2>2, <2>3
<1>2. IInv => ArrivesInOrder
  BY <1>1 DEF ArrivesInOrder
<1>3. QED BY <1>2, Invariant, PTL
=================================================================================
