---------------------------- MODULE EngineLoggerProofs ----------------------------
(***************************************************************************)
(* Safety of EngineLogger for any channels, ids and number of activations. *)
(***************************************************************************)

EXTENDS EngineLogger, Induction

InCall == stage \in {"configure", "write"}

\* The engine a call looks up for each channel: configure() does so before the
\* default is filled in, and write() afterwards.
Asked == IF stage = "configure" THEN option ELSE engine

\* Collections of distinct engines, with channels that are routed to them.
IsGrouping(groups, asked) ==
  /\ groups \in Seq(Collection)
  /\ \A i, j \in DOMAIN groups : groups[i].engine = groups[j].engine => i = j
  /\ \A i \in DOMAIN groups : \A c \in groups[i].channels : groups[i].engine = Route(asked, c)

IsIn(c, groups) == \E i \in DOMAIN groups : c \in groups[i].channels

\* A channel that was rejected: it is an SqlChannel, without ids if SQL took it.
LeftOut(c) == Class(option, c) = "SQL" /\ (Route(Asked, c) = "SQL" => c \notin WithIds)

EnginesInv ==
  /\ engines \in Seq(EmoncmsType) /\ IsInjective(engines) /\ collections \in Seq(Collection)
  /\ stage = "activating" =>
       /\ at \in 1 .. 4
       /\ \A i \in DOMAIN engines : \E j \in 1 .. at - 1 : engines[i] = Types[j]
       /\ \A j \in 1 .. at - 1 :
            Types[j] \in enabled =>
              Types[j] \in Range(engines) \cup refused \/ (j = 1 /\ "build" \in refused)

\* An open HTTP connection is that of an engine in the map.
OpenInv == open["HTTP"] => stage # "off" /\ "HTTP" \in Range(engines)

\* A configured channel has an engine, the default if its option is missing.
FilledInv ==
  InCall \/ stage = "on" =>
    /\ engines # <<>>
    /\ \A c \in Id : engine[c] = IF option[c] = None THEN DEFAULT ELSE option[c]

\* The collections of a call, and the engine each channel was handed to.
CallInv ==
  InCall =>
    /\ IsGrouping(collections, Asked)
    /\ \A c \in Id : IsIn(c, collections) \/ LeftOut(c)
    /\ at \in 1 .. Len(collections) + 1
    /\ \A i \in 1 .. at - 1 : \A c \in collections[i].channels : handed[c] = collections[i].engine
    /\ \A c \in Id : handed[c] # None => \E i \in 1 .. at - 1 : c \in collections[i].channels

ConfiguredInv ==
  InCall \/ stage = "on" => \A c \in Id : configured[c] \in {None, Route(option, c)}

\* What is lost was given to an engine that failed, or with a foreign channel.
DeliveredInv ==
  stage = "write" =>
    \A i \in 1 .. at - 1 :
      \/ collections[i].engine \in refused
      \/ \E d \in collections[i].channels : Class(option, d) # collections[i].engine
      \/ collections[i].channels \subseteq delivered

IInv ==
  /\ TypeOK /\ EnginesInv /\ OpenInv /\ FilledInv /\ CallInv /\ ConfiguredInv /\ DeliveredInv

--------------------------------------------------------------------------------
(* Collections *)

\* The three engines.
LEMMA TypesFacts ==
  /\ Len(Types) = 3 /\ Types[1] = "HTTP" /\ Types[2] = "MQTT" /\ Types[3] = "SQL"
  /\ EmoncmsType = {"HTTP", "MQTT", "SQL"} /\ None \notin EmoncmsType
<1>1. /\ Len(Types) = 3 /\ DOMAIN Types = {1, 2, 3}
      /\ Types[1] = "HTTP" /\ Types[2] = "MQTT" /\ Types[3] = "SQL"
  BY DEF Types
<1>2. EmoncmsType = {"HTTP", "MQTT", "SQL"}
  BY <1>1 DEF EmoncmsType, Range
<1>3. QED BY <1>1, <1>2, ChannelAssumption

\* Whatever a channel asks for, it is routed to an active engine.
LEMMA RouteIsEngine ==
  ASSUME engines \in Seq(EmoncmsType), engines # <<>>, NEW asked, NEW c
  PROVE  Route(asked, c) \in Range(engines) /\ Route(asked, c) \in EmoncmsType
<1>1. 1 \in DOMAIN engines /\ \A i \in DOMAIN engines : engines[i] \in EmoncmsType
  OBVIOUS
<1>2. QED BY <1>1 DEF Route, Range

\* A channel joins the collection of its engine.
LEMMA GroupedStep ==
  ASSUME engines \in Seq(EmoncmsType), engines # <<>>, NEW asked, NEW c \in Id,
         NEW groups, IsGrouping(groups, asked)
  PROVE  /\ IsGrouping(Grouped(groups, c, Route(asked, c)), asked)
         /\ IsIn(c, Grouped(groups, c, Route(asked, c)))
         /\ \A d \in Id : IsIn(d, groups) => IsIn(d, Grouped(groups, c, Route(asked, c)))
<1>1. PICK type \in EmoncmsType : type = Route(asked, c)
  BY RouteIsEngine
<1>2. /\ groups \in Seq(Collection) /\ Len(groups) \in Nat /\ DOMAIN groups = 1 .. Len(groups)
      /\ \A i \in DOMAIN groups : groups[i] \in Collection
  BY DEF IsGrouping
<1>3. PICK result : result = Grouped(groups, c, type)
  OBVIOUS
<1>4. CASE \E i \in DOMAIN groups : groups[i].engine = type
  <2>1. PICK k \in DOMAIN groups : groups[k].engine = type
    BY <1>4
  <2>2. result = [i \in DOMAIN groups |->
                    IF groups[i].engine = type THEN [groups[i] EXCEPT !.channels = @ \cup {c}]
                                               ELSE groups[i]]
    BY <1>3, <1>4 DEF Grouped
  <2>3. ASSUME NEW i \in DOMAIN groups
        PROVE  /\ result[i] \in Collection /\ result[i].engine = groups[i].engine
               /\ result[i].channels =
                    IF i = k THEN groups[i].channels \cup {c} ELSE groups[i].channels
    <3>1. i = k <=> groups[i].engine = type
      BY <2>1 DEF IsGrouping
    <3>2. CASE i = k
      BY <1>2, <2>2, <3>1, <3>2 DEF Collection
    <3>3. CASE i # k
      BY <1>2, <2>2, <3>1, <3>3 DEF Collection
    <3>4. QED BY <3>2, <3>3
  <2>4. DOMAIN result = DOMAIN groups /\ result = [i \in 1 .. Len(groups) |-> result[i]]
    BY <1>2, <2>2
  <2>5. result \in Seq(Collection)
    <3>1. result \in [1 .. Len(groups) -> Collection]
      BY <1>2, <2>3, <2>4
    <3>2. QED BY <1>2, <3>1
  <2>6. IsGrouping(result, asked)
    <3>1. \A i, j \in DOMAIN result : result[i].engine = result[j].engine => i = j
      BY <2>3, <2>4 DEF IsGrouping
    <3>2. \A i \in DOMAIN result : \A d \in result[i].channels : result[i].engine = Route(asked, d)
      <4>1. ASSUME NEW i \in DOMAIN groups, NEW d \in result[i].channels
            PROVE  result[i].engine = Route(asked, d)
        <5>1. CASE d \in groups[i].channels
          BY <5>1, <2>3 DEF IsGrouping
        <5>2. CASE d \notin groups[i].channels
          BY <5>2, <2>1, <2>3, <1>1
        <5>3. QED BY <5>1, <5>2
      <4>2. QED BY <2>4, <4>1
    <3>3. QED BY <2>5, <3>1, <3>2 DEF IsGrouping
  <2>7. IsIn(c, result)
    BY <2>1, <2>3, <2>4 DEF IsIn
  <2>8. \A d \in Id : IsIn(d, groups) => IsIn(d, result)
    BY <2>3, <2>4 DEF IsIn
  <2>9. QED BY <1>1, <1>3, <2>6, <2>7, <2>8
<1>5. CASE ~ \E i \in DOMAIN groups : groups[i].engine = type
  <2>1. PICK new : new = [engine |-> type, channels |-> {c}]
    OBVIOUS
  <2>2. new \in Collection /\ new.engine = type /\ new.channels = {c}
    BY <2>1 DEF Collection
  <2>3. result = Append(groups, new)
    BY <1>3, <1>5, <2>1 DEF Grouped
  <2>4. /\ result \in Seq(Collection) /\ DOMAIN result = 1 .. Len(groups) + 1
        /\ result[Len(groups) + 1] = new
        /\ \A i \in DOMAIN groups : result[i] = groups[i]
    BY <1>2, <2>2, <2>3
  <2>5. \A i \in DOMAIN result : i \in DOMAIN groups \/ i = Len(groups) + 1
    BY <1>2, <2>4
  <2>6. Len(groups) + 1 \in DOMAIN result /\ DOMAIN groups \subseteq DOMAIN result
    BY <1>2, <2>4
  <2>7. IsGrouping(result, asked)
    <3>1. \A i, j \in DOMAIN result : result[i].engine = result[j].engine => i = j
      BY <1>5, <2>2, <2>4, <2>5 DEF IsGrouping
    <3>2. \A i \in DOMAIN result : \A d \in result[i].channels : result[i].engine = Route(asked, d)
      BY <1>1, <2>2, <2>4, <2>5 DEF IsGrouping
    <3>3. QED BY <2>4, <3>1, <3>2 DEF IsGrouping
  <2>8. IsIn(c, result)
    BY <2>2, <2>4, <2>6 DEF IsIn
  <2>9. \A d \in Id : IsIn(d, groups) => IsIn(d, result)
    BY <2>4, <2>6 DEF IsIn
  <2>10. QED BY <1>1, <1>3, <2>7, <2>8, <2>9
<1>6. QED BY <1>4, <1>5

\* The loop of EngineCollection: every channel that is not skipped joins the
\* collection of its engine.  By induction over the channels.
LEMMA GroupingFacts ==
  ASSUME engines \in Seq(EmoncmsType), engines # <<>>, NEW asked, NEW skipped
  PROVE  /\ IsGrouping(Grouping(skipped, asked), asked)
         /\ \A c \in Id \ skipped : IsIn(c, Grouping(skipped, asked))
<1> DEFINE n == Len(Channel)
           V == {groups \in Seq(Collection) : IsGrouping(groups, asked)}
           op(groups, c) == IF c \in skipped THEN groups ELSE Grouped(groups, c, Route(asked, c))
           step == [i \in 1 .. n |-> [groups \in V |-> op(groups, Channel[i])]]
           IsIter(f) == f = [s \in SUBSET (DOMAIN Channel) |->
                               IF s = {} THEN <<>> ELSE op(f[s \ {Max(s)}], Channel[Max(s)])]
           iter == CHOOSE f : IsIter(f)
           S == {m \in Nat : m <= n =>
                   /\ iter[1 .. m] \in V
                   /\ \A k \in 1 .. m : Channel[k] \notin skipped => IsIn(Channel[k], iter[1 .. m])}
<1>1. /\ n \in Nat /\ DOMAIN Channel = 1 .. n /\ \A i \in 1 .. n : Channel[i] \in Id
  BY ChannelAssumption
<1>2. Grouping(skipped, asked) = iter[1 .. n]
  BY <1>1 DEF Grouping, FoldLeft, MapThenFoldSet
<1>3. ASSUME NEW groups \in V, NEW c \in Id
      PROVE  /\ op(groups, c) \in V
             /\ c \notin skipped => IsIn(c, op(groups, c))
             /\ \A d \in Id : IsIn(d, groups) => IsIn(d, op(groups, c))
  <2>1. CASE c \in skipped
    BY <2>1
  <2>2. CASE c \notin skipped
    <3>1. IsGrouping(groups, asked)
      OBVIOUS
    <3>2. /\ IsGrouping(Grouped(groups, c, Route(asked, c)), asked)
          /\ IsIn(c, Grouped(groups, c, Route(asked, c)))
          /\ \A d \in Id : IsIn(d, groups) => IsIn(d, Grouped(groups, c, Route(asked, c)))
      BY <3>1, GroupedStep
    <3>3. Grouped(groups, c, Route(asked, c)) \in Seq(Collection)
      BY <3>2 DEF IsGrouping
    <3>4. QED BY <2>2, <3>2, <3>3
  <2>3. QED BY <2>1, <2>2
<1>4. <<>> \in V
  BY DEF IsGrouping
<1>5. \E f : IsIter(f)
  <2> HIDE DEF V, op
  <2>1. \A i \in 1 .. n, groups \in V : step[i][groups] \in V
    BY <1>1, <1>3
  <2>2. CanFold(V, <<>>, step, n)
    <3> HIDE DEF step
    <3>1. QED BY <1>1, <1>4, <2>1, FoldExists
  <2>3. PICK f \in [SUBSET (1 .. n) -> V] : Folds(f, <<>>, step, n)
    BY <2>2 DEF CanFold
  <2>4. ASSUME NEW s \in SUBSET (1 .. n)
        PROVE  f[s] = IF s = {} THEN <<>> ELSE op(f[s \ {Max(s)}], Channel[Max(s)])
    <3>1. s # {} => Max(s) \in 1 .. n /\ s \ {Max(s)} \in SUBSET (1 .. n)
      BY <1>1, MaxIsThere
    <3>2. s # {} => step[Max(s)][f[s \ {Max(s)}]] = op(f[s \ {Max(s)}], Channel[Max(s)])
      BY <2>3, <3>1
    <3>3. f[s] = IF s = {} THEN <<>> ELSE step[Max(s)][f[s \ {Max(s)}]]
      BY <2>3 DEF Folds
    <3>4. QED BY <3>2, <3>3
  <2>5. f = [s \in SUBSET (1 .. n) |->
               IF s = {} THEN <<>> ELSE op(f[s \ {Max(s)}], Channel[Max(s)])]
    BY <2>3, <2>4
  <2>6. IsIter(f)
    BY <1>1, <2>5
  <2>7. QED BY <2>6
<1>6. IsIter(iter)
  <2> HIDE DEF IsIter
  <2>1. QED BY <1>5
<1>7. /\ iter[{}] = <<>>
      /\ \A i \in 1 .. n : iter[1 .. i] = op(iter[1 .. i - 1], Channel[i])
  <2> HIDE DEF op, iter
  <2>1. ASSUME NEW s \in SUBSET (1 .. n)
        PROVE  iter[s] = IF s = {} THEN <<>> ELSE op(iter[s \ {Max(s)}], Channel[Max(s)])
    BY <1>1, <1>6
  <2> HIDE DEF IsIter
  <2>2. ASSUME NEW i \in 1 .. n PROVE iter[1 .. i] = op(iter[1 .. i - 1], Channel[i])
    <3>1. 1 .. i \in SUBSET (1 .. n) /\ 1 .. i # {} /\ Max(1 .. i) = i /\ (1 .. i) \ {i} = 1 .. i - 1
      BY <1>1, PrefixOfIndices
    <3>2. iter[1 .. i] = op(iter[(1 .. i) \ {Max(1 .. i)}], Channel[Max(1 .. i)])
      BY <2>1, <3>1
    <3>3. QED BY <3>1, <3>2
  <2>3. iter[{}] = <<>>
    BY <2>1
  <2>4. QED BY <2>2, <2>3
<1>8. n \in S
  <2> HIDE DEF iter, op, V
  <2>1. 0 \in S
    <3>1. 1 .. 0 = {}
      OBVIOUS
    <3>2. QED BY <1>4, <1>7, <3>1
  <2>2. ASSUME NEW m \in Nat, m \in S PROVE m + 1 \in S
    <3>1. SUFFICES ASSUME m + 1 <= n
                   PROVE  /\ iter[1 .. m + 1] \in V
                          /\ \A k \in 1 .. m + 1 :
                               Channel[k] \notin skipped => IsIn(Channel[k], iter[1 .. m + 1])
      OBVIOUS
    <3>2. /\ m + 1 \in 1 .. n /\ m + 1 - 1 = m /\ Channel[m + 1] \in Id
          /\ \A k \in 1 .. m : Channel[k] \in Id
      BY <1>1, <3>1
    <3>3. /\ iter[1 .. m] \in V
          /\ \A k \in 1 .. m : Channel[k] \notin skipped => IsIn(Channel[k], iter[1 .. m])
      BY <2>2, <3>1, <1>1
    <3>4. iter[1 .. m + 1] = op(iter[1 .. m], Channel[m + 1])
      BY <1>7, <3>2
    <3>5. \A k \in 1 .. m + 1 : k \in 1 .. m \/ k = m + 1
      OBVIOUS
    <3>6. QED BY <1>3, <3>2, <3>3, <3>4, <3>5
  <2> HIDE DEF S
  <2>3. QED BY <1>1, <2>1, <2>2, SetInduction
<1>9. iter[1 .. n] \in V /\ \A k \in 1 .. n : Channel[k] \notin skipped => IsIn(Channel[k], iter[1 .. n])
  <2> HIDE DEF iter, V
  <2>1. QED BY <1>1, <1>8
<1>10. \A c \in Id : \E k \in 1 .. n : c = Channel[k]
  BY <1>1 DEF Id, Range
<1>11. QED
  <2> HIDE DEF iter
  <2>1. QED BY <1>2, <1>9, <1>10

\* There are at most as many collections as engines.
LEMMA GroupsBounded ==
  ASSUME NEW groups, NEW asked, IsGrouping(groups, asked)
  PROVE  Len(groups) \in 0 .. 3
<1>1. groups \in Seq(Collection) /\ Len(groups) \in Nat /\ DOMAIN groups = 1 .. Len(groups)
  BY DEF IsGrouping
<1>2. \A i \in DOMAIN groups : groups[i].engine \in {"HTTP", "MQTT", "SQL"}
  <2>1. \A i \in DOMAIN groups : groups[i] \in Collection
    BY <1>1
  <2>2. QED BY <2>1, TypesFacts DEF Collection
<1>3. ASSUME Len(groups) > 3 PROVE FALSE
  <2>1. 1 \in DOMAIN groups /\ 2 \in DOMAIN groups /\ 3 \in DOMAIN groups /\ 4 \in DOMAIN groups
    BY <1>1, <1>3
  <2>2. /\ groups[1].engine # groups[2].engine /\ groups[1].engine # groups[3].engine
        /\ groups[1].engine # groups[4].engine /\ groups[2].engine # groups[3].engine
        /\ groups[2].engine # groups[4].engine /\ groups[3].engine # groups[4].engine
    BY <2>1 DEF IsGrouping
  <2>3. QED BY <1>2, <2>1, <2>2
<1>4. QED BY <1>1, <1>3

--------------------------------------------------------------------------------
(* The steps of activate() and deactivate() *)

\* activate() starts.
LEMMA ActivateStep ==
  ASSUME IInv, NEW sections \in SUBSET EmoncmsType, NEW credentials \in BOOLEAN,
         Activate(sections, credentials)
  PROVE  IInv'
<1>1. /\ stage = "off" /\ stage' = "activating" /\ at' = 1 /\ engines' = <<>>
      /\ collections' = collections /\ refused' = {}
      /\ open' = [open EXCEPT !["SQL"] = FALSE]
  BY DEF Activate, channelVars
<1>2. TypeOK'
  <2>1. activations' \in 0 .. MaxActivations /\ configured' \in [Id -> EmoncmsType \cup {None}]
    BY BoundAssumption DEF Activate, IInv, TypeOK, Nowhere
  <2>2. Range(engines') \subseteq EmoncmsType /\ IsInjective(engines')
    BY <1>1 DEF Range, IsInjective
  <2>3. open' \in [EmoncmsType -> BOOLEAN] /\ at' \in 1 .. Len(Types) + 1
    BY <1>1, TypesFacts DEF IInv, TypeOK
  <2>4. QED BY <1>1, <2>1, <2>2, <2>3 DEF Activate, IInv, TypeOK, channelVars
<1>3. EnginesInv'
  BY <1>1 DEF EnginesInv, IInv, IsInjective
<1>4. OpenInv'
  BY <1>1, TypesFacts DEF OpenInv, IInv, TypeOK
<1>5. FilledInv' /\ CallInv' /\ ConfiguredInv' /\ DeliveredInv'
  BY <1>1 DEF FilledInv, CallInv, ConfiguredInv, DeliveredInv, InCall
<1>6. QED BY <1>2, <1>3, <1>4, <1>5 DEF IInv

\* It comes past an engine, which it puts into the map or not.
LEMMA ActivatingStep ==
  ASSUME IInv, NEW type \in EmoncmsType, Activating(type),
         built' \in {"none", "plain", "keyed"}, open' \in [EmoncmsType -> BOOLEAN],
         engines' = engines \/ engines' = Append(engines, type),
         refused \subseteq refused', refused' \subseteq EmoncmsType \cup {"build"},
         open'["HTTP"] => open["HTTP"] \/ "HTTP" \in Range(engines'),
         type \in enabled =>
           type \in Range(engines') \cup refused' \/ (type = "HTTP" /\ "build" \in refused')
  PROVE  IInv'
<1>1. /\ stage = "activating" /\ stage' = stage /\ at \in 1 .. 3 /\ at' = at + 1
      /\ type = Types[at] /\ enabled' = enabled /\ collections' = collections
  BY TypesFacts DEF Activating, IInv, TypeOK, configVars, channelVars
<1>2. /\ engines \in Seq(EmoncmsType) /\ IsInjective(engines)
      /\ DOMAIN engines = 1 .. Len(engines) /\ Len(engines) \in Nat
  BY DEF IInv, EnginesInv
<1>3. \A i \in DOMAIN engines : \E j \in 1 .. at - 1 : engines[i] = Types[j]
  BY <1>1 DEF IInv, EnginesInv
<1>4. type \notin Range(engines)
  <2>1. \A i, j \in 1 .. 3 : Types[i] = Types[j] => i = j
    BY TypesFacts
  <2>2. QED BY <1>1, <1>3, <2>1 DEF Range
<1>5. /\ engines' \in Seq(EmoncmsType) /\ IsInjective(engines') /\ Range(engines) \subseteq Range(engines')
      /\ \A i \in DOMAIN engines' : \E j \in 1 .. at : engines'[i] = Types[j]
  <2>1. CASE engines' = engines
    BY <1>1, <1>2, <1>3, <2>1
  <2>2. CASE engines' = Append(engines, type)
    <3>1. /\ engines' \in Seq(EmoncmsType) /\ DOMAIN engines' = 1 .. Len(engines) + 1
          /\ engines'[Len(engines) + 1] = type /\ \A i \in DOMAIN engines : engines'[i] = engines[i]
      BY <1>2, <2>2
    <3>2. \A i \in DOMAIN engines' : i \in DOMAIN engines \/ i = Len(engines) + 1
      BY <1>2, <3>1
    <3>3. \A i \in DOMAIN engines : engines[i] # type
      BY <1>4 DEF Range
    <3>4. IsInjective(engines')
      BY <1>2, <3>1, <3>2, <3>3 DEF IsInjective
    <3>5. Range(engines) \subseteq Range(engines')
      BY <1>2, <3>1 DEF Range
    <3>6. \A i \in DOMAIN engines' : \E j \in 1 .. at : engines'[i] = Types[j]
      BY <1>1, <1>3, <3>1, <3>2
    <3>7. QED BY <3>1, <3>4, <3>5, <3>6
  <2>3. QED BY <2>1, <2>2
<1>6. ASSUME NEW j \in 1 .. at, Types[j] \in enabled
      PROVE  Types[j] \in Range(engines') \cup refused' \/ (j = 1 /\ "build" \in refused')
  <2>1. CASE j = at
    <3>1. \A i \in 1 .. 3 : Types[i] = "HTTP" => i = 1
      BY TypesFacts
    <3>2. QED BY <1>1, <1>6, <2>1, <3>1
  <2>2. CASE j # at
    BY <1>1, <1>5, <1>6, <2>2 DEF IInv, EnginesInv
  <2>3. QED BY <2>1, <2>2
<1>7. EnginesInv'
  <2>1. at' - 1 = at /\ at' \in 1 .. 4
    BY <1>1
  <2>2. collections' \in Seq(Collection)
    BY <1>1 DEF IInv, EnginesInv
  <2>3. QED BY <1>1, <1>5, <1>6, <2>1, <2>2 DEF EnginesInv
<1>8. TypeOK'
  <2>1. at' \in 1 .. Len(Types) + 1
    BY <1>1, TypesFacts
  <2>2. Range(engines') \subseteq EmoncmsType
    BY <1>5 DEF Range
  <2>3. QED BY <1>1, <1>5, <2>1, <2>2 DEF Activating, IInv, TypeOK, configVars, channelVars
<1>9. OpenInv'
  BY <1>1, <1>5 DEF OpenInv, IInv
<1>10. FilledInv' /\ CallInv' /\ ConfiguredInv' /\ DeliveredInv'
  BY <1>1 DEF FilledInv, CallInv, ConfiguredInv, DeliveredInv, InCall
<1>11. QED BY <1>7, <1>8, <1>9, <1>10 DEF IInv

\* The engines that are put into the map are in it.
LEMMA PutEffect ==
  ASSUME IInv, NEW type \in EmoncmsType, Put(type)
  PROVE  /\ engines' = Append(engines, type) /\ type \in Range(engines')
         /\ open' \in [EmoncmsType -> BOOLEAN]
         /\ \A other \in EmoncmsType \ {type} : open'[other] = open[other]
<1>1. engines \in Seq(EmoncmsType) /\ open \in [EmoncmsType -> BOOLEAN]
  BY DEF IInv, TypeOK, EnginesInv
<1>2. engines' = Append(engines, type) /\ open' = [open EXCEPT ![type] = TRUE]
  BY DEF Put, Opened
<1>3. Len(engines) + 1 \in DOMAIN engines' /\ engines'[Len(engines) + 1] = type
  BY <1>1, <1>2
<1>4. QED BY <1>1, <1>2, <1>3 DEF Range

\* All the ways past an engine.
LEMMA ActivatingSteps ==
  ASSUME IInv, SkipEngine \/ ActivateHttp \/ FailBuild \/ ActivateOther \/ FailEngine
  PROVE  IInv'
<1>1. /\ built \in {"none", "plain", "keyed"} /\ open \in [EmoncmsType -> BOOLEAN]
      /\ refused \subseteq EmoncmsType \cup {"build"} /\ enabled \subseteq EmoncmsType
      /\ "HTTP" \in EmoncmsType
  BY TypesFacts DEF IInv, TypeOK
<1>2. CASE SkipEngine
  <2>1. PICK type \in EmoncmsType \ enabled : Activating(type)
    BY <1>2 DEF SkipEngine
  <2>2. engines' = engines /\ built' = built /\ open' = open /\ refused' = refused
    BY <1>2 DEF SkipEngine
  <2>3. QED BY <1>1, <2>1, <2>2, ActivatingStep
<1>3. CASE ActivateHttp
  <2>1. /\ Activating("HTTP") /\ Put("HTTP") /\ refused' = refused
        /\ built' \in {"none", "plain", "keyed"}
    BY <1>3 DEF ActivateHttp, Builds
  <2>2. QED BY <1>1, <2>1, PutEffect, ActivatingStep
<1>4. CASE FailBuild
  <2>1. /\ Activating("HTTP") /\ refused' = refused \cup {"build"}
        /\ engines' = engines /\ built' = built /\ open' = open
    BY <1>4 DEF FailBuild
  <2>2. QED BY <1>1, <2>1, ActivatingStep
<1>5. CASE ActivateOther
  <2>1. PICK type \in enabled \ {"HTTP"} : Activating(type) /\ Put(type)
    BY <1>5 DEF ActivateOther
  <2>2. type \in EmoncmsType /\ built' = built /\ refused' = refused
    BY <1>1, <1>5, <2>1 DEF ActivateOther
  <2>3. /\ engines' = Append(engines, type) /\ type \in Range(engines')
        /\ open' \in [EmoncmsType -> BOOLEAN] /\ open'["HTTP"] = open["HTTP"]
    BY <1>1, <2>1, <2>2, PutEffect
  <2>4. QED BY <1>1, <2>1, <2>2, <2>3, ActivatingStep
<1>6. CASE FailEngine
  <2>1. PICK type \in enabled :
          /\ Activating(type)
          /\ open' = IF type = "MQTT" THEN [open EXCEPT ![type] = FALSE] ELSE open
          /\ refused' = refused \cup {type}
          /\ UNCHANGED built \/ (type = "HTTP" /\ Builds)
    BY <1>6 DEF FailEngine
  <2>2. /\ type \in EmoncmsType /\ engines' = engines
        /\ built' = built \/ built' \in {"none", "plain", "keyed"}
    BY <1>1, <1>6, <2>1 DEF FailEngine, Builds
  <2>3. open' \in [EmoncmsType -> BOOLEAN] /\ open'["HTTP"] = open["HTTP"]
    BY <1>1, <2>1
  <2>4. QED BY <1>1, <2>1, <2>2, <2>3, ActivatingStep
<1>7. QED BY <1>2, <1>3, <1>4, <1>5, <1>6

\* All engines were tried.
LEMMA ActivatedStep ==
  ASSUME IInv, Activated
  PROVE  IInv'
<1>1. /\ stage = "activating" /\ stage' = "active" /\ at' = 1 /\ engines' = engines
      /\ collections' = collections /\ open' = open
  BY DEF Activated, engineVars, channelVars
<1>2. TypeOK'
  BY <1>1, TypesFacts DEF Activated, IInv, TypeOK, configVars, engineVars, channelVars, historyVars
<1>3. EnginesInv' /\ OpenInv'
  BY <1>1 DEF EnginesInv, OpenInv, IInv
<1>4. FilledInv' /\ CallInv' /\ ConfiguredInv' /\ DeliveredInv'
  BY <1>1 DEF FilledInv, CallInv, ConfiguredInv, DeliveredInv, InCall
<1>5. QED BY <1>2, <1>3, <1>4 DEF IInv

\* The component is deactivated.
LEMMA DeactivateStep ==
  ASSUME IInv, Deactivate
  PROVE  IInv'
<1>1. /\ stage' = "off" /\ engines' = engines /\ collections' = collections
      /\ open' = [t \in EmoncmsType |-> open[t] /\ ~(t \in Range(engines) \ {"SQL"} /\ IsActive(t))]
  BY DEF Deactivate, channelVars
<1>2. TypeOK'
  BY <1>1 DEF Deactivate, IInv, TypeOK, configVars, channelVars, historyVars
<1>3. ~open'["HTTP"]
  <2>1. open["HTTP"] => "HTTP" \in Range(engines)
    BY DEF OpenInv, IInv
  <2>2. IsActive("HTTP") <=> open["HTTP"]
    BY DEF IsActive, IsClosed
  <2>3. QED BY <1>1, <2>1, <2>2, TypesFacts
<1>4. EnginesInv' /\ OpenInv'
  BY <1>1, <1>3 DEF EnginesInv, OpenInv, IInv
<1>5. FilledInv' /\ CallInv' /\ ConfiguredInv' /\ DeliveredInv'
  BY <1>1 DEF FilledInv, CallInv, ConfiguredInv, DeliveredInv, InCall
<1>6. QED BY <1>2, <1>4, <1>5 DEF IInv

\* The broker drops the session.
LEMMA MqttLostStep ==
  ASSUME IInv, MqttLost
  PROVE  IInv'
<1>1. /\ open' = [open EXCEPT !["MQTT"] = FALSE] /\ stage' = stage /\ at' = at
      /\ engines' = engines /\ collections' = collections /\ handed' = handed
      /\ option' = option /\ engine' = engine /\ DEFAULT' = DEFAULT /\ enabled' = enabled
      /\ refused' = refused /\ configured' = configured /\ delivered' = delivered
  BY DEF MqttLost, configVars, channelVars, historyVars
<1>2. TypeOK'
  BY <1>1, TypesFacts DEF MqttLost, IInv, TypeOK, configVars, channelVars, historyVars
<1>3. open'["HTTP"] => open["HTTP"]
  BY <1>1, TypesFacts DEF IInv, TypeOK
<1>4. EnginesInv' /\ OpenInv' /\ FilledInv'
  BY <1>1, <1>3 DEF EnginesInv, OpenInv, FilledInv, InCall, IInv
<1>5. CallInv' /\ ConfiguredInv'
  BY <1>1 DEF CallInv, ConfiguredInv, InCall, IInv, IsGrouping, IsIn, LeftOut, Asked, Route, Class
<1>6. DeliveredInv'
  BY <1>1 DEF DeliveredInv, IInv, Class
<1>7. QED BY <1>2, <1>4, <1>5, <1>6 DEF IInv

--------------------------------------------------------------------------------
(* The steps of configure() and write() *)

\* A call starts: its channels join the collections of the engines they are
\* routed to by what the call asks for.
LEMMA StartStep ==
  ASSUME IInv, NEW call \in {"configure", "write"}, NEW opt, NEW eng,
         opt \in [Id -> EmoncmsType \cup {None}], eng \in [Id -> EmoncmsType \cup {None}],
         Start(call, opt, eng), stage \in {"active", "on"},
         call = "configure" => eng = opt /\ configured' = Nowhere,
         call = "write" => stage = "on" /\ eng = engine /\ opt = option /\ configured' = configured
  PROVE  IInv'
<1>1. /\ at' = 1 /\ handed' = Nowhere /\ delivered' = {} /\ refused' = {} /\ option' = opt
      /\ DEFAULT' = DEFAULT /\ enabled' = enabled /\ keyed' = keyed /\ activations' = activations
      /\ engines' = engines /\ built' = built /\ open' = open /\ cached' = cached
  BY DEF Start, configVars, engineVars
<1>2. /\ Nowhere \in [Id -> EmoncmsType \cup {None}] /\ \A c \in Id : Nowhere[c] = None
      /\ 1 \in 1 .. Len(Types) + 1
  BY TypesFacts DEF Nowhere
<1>3. configured' \in [Id -> EmoncmsType \cup {None}]
  BY <1>2 DEF IInv, TypeOK
<1>4. CASE engines = <<>>
  <2>1. engine' = eng /\ collections' = <<>> /\ stage' = stage
    BY <1>4 DEF Start
  <2>2. stage \notin {"on", "configure", "write"}
    BY <1>4 DEF IInv, FilledInv, InCall
  <2>3. TypeOK'
    <3>1. Range(collections') \subseteq Collection
      BY <2>1 DEF Range
    <3>2. QED BY <1>1, <1>2, <1>3, <2>1, <3>1 DEF IInv, TypeOK
  <2>4. EnginesInv' /\ OpenInv'
    BY <1>1, <2>1 DEF EnginesInv, OpenInv, IInv
  <2>5. FilledInv' /\ CallInv' /\ ConfiguredInv' /\ DeliveredInv'
    BY <2>1, <2>2 DEF FilledInv, CallInv, ConfiguredInv, DeliveredInv, InCall
  <2>6. QED BY <2>3, <2>4, <2>5 DEF IInv
<1>5. CASE engines # <<>>
  <2>1. PICK skipped \in SUBSET {c \in Id : Rejected(opt, c, Route(eng, c))} :
          /\ engine' = [c \in Id |-> IF eng[c] = None THEN DEFAULT ELSE eng[c]]
          /\ collections' = Grouping(skipped, eng) /\ stage' = call
    BY <1>5 DEF Start
  <2>2. engines \in Seq(EmoncmsType) /\ DEFAULT \in EmoncmsType /\ None \notin EmoncmsType
    BY TypesFacts DEF IInv, EnginesInv, TypeOK
  <2>3. /\ IsGrouping(collections', eng)
        /\ \A c \in Id \ skipped : IsIn(c, collections')
    BY <1>5, <2>1, <2>2, GroupingFacts
  <2>4. engine' \in [Id -> EmoncmsType]
    BY <2>1, <2>2
  <2>5. \A c \in Id : engine'[c] = IF option'[c] = None THEN DEFAULT ELSE option'[c]
    <3>1. CASE call = "configure"
      BY <1>1, <2>1, <3>1
    <3>2. CASE call = "write"
      <4>1. \A c \in Id : engine[c] = IF option[c] = None THEN DEFAULT ELSE option[c]
        BY <3>2 DEF IInv, FilledInv
      <4>2. \A c \in Id : engine'[c] = engine[c]
        BY <2>1, <2>2, <3>2, <4>1
      <4>3. QED BY <1>1, <3>2, <4>1, <4>2
    <3>3. QED BY <3>1, <3>2
  <2>6. Asked' = eng
    <3>1. CASE call = "configure"
      BY <1>1, <2>1, <3>1 DEF Asked
    <3>2. CASE call = "write"
      <4>1. \A c \in Id : engine[c] = IF option[c] = None THEN DEFAULT ELSE option[c]
        BY <3>2 DEF IInv, FilledInv
      <4>2. engine' = [c \in Id |-> eng[c]]
        BY <2>1, <2>2, <3>2, <4>1
      <4>3. eng = [c \in Id |-> eng[c]]
        OBVIOUS
      <4>4. Asked' = engine'
        BY <2>1, <3>2 DEF Asked
      <4>5. QED BY <4>2, <4>3, <4>4
    <3>3. QED BY <3>1, <3>2
  <2>7. IsGrouping(collections, Asked)'
    <3>1. \A c : Route(Asked, c)' = Route(eng, c)
      BY <1>1, <2>6 DEF Route
    <3>2. QED BY <2>3, <3>1 DEF IsGrouping
  <2>8. ASSUME NEW c \in Id PROVE IsIn(c, collections)' \/ LeftOut(c)'
    <3>1. CASE c \notin skipped
      BY <2>3, <3>1 DEF IsIn
    <3>2. CASE c \in skipped
      <4>1. Class(opt, c) = "SQL" /\ (Route(eng, c) = "SQL" => c \notin WithIds)
        BY <2>1, <3>2 DEF Rejected
      <4>2. Route(Asked, c)' = Route(eng, c) /\ Class(option, c)' = Class(opt, c)
        BY <1>1, <2>6 DEF Route, Class
      <4>3. QED BY <4>1, <4>2 DEF LeftOut
    <3>3. QED BY <3>1, <3>2
  <2>9. collections' \in Seq(Collection) /\ Range(collections') \subseteq Collection
    BY <2>3 DEF IsGrouping, Range
  <2>10. TypeOK'
    BY <1>1, <1>2, <1>3, <2>1, <2>4, <2>9 DEF IInv, TypeOK
  <2>11. EnginesInv' /\ OpenInv'
    BY <1>1, <2>1, <2>9 DEF EnginesInv, OpenInv, IInv
  <2>12. FilledInv'
    BY <1>1, <1>5, <2>5 DEF FilledInv
  <2>13. CallInv'
    <3>1. \A c \in Id : handed'[c] = None
      BY <1>1, <1>2
    <3>2. at' \in 1 .. Len(collections') + 1 /\ 1 .. at' - 1 = {}
      <4>1. Len(collections') \in Nat
        BY <2>9
      <4>2. QED BY <1>1, <4>1
    <3>3. QED BY <2>7, <2>8, <3>1, <3>2 DEF CallInv
  <2>14. ConfiguredInv'
    <3>1. CASE call = "configure"
      BY <1>2, <3>1 DEF ConfiguredInv
    <3>2. CASE call = "write"
      <4>1. \A c \in Id : configured[c] \in {None, Route(option, c)}
        BY <3>2 DEF IInv, ConfiguredInv
      <4>2. \A c \in Id : Route(option, c)' = Route(option, c)
        BY <1>1, <3>2 DEF Route
      <4>3. QED BY <3>2, <4>1, <4>2 DEF ConfiguredInv
    <3>3. QED BY <3>1, <3>2
  <2>15. DeliveredInv'
    BY <1>1 DEF DeliveredInv
  <2>16. QED BY <2>10, <2>11, <2>12, <2>13, <2>14, <2>15 DEF IInv
<1>6. QED BY <1>4, <1>5

\* A collection is handed to its engine.
LEMMA HandEffect ==
  ASSUME IInv, NEW call \in {"configure", "write"}, Hand(call)
  PROVE  /\ CallInv' /\ at' \in 1 .. 4 /\ handed' \in [Id -> EmoncmsType \cup {None}]
         /\ \A c \in Id : handed'[c] \in {None, Route(Asked, c)}
         /\ stage = call /\ stage' = stage /\ at' = at + 1 /\ at \in DOMAIN collections
         /\ Current \in Collection
         /\ engines' = engines /\ open' = open /\ built' = built
         /\ collections' = collections /\ option' = option /\ engine' = engine
         /\ DEFAULT' = DEFAULT /\ enabled' = enabled /\ keyed' = keyed
         /\ activations' = activations
<1>1. /\ stage = call /\ stage' = stage /\ at' = at + 1 /\ at \in DOMAIN collections
      /\ engines' = engines /\ open' = open /\ built' = built
      /\ collections' = collections /\ option' = option /\ engine' = engine
      /\ DEFAULT' = DEFAULT /\ enabled' = enabled /\ keyed' = keyed /\ activations' = activations
      /\ handed' = [c \in Id |-> IF c \in Current.channels THEN Current.engine ELSE handed[c]]
  BY DEF Hand, configVars, channelVars
<1>2. /\ IsGrouping(collections, Asked) /\ at \in 1 .. Len(collections) + 1
      /\ \A c \in Id : IsIn(c, collections) \/ LeftOut(c)
      /\ \A i \in 1 .. at - 1 : \A c \in collections[i].channels : handed[c] = collections[i].engine
      /\ \A c \in Id : handed[c] # None => \E i \in 1 .. at - 1 : c \in collections[i].channels
  BY <1>1 DEF IInv, CallInv, InCall
<1>3. /\ collections \in Seq(Collection) /\ Len(collections) \in 0 .. 3
      /\ DOMAIN collections = 1 .. Len(collections)
      /\ \A i \in DOMAIN collections : collections[i] \in Collection
  <2>1. collections \in Seq(Collection)
    BY <1>2 DEF IsGrouping
  <2>2. Len(collections) \in 0 .. 3
    BY <1>2, GroupsBounded
  <2>3. QED BY <2>1, <2>2
<1>4. Current \in Collection /\ Current.engine \in EmoncmsType /\ Current = collections[at]
  BY <1>1, <1>3 DEF Current, Collection
<1>5. handed' \in [Id -> EmoncmsType \cup {None}]
  BY <1>1, <1>4 DEF IInv, TypeOK
<1>6. ASSUME NEW c \in Id
      PROVE  /\ handed'[c] \in {None, Route(Asked, c)}
             /\ handed'[c] # None => \E i \in 1 .. at : c \in collections[i].channels
  <2>1. CASE c \in Current.channels
    BY <1>1, <1>2, <1>4, <2>1 DEF IsGrouping
  <2>2. CASE c \notin Current.channels
    <3>1. handed'[c] = handed[c] /\ 1 .. at - 1 \subseteq DOMAIN collections /\ 1 .. at - 1 \subseteq 1 .. at
      BY <1>1, <1>2, <1>3, <2>2
    <3>2. CASE handed[c] # None
      <4>1. PICK i \in 1 .. at - 1 : c \in collections[i].channels
        BY <1>2, <3>2
      <4>2. handed[c] = collections[i].engine /\ collections[i].engine = Route(Asked, c)
        BY <1>2, <3>1, <4>1 DEF IsGrouping
      <4>3. QED BY <3>1, <4>1, <4>2
    <3>3. QED BY <3>1, <3>2
  <2>3. QED BY <2>1, <2>2
<1>7. Asked' = Asked /\ \A c : Route(Asked, c)' = Route(Asked, c)
  BY <1>1 DEF Asked, Route
<1>8. at' \in 1 .. Len(collections) + 1 /\ at' - 1 = at /\ at' \in 1 .. 4
  BY <1>1, <1>2, <1>3
<1>9. ASSUME NEW i \in 1 .. at, NEW c \in collections[i].channels
      PROVE  handed'[c] = collections[i].engine
  <2>1. i \in DOMAIN collections /\ c \in Id
    BY <1>1, <1>2, <1>3 DEF Collection
  <2>2. CASE c \in Current.channels
    <3>1. collections[i].engine = Current.engine
      BY <1>1, <1>2, <1>4, <2>1, <2>2 DEF IsGrouping
    <3>2. QED BY <1>1, <2>1, <2>2, <3>1
  <2>3. CASE c \notin Current.channels
    <3>1. i \in 1 .. at - 1
      BY <1>4, <1>2, <2>3
    <3>2. QED BY <1>1, <1>2, <2>1, <2>3, <3>1
  <2>4. QED BY <2>2, <2>3
<1>10. CallInv'
  <2>1. IsGrouping(collections, Asked)'
    BY <1>1, <1>2, <1>7 DEF IsGrouping
  <2>2. \A c \in Id : IsIn(c, collections)' \/ LeftOut(c)'
    BY <1>1, <1>2, <1>7 DEF IsIn, LeftOut, Class
  <2>3. QED BY <1>1, <1>6, <1>7, <1>8, <1>9, <2>1, <2>2 DEF CallInv
<1>11. QED BY <1>1, <1>4, <1>5, <1>6, <1>8, <1>10

\* configure() hands it over.
LEMMA ConfigureStep ==
  ASSUME IInv, ConfigureCollection
  PROVE  IInv'
<1>1. /\ CallInv' /\ at' \in 1 .. 4 /\ handed' \in [Id -> EmoncmsType \cup {None}]
      /\ \A c \in Id : handed'[c] \in {None, Route(Asked, c)}
      /\ stage = "configure" /\ stage' = stage
      /\ engines' = engines /\ open' = open /\ built' = built
      /\ collections' = collections /\ option' = option /\ engine' = engine
      /\ DEFAULT' = DEFAULT /\ enabled' = enabled /\ keyed' = keyed /\ activations' = activations
  BY HandEffect DEF ConfigureCollection
<1>2. configured' = handed' /\ cached' = cached /\ delivered' = delivered /\ refused' = refused
  BY DEF ConfigureCollection
<1>3. TypeOK'
  BY <1>1, <1>2, TypesFacts DEF IInv, TypeOK
<1>4. EnginesInv' /\ OpenInv' /\ FilledInv'
  BY <1>1 DEF EnginesInv, OpenInv, FilledInv, InCall, IInv
<1>5. ConfiguredInv'
  BY <1>1, <1>2 DEF ConfiguredInv, Asked, Route
<1>6. DeliveredInv'
  BY <1>1 DEF DeliveredInv
<1>7. QED BY <1>1, <1>3, <1>4, <1>5, <1>6 DEF IInv

\* write() does, and the engine takes it, fails or breaks at a foreign channel.
LEMMA WriteStep ==
  ASSUME IInv, WriteDelivers \/ WriteFails \/ WriteBreaks
  PROVE  IInv'
<1>1. Hand("write")
  BY DEF WriteDelivers, WriteFails, WriteBreaks
<1>2. /\ CallInv' /\ at' \in 1 .. 4 /\ handed' \in [Id -> EmoncmsType \cup {None}]
      /\ stage = "write" /\ stage' = stage /\ at' = at + 1 /\ at \in DOMAIN collections
      /\ Current \in Collection
      /\ engines' = engines /\ open' = open /\ built' = built
      /\ collections' = collections /\ option' = option /\ engine' = engine
      /\ DEFAULT' = DEFAULT /\ enabled' = enabled /\ keyed' = keyed /\ activations' = activations
  BY <1>1, HandEffect
<1>3. Current.channels \subseteq Id /\ Current.engine \in EmoncmsType /\ Current = collections[at]
  BY <1>2 DEF Current, Collection
<1>4. /\ configured' = configured /\ cached' \in BOOLEAN
      /\ delivered \subseteq delivered' /\ delivered' \subseteq Id
      /\ refused \subseteq refused' /\ refused' \subseteq EmoncmsType \cup {"build"}
      /\ Current.engine \in refused' \/ Foreign \/ Current.channels \subseteq delivered'
  <2>1. delivered \subseteq Id /\ refused \subseteq EmoncmsType \cup {"build"} /\ cached \in BOOLEAN
    BY DEF IInv, TypeOK
  <2>2. cached' \in BOOLEAN
    BY <2>1 DEF WriteDelivers, WriteFails, WriteBreaks
  <2>3. CASE WriteDelivers
    BY <1>3, <2>1, <2>2, <2>3 DEF WriteDelivers
  <2>4. CASE WriteFails
    BY <1>3, <2>1, <2>2, <2>4 DEF WriteFails
  <2>5. CASE WriteBreaks
    BY <1>3, <2>1, <2>2, <2>5 DEF WriteBreaks
  <2>6. QED BY <2>3, <2>4, <2>5
<1>5. TypeOK'
  BY <1>2, <1>4, TypesFacts DEF IInv, TypeOK
<1>6. EnginesInv' /\ OpenInv' /\ FilledInv'
  BY <1>2 DEF EnginesInv, OpenInv, FilledInv, InCall, IInv
<1>7. ConfiguredInv'
  BY <1>2, <1>4 DEF ConfiguredInv, InCall, IInv, Route
<1>8. DeliveredInv'
  <2>1. ASSUME NEW i \in 1 .. at
        PROVE  \/ collections[i].engine \in refused'
               \/ \E d \in collections[i].channels : Class(option, d) # collections[i].engine
               \/ collections[i].channels \subseteq delivered'
    <3>1. CASE i = at
      BY <1>3, <1>4, <3>1 DEF Foreign
    <3>2. CASE i # at
      <4>1. i \in 1 .. at - 1
        BY <1>2, <3>2 DEF IInv, TypeOK
      <4>2. QED BY <1>2, <1>4, <4>1 DEF IInv, DeliveredInv
    <3>3. QED BY <3>1, <3>2
  <2>2. at' - 1 = at
    BY <1>2 DEF IInv, TypeOK
  <2>3. QED BY <1>2, <2>1, <2>2 DEF DeliveredInv, Class
<1>9. QED BY <1>2, <1>5, <1>6, <1>7, <1>8 DEF IInv

\* The call has come to its end.
LEMMA EndStep ==
  ASSUME IInv, End
  PROVE  IInv'
<1>1. /\ InCall /\ stage' = "on" /\ at' = 1 /\ engines' = engines /\ open' = open
      /\ collections' = collections /\ option' = option /\ engine' = engine
      /\ DEFAULT' = DEFAULT /\ configured' = configured
  BY DEF End, InCall, configVars, engineVars, channelVars, historyVars
<1>2. TypeOK'
  BY <1>1, TypesFacts DEF End, IInv, TypeOK, configVars, engineVars, channelVars, historyVars
<1>3. EnginesInv' /\ OpenInv' /\ FilledInv'
  BY <1>1 DEF EnginesInv, OpenInv, FilledInv, InCall, IInv
<1>4. ConfiguredInv'
  BY <1>1 DEF ConfiguredInv, IInv, Route
<1>5. CallInv' /\ DeliveredInv'
  BY <1>1 DEF CallInv, DeliveredInv, InCall
<1>6. QED BY <1>2, <1>3, <1>4, <1>5 DEF IInv

--------------------------------------------------------------------------------
(* The invariant *)

\* It holds before the first activation.
LEMMA InitInv == Init => IInv
<1> SUFFICES ASSUME Init PROVE IInv
  OBVIOUS
<1>1. /\ stage = "off" /\ engines = <<>> /\ collections = <<>> /\ at = 1
      /\ open = [t \in EmoncmsType |-> FALSE]
  BY DEF Init
<1>2. TypeOK
  <2>1. Range(engines) \subseteq EmoncmsType /\ IsInjective(engines) /\ Range(collections) \subseteq Collection
    BY <1>1 DEF Range, IsInjective
  <2>2. at \in 1 .. Len(Types) + 1 /\ activations \in 0 .. MaxActivations
    BY <1>1, TypesFacts, BoundAssumption DEF Init
  <2>3. Nowhere \in [Id -> EmoncmsType \cup {None}]
    BY DEF Nowhere
  <2>4. QED BY <2>1, <2>2, <2>3 DEF Init, TypeOK
<1>3. EnginesInv /\ OpenInv
  BY <1>1, TypesFacts DEF EnginesInv, OpenInv, IsInjective
<1>4. FilledInv /\ CallInv /\ ConfiguredInv /\ DeliveredInv
  BY <1>1 DEF FilledInv, CallInv, ConfiguredInv, DeliveredInv, InCall
<1>5. QED BY <1>2, <1>3, <1>4 DEF IInv

\* Every step keeps it.
LEMMA NextInv == IInv /\ [Next]_vars => IInv'
<1> SUFFICES ASSUME IInv, [Next]_vars PROVE IInv'
  OBVIOUS
<1>1. ASSUME NEW sections \in SUBSET EmoncmsType, NEW credentials \in BOOLEAN,
             Activate(sections, credentials)
      PROVE  IInv'
  BY <1>1, ActivateStep
<1>2. CASE SkipEngine \/ ActivateHttp \/ FailBuild \/ ActivateOther \/ FailEngine
  BY <1>2, ActivatingSteps
<1>3. CASE Activated
  BY <1>3, ActivatedStep
<1>4. CASE Deactivate
  BY <1>4, DeactivateStep
<1>5. ASSUME NEW opt \in [Id -> EmoncmsType \cup {None}], StartConfigure(opt) PROVE IInv'
  BY <1>5, StartStep DEF StartConfigure
<1>6. CASE StartWrite
  <2>1. PICK opt, eng : opt = option /\ eng = engine
    OBVIOUS
  <2>2. /\ opt \in [Id -> EmoncmsType \cup {None}] /\ eng \in [Id -> EmoncmsType \cup {None}]
        /\ Start("write", opt, eng) /\ stage = "on" /\ configured' = configured
    BY <1>6, <2>1 DEF StartWrite, IInv, TypeOK
  <2>3. QED BY <2>1, <2>2, StartStep
<1>7. CASE ConfigureCollection
  BY <1>7, ConfigureStep
<1>8. CASE WriteDelivers \/ WriteFails \/ WriteBreaks
  BY <1>8, WriteStep
<1>9. CASE End
  BY <1>9, EndStep
<1>10. CASE MqttLost
  BY <1>10, MqttLostStep
<1>11. CASE UNCHANGED vars
  <2>1. TypeOK'
    BY <1>11 DEF vars, configVars, engineVars, channelVars, historyVars, IInv, TypeOK
  <2>2. EnginesInv' /\ OpenInv' /\ FilledInv'
    BY <1>11 DEF vars, configVars, engineVars, channelVars, historyVars, IInv, EnginesInv, OpenInv,
                 FilledInv, InCall
  <2>3. CallInv'
    BY <1>11 DEF vars, configVars, engineVars, channelVars, historyVars, IInv, CallInv, InCall,
                 IsGrouping, IsIn, LeftOut, Asked, Route, Class
  <2>4. ConfiguredInv' /\ DeliveredInv'
    BY <1>11 DEF vars, configVars, engineVars, channelVars, historyVars, IInv, ConfiguredInv,
                 DeliveredInv, InCall, Route, Class
  <2>5. QED BY <2>1, <2>2, <2>3, <2>4 DEF IInv
<1>12. QED BY <1>1, <1>2, <1>3, <1>4, <1>5, <1>6, <1>7, <1>8, <1>9, <1>10, <1>11 DEF Next

\* The inductive invariant: the engines put into the map, the collections of a
\* call and what became of each channel agree.
THEOREM Invariant == Spec => []IInv
BY InitInv, NextInv, PTL DEF Spec

--------------------------------------------------------------------------------
(* What follows from it *)

\* EngineLogger and EngineCollection: every variable keeps its type.
THEOREM TypesKept == Spec => []TypeOK
BY Invariant, PTL DEF IInv

\* activate(): an engine that fails does not keep the others from the map.
THEOREM ActivationsIsolated == Spec => []ActivationIsolated
<1>1. IInv => ActivationIsolated
  <2> SUFFICES ASSUME IInv, stage = "activating", at > Len(Types), NEW type \in enabled
               PROVE  type \in Range(engines) \cup refused \/ (type = "HTTP" /\ "build" \in refused)
    BY DEF ActivationIsolated
  <2>1. at = 4 /\ type \in {"HTTP", "MQTT", "SQL"}
    BY TypesFacts DEF IInv, TypeOK, EnginesInv
  <2>2. PICK j \in 1 .. 3 : type = Types[j]
    BY <2>1, TypesFacts
  <2>3. Types[j] \in Range(engines) \cup refused \/ (j = 1 /\ "build" \in refused)
    BY <2>1, <2>2 DEF IInv, EnginesInv
  <2>4. QED BY <2>2, <2>3, TypesFacts
<1>2. QED BY Invariant, <1>1, PTL

\* deactivate(): however often the component was activated and whatever failed,
\* the HTTP connection is closed afterwards.
THEOREM ClosedWhenOff == Spec => []DeactivatedIsClosed
<1>1. IInv => DeactivatedIsClosed
  BY DEF IInv, OpenInv, DeactivatedIsClosed
<1>2. QED BY Invariant, <1>1, PTL

\* At the end of a call all collections were handed over.
LEMMA EndedCall ==
  ASSUME IInv, InCall, at > Len(collections), NEW c \in Id
  PROVE  /\ handed[c] = Route(Asked, c) \/ LeftOut(c)
         /\ handed[c] # None => /\ handed[c] = Route(Asked, c)
                                /\ \E i \in 1 .. at - 1 : /\ c \in collections[i].channels
                                                          /\ handed[c] = collections[i].engine
<1>1. /\ IsGrouping(collections, Asked) /\ at \in 1 .. Len(collections) + 1
      /\ IsIn(c, collections) \/ LeftOut(c)
      /\ \A i \in 1 .. at - 1 : \A d \in collections[i].channels : handed[d] = collections[i].engine
      /\ handed[c] # None => \E i \in 1 .. at - 1 : c \in collections[i].channels
  BY DEF IInv, CallInv
<1>2. DOMAIN collections = 1 .. at - 1
  BY <1>1 DEF IsGrouping
<1>3. ASSUME NEW i \in 1 .. at - 1, c \in collections[i].channels
      PROVE  handed[c] = collections[i].engine /\ handed[c] = Route(Asked, c)
  BY <1>1, <1>2, <1>3 DEF IsGrouping
<1>4. IsIn(c, collections) => \E i \in 1 .. at - 1 : c \in collections[i].channels
  BY <1>2 DEF IsIn
<1>5. QED BY <1>1, <1>3, <1>4

\* configure() and write(): at the end of a call every channel whose own engine
\* is active was handed to it, whatever other engines did.
THEOREM HandedToOwn == Spec => []OwnEngineHanded
<1>1. IInv => OwnEngineHanded
  <2> SUFFICES ASSUME IInv, NEW c \in Id, Ended("configure") \/ Ended("write"),
                      option[c] \in Range(engines), option[c] = "SQL" => c \in WithIds
               PROVE  handed[c] = option[c]
    BY DEF OwnEngineHanded
  <2>1. InCall /\ at > Len(collections)
    BY DEF Ended, InCall
  <2>2. option[c] # None
    BY TypesFacts DEF IInv, TypeOK
  <2>3. Asked[c] = option[c]
    BY <2>1, <2>2 DEF Asked, IInv, FilledInv
  <2>4. Route(Asked, c) = option[c] /\ Class(option, c) = option[c]
    BY <2>2, <2>3 DEF Route, Class
  <2>5. ~LeftOut(c)
    BY <2>4 DEF LeftOut
  <2>6. QED BY <2>1, <2>4, <2>5, EndedCall
<1>2. QED BY Invariant, <1>1, PTL

\* write() hands a channel to the engine that configure() handed it to, unless
\* its option is missing and the default is active, but not the first engine.
THEOREM WrittenAsConfigured == Spec => []WrittenWhereConfigured
<1>1. IInv => WrittenWhereConfigured
  <2> SUFFICES ASSUME IInv, NEW c \in Id, Ended("write"), configured[c] # None, handed[c] # None,
                      option[c] # None \/ DEFAULT \notin Range(engines) \/ DEFAULT = engines[1]
               PROVE  handed[c] = configured[c]
    BY DEF WrittenWhereConfigured
  <2>1. InCall /\ at > Len(collections) /\ Asked = engine
    BY DEF Ended, InCall, Asked
  <2>2. handed[c] = Route(engine, c) /\ configured[c] = Route(option, c)
    BY <2>1, EndedCall DEF IInv, ConfiguredInv
  <2>3. engine[c] = IF option[c] = None THEN DEFAULT ELSE option[c]
    BY <2>1 DEF IInv, FilledInv
  <2>4. None \notin Range(engines)
    BY TypesFacts DEF IInv, TypeOK
  <2>5. QED BY <2>2, <2>3, <2>4 DEF Route
<1>2. QED BY Invariant, <1>1, PTL

\* write(): without foreign channels a value gets lost only if its engine failed.
THEOREM LossesExplained == Spec => []LossIsExplained
<1>1. IInv => LossIsExplained
  <2> SUFFICES ASSUME IInv, NEW c \in Id, Ended("write"), handed[c] \in {"HTTP", "SQL"},
                      handed[c] = Class(option, c), handed[c] \notin refused,
                      \A d \in Id : option[d] \in Range(engines)
               PROVE  c \in delivered
    BY DEF LossIsExplained
  <2>1. InCall /\ at > Len(collections) /\ Asked = engine /\ stage = "write"
    BY DEF Ended, InCall, Asked
  <2>2. None \notin Range(engines) /\ handed[c] # None
    BY TypesFacts DEF IInv, TypeOK
  <2>3. \A d \in Id : Route(engine, d) = Class(option, d)
    BY <2>1, <2>2 DEF IInv, FilledInv, Route, Class
  <2>4. PICK i \in 1 .. at - 1 : c \in collections[i].channels /\ handed[c] = collections[i].engine
    BY <2>1, <2>2, EndedCall
  <2>5. \A d \in collections[i].channels : Class(option, d) = collections[i].engine
    <3>1. IsGrouping(collections, engine) /\ at \in 1 .. Len(collections) + 1
      BY <2>1 DEF IInv, CallInv
    <3>2. i \in DOMAIN collections /\ collections[i] \in Collection
      BY <2>1, <3>1 DEF IsGrouping
    <3>3. QED BY <2>3, <3>1, <3>2 DEF IsGrouping, Collection
  <2>6. QED BY <2>1, <2>4, <2>5 DEF IInv, DeliveredInv
<1>2. QED BY Invariant, <1>1, PTL
================================================================================
