-------------------------------- MODULE HttpEngine --------------------------------
(***************************************************************************)
(* HttpEngine.write: one call of the data manager with a list of channels. *)
(* Several channels are collected into one DataContainer for each          *)
(* authentication, and the containers are posted one after the other, a    *)
(* container of one data set with input/post and others with input/bulk.   *)
(* A list of one channel is posted directly.                               *)
(*                                                                         *)
(* Any post may fail: then the write ends with an exception, whether the   *)
(* server has processed the request or not.  HttpConnection models what    *)
(* happens to a request in between.  A value is known by its channel.      *)
(***************************************************************************)

EXTENDS DataList, Integers, FiniteSets, SequencesExt

CONSTANTS
  Channels,        \* the number of channels; a list has the channels 1 to n of a write
  Node,            \* the nodes
  Authentication,  \* the authentications of channels: [authorization, key]
  Millis,          \* the times of records, in milliseconds (0 would stand for no time)
  Timestamp,       \* the time of the write call, in milliseconds
  Present,         \* what the client's clock may show at a post, in seconds
  None             \* no time, or no key

Channel == 1 .. Channels
Default == [authorization |-> "DEFAULT", key |-> None]

\* HttpChannel.validate: these authorizations come with a key.
Keyed == {"DEVICE", "WRITE", "READ"}

\* A time of less than a second would be sent as 0, which stands for no time.  An
\* authentication is a record of its two fields.
ASSUME ChannelsAssumption == Channels \in Nat
ASSUME TimeAssumption ==
  /\ Millis \cup {Timestamp} \subseteq {t \in Nat : t >= 1000} /\ None \notin Nat
  /\ Present \subseteq Nat
ASSUME AuthenticationAssumption ==
  \A a \in Authentication :
    /\ a = [authorization |-> a.authorization, key |-> a.key]
    /\ a.authorization \in Keyed \cup {"DEFAULT", "NONE"}
    /\ a.authorization \in Keyed => a.key # None

VARIABLES
  list,        \* the channels of the write, each with its settings and its record
  stage,       \* "idle", "collect" or "post"
  at,          \* the channel or the container that is next
  containers,  \* the DataContainers of the write
  requests,    \* the requests the server has processed in this write
  result       \* how the last write ended

vars == <<list, stage, at, containers, requests, result>>

Logged == [node : Node, authentication : Authentication, valid : BOOLEAN,
           time : Millis \cup {None}]
DataSet == [time : Nat, node : Node, values : Seq(Channel)]
Container == [authentication : Authentication, data : Seq(DataSet)]
Value == [channel : Channel, node : Node, time : Nat]

TypeOK ==
  /\ list \in Seq(Logged) /\ Len(list) \in Channel
  /\ stage \in {"idle", "collect", "post"}
  /\ at \in 1 .. Channels + 1
  /\ containers \in Seq(Container)
  /\ requests \in Seq([authentication : Authentication \cup {Default}, values : Seq(Value)])
  /\ result \in {"none", "ok", "failed"}

\* write() is called with one of the lists.  Nothing outlives the call.
Init ==
  /\ \E n \in Channel : list \in [1 .. n -> Logged]
  /\ stage = "collect" /\ at = 1
  /\ containers = <<>> /\ requests = <<>> /\ result = "none"

--------------------------------------------------------------------------------

Return(how) == stage' = "idle" /\ at' = 1 /\ result' = how

\* A request the server processes, or an exception, possibly after it did.
Request(authentication, values) ==
  requests' = Append(requests, [authentication |-> authentication, values |-> values])

\* channel.getRecord().getTimestamp(), or the time of the call.
TimeOf(c) == IF list[c].time = None THEN Timestamp ELSE list[c].time

\* Mutant: name and node are swapped.
SentSwapped(c, node, seconds) == [channel |-> node, node |-> c, time |-> seconds]

Sent(c, node, seconds) == [channel |-> c, node |-> node, time |-> seconds]

SkipSingle ==
  /\ stage = "collect" /\ Len(list) = 1 /\ ~list[1].valid
  /\ Return("ok")
  /\ UNCHANGED <<list, containers, requests>>

\* The only channel of a list is posted with the connection's authentication.
Single == Request(Default, <<Sent(1, list[1].node, ToSeconds(TimeOf(1)))>>)

WriteSingle ==
  /\ stage = "collect" /\ Len(list) = 1 /\ list[1].valid
  /\ \/ Single /\ Return("ok")
     \/ (Single \/ UNCHANGED requests) /\ Return("failed")
  /\ UNCHANGED <<list, containers>>

--------------------------------------------------------------------------------
(* The loop over several channels *)

\* Mutant: containers are told apart by their keys only.
SameKey(a, b) == a.key = b.key

\* DataContainer.equals and Authentication.equals.
Same(a, b) ==
  \/ a.authorization = "DEFAULT" /\ b.authorization = "DEFAULT"
  \/ a.authorization = b.authorization /\ a.key = b.key

\* Authentication.equals calls equals on the key of the channel, which may be null.
NullKey(a) ==
  /\ a.authorization # "DEFAULT" /\ a.key = None
  /\ \E k \in DOMAIN containers : containers[k].authentication.authorization = a.authorization

Collect ==
  /\ stage = "collect" /\ Len(list) > 1 /\ at <= Len(list)
  /\ UNCHANGED <<list, requests>>

SkipChannel ==
  /\ Collect /\ ~list[at].valid
  /\ at' = at + 1
  /\ UNCHANGED <<stage, containers, result>>

AddChannel ==
  /\ Collect /\ list[at].valid
  /\ LET a == list[at].authentication
         k == SelectInSeq(containers, LAMBDA c : Same(c.authentication, a))
     IN /\ ~NullKey(a)
        /\ containers' =
             IF k = 0
             THEN Append(containers, [authentication |-> a,
                                      data |-> Add(<<>>, TimeOf(at), list[at].node, at)])
             ELSE [containers EXCEPT ![k].data = Add(@, TimeOf(at), list[at].node, at)]
  /\ at' = at + 1
  /\ UNCHANGED <<stage, result>>

\* The NullPointerException leaves write() before anything is posted.
BreakChannel ==
  /\ Collect /\ list[at].valid /\ NullKey(list[at].authentication)
  /\ Return("failed")
  /\ UNCHANGED containers

Collected ==
  /\ stage = "collect" /\ Len(list) > 1 /\ at > Len(list)
  /\ stage' = "post" /\ at' = 1
  /\ UNCHANGED <<list, containers, requests, result>>

--------------------------------------------------------------------------------
(* The loop over the containers *)

\* The values of one data set, with its time relative to that of the request.
Values(data, reference) ==
  [i \in DOMAIN data.values |-> Sent(data.values[i], data.node, data.time - reference)]

Bulk(data, reference) ==
  FlattenSeq([i \in DOMAIN data |-> Values(Sort(data)[i], reference)])

\* The server adds the time of a request to those of its values.
Received(reference, values) == [i \in DOMAIN values |-> [values[i] EXCEPT !.time = reference + @]]

\* The time of a single data set is sent as it is, in seconds; a bulk request has the
\* present, and values relative to it.
Content(data, present) ==
  IF Len(data) = 1 THEN Values([data[1] EXCEPT !.time = ToSeconds(@ * 1000)], 0)
                   ELSE Received(present, Bulk(data, present))

Posting == stage = "post" /\ at <= Len(containers) /\ UNCHANGED <<list, containers>>

\* The default authorization is that of the connection, whatever the key.
AuthenticationOf(container) ==
  IF container.authentication.authorization = "DEFAULT" THEN Default
                                                        ELSE container.authentication

Post ==
  \E present \in Present :
    Request(AuthenticationOf(containers[at]), Content(containers[at].data, present))

\* No value of an authorization header is defined for NONE: the exception
\* leaves write() as well.
Postable == containers[at].authentication.authorization # "NONE"

PostContainer ==
  /\ Posting /\ Postable
  /\ Post
  /\ at' = at + 1
  /\ UNCHANGED <<stage, result>>

\* Mutant: the data sets are sent one after the other, until one fails.
FailBetween ==
  /\ Posting
  /\ Postable /\ Request(AuthenticationOf(containers[at]), Values(containers[at].data[1], 0))
  /\ Return("failed")

FailContainer ==
  /\ Posting
  /\ (Postable /\ Post) \/ UNCHANGED requests
  /\ Return("failed")

EndWrite ==
  /\ stage = "post" /\ at > Len(containers)
  /\ Return("ok")
  /\ UNCHANGED <<list, containers, requests>>

Next ==
  \/ SkipSingle \/ WriteSingle
  \/ SkipChannel \/ AddChannel \/ BreakChannel \/ Collected
  \/ PostContainer \/ FailContainer \/ EndWrite

Spec == Init /\ [][Next]_vars

--------------------------------------------------------------------------------
(* Properties *)

\* The requests that carried the value of channel c, and how often.
Carried(c) ==
  UNION {{<<r, i>> : i \in {i \in DOMAIN requests[r].values : requests[r].values[i].channel = c}} :
         r \in DOMAIN requests}

\* A write that returns has brought every valid value to the server exactly
\* once.  One that fails has brought none twice, and an invalid one never.
OkMeansAll ==
  \A c \in DOMAIN list :
    /\ Cardinality(Carried(c)) <= 1
    /\ ~list[c].valid => Carried(c) = {}
    /\ result = "ok" /\ list[c].valid => Carried(c) # {}

\* Whatever else is in its request, a value arrives at its own node, with the
\* second of its own time, whatever the present of the post was, and under the
\* authentication of its channel.  The exceptions are the channel that is written alone and the one without an
\* authorization: these are posted under that of the connection.
ArrivesAsLogged ==
  \A c \in DOMAIN list : \A x \in Carried(c) :
    LET request == requests[x[1]]
        value == request.values[x[2]]
        own == list[c].authentication
    IN /\ value.node = list[c].node
       /\ value.time = ToSeconds(TimeOf(c))
       /\ request.authentication =
            IF Len(list) = 1 \/ own.authorization = "DEFAULT" THEN Default ELSE own

\* The values of one authentication arrive together or not at all, also when
\* the write fails between two requests.
GroupArrivesWhole ==
  \A c, d \in DOMAIN list :
    /\ Carried(c) # {} /\ list[d].valid
    /\ list[c].authentication = list[d].authentication
    => Carried(d) # {}

\* In each request the values are in the order of time, and within a second
\* and node in the order of the list.
ArrivesInOrder ==
  \A r \in DOMAIN requests :
    LET values == requests[r].values
    IN \A i, j \in DOMAIN values :
         i < j => /\ values[i].time <= values[j].time
                  /\ values[i].time = values[j].time /\ values[i].node = values[j].node
                       => values[i].channel < values[j].channel
================================================================================
