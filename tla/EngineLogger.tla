------------------------------- MODULE EngineLogger -------------------------------
(***************************************************************************)
(* The OpenMUC data logger: EngineLogger, which activates the HTTP, MQTT   *)
(* and SQL engines and hands each call's channels to them, and             *)
(* EngineCollection, which groups the channels by engine.                  *)
(*                                                                         *)
(* The data manager calls configure() and write() one after the other, and *)
(* OSGi deactivates the component between two calls and may make a new one *)
(* later.  The builders keep the HTTP connection and the MQTT client of an *)
(* address in static lists, which outlive the component.  A write goes to  *)
(* the engines one by one; each may fail, and the broker may drop the MQTT *)
(* session at any time.                                                    *)
(*                                                                         *)
(* Here an engine takes a collection or refuses it: SqlEngine and          *)
(* HttpConnection model what they do with it.  The data manager is         *)
(* modelled from how the code uses it.                                     *)
(***************************************************************************)

EXTENDS Naturals, Sequences, FiniteSets, Functions, SequencesExt

CONSTANTS
  Channel,         \* the logged channels, as a sequence of their ids
  WithIds,         \* the channels that set an input id and a feed id
  MaxActivations,  \* bound: how often the component is activated
  None             \* no engine

Id == Range(Channel)

ASSUME ChannelAssumption ==
  Channel \in Seq(Id) /\ WithIds \subseteq Id /\ None \notin {"HTTP", "MQTT", "SQL"}
ASSUME BoundAssumption == MaxActivations \in Nat

\* The engines, in the order activate() tries them.
Types == <<"HTTP", "MQTT", "SQL">>
EmoncmsType == Range(Types)

VARIABLES
  DEFAULT,      \* the system property that names the engine of the other channels
  enabled,      \* the sections of the configuration file that are not disabled
  keyed,        \* the HTTP section has credentials
  activations,  \* how often the component was activated
  stage,        \* "off", "activating", "active", "on" (configured), or a call
  at,           \* the engine or the collection that is next
  engines,      \* EngineLogger.engines, in the order of the LinkedHashMap
  built,        \* the HTTP connection HttpBuilder keeps: none, or with a key or not
  open,         \* HTTP: not closed; MQTT: connected; SQL: has a pool
  cached,       \* SqlClient.hasCache: the Redis connection is up
  option,       \* the engine option of each channel, or None
  engine,       \* EngineChannel.engine of each channel
  collections,  \* the EngineCollection of the current call
  handed,       \* history: the engine each channel was handed to in this call
  configured,   \* history: the engine each channel was handed to in configure()
  delivered,    \* history: the channels whose values this write delivered
  refused       \* history: the engines that failed in this activation or write

configVars == <<DEFAULT, enabled, keyed, activations>>
engineVars == <<engines, built, open, cached>>
channelVars == <<option, engine, collections>>
historyVars == <<handed, configured, delivered, refused>>
vars == <<configVars, stage, at, engineVars, channelVars, historyVars>>

Nowhere == [c \in Id |-> None]
Collection == [engine : EmoncmsType, channels : (SUBSET Id) \ {{}}]

TypeOK ==
  /\ DEFAULT \in EmoncmsType
  /\ enabled \subseteq EmoncmsType /\ keyed \in BOOLEAN
  /\ activations \in 0 .. MaxActivations
  /\ stage \in {"off", "activating", "active", "on", "configure", "write"}
  /\ at \in 1 .. Len(Types) + 1
  /\ Range(engines) \subseteq EmoncmsType /\ IsInjective(engines)
  /\ built \in {"none", "plain", "keyed"}
  /\ open \in [EmoncmsType -> BOOLEAN] /\ cached \in BOOLEAN
  /\ option \in [Id -> EmoncmsType \cup {None}]
  /\ engine \in [Id -> EmoncmsType \cup {None}]
  /\ Range(collections) \subseteq Collection
  /\ handed \in [Id -> EmoncmsType \cup {None}]
  /\ configured \in [Id -> EmoncmsType \cup {None}]
  /\ delivered \subseteq Id /\ refused \subseteq EmoncmsType \cup {"build"}

Init ==
  /\ DEFAULT \in EmoncmsType
  /\ enabled = {} /\ keyed = FALSE /\ activations = 0
  /\ stage = "off" /\ at = 1
  /\ engines = <<>> /\ built = "none"
  /\ open = [t \in EmoncmsType |-> FALSE] /\ cached = FALSE
  /\ option = Nowhere /\ engine = Nowhere /\ collections = <<>>
  /\ handed = Nowhere /\ configured = Nowhere
  /\ delivered = {} /\ refused = {}

--------------------------------------------------------------------------------
(* activate() *)

Activate(sections, credentials) ==
  /\ stage = "off" /\ activations < MaxActivations
  /\ activations' = activations + 1
  /\ enabled' = sections /\ keyed' = credentials
  /\ stage' = "activating" /\ at' = 1
  /\ engines' = <<>>
  /\ open' = [open EXCEPT !["SQL"] = FALSE] /\ cached' = FALSE
  /\ configured' = Nowhere /\ refused' = {}
  /\ UNCHANGED <<DEFAULT, built, channelVars, handed, delivered>>

\* Mutant: the loop stays at the engine it has activated.
ActivatingStays(type) ==
  /\ stage = "activating" /\ at <= Len(Types)
  /\ type = Types[at]
  /\ UNCHANGED <<configVars, stage, at, cached, channelVars, handed, configured, delivered>>

Activating(type) ==
  /\ stage = "activating" /\ at <= Len(Types)
  /\ type = Types[at]
  /\ at' = at + 1
  /\ UNCHANGED <<configVars, stage, cached, channelVars, handed, configured, delivered>>

Opened(type) == open' = [open EXCEPT ![type] = TRUE]
Put(type) == engines' = Append(engines, type) /\ Opened(type)

SkipEngine ==
  /\ \E type \in EmoncmsType \ enabled : Activating(type)
  /\ UNCHANGED <<engines, built, open, refused>>

\* build() puts a connection into its list, or gives the one there the credentials.
Builds == built # "plain" /\ built' = IF keyed THEN "keyed" ELSE "plain"

ActivateHttp ==
  /\ "HTTP" \in enabled /\ Activating("HTTP")
  /\ Builds
  /\ Put("HTTP")
  /\ UNCHANGED refused

\* HttpBuilder.build compares the credentials of the connection it kept with the
\* new ones: a NullPointerException if that connection has none.
FailBuild ==
  /\ "HTTP" \in enabled /\ Activating("HTTP")
  /\ built = "plain"
  /\ refused' = refused \cup {"build"}
  /\ UNCHANGED <<engines, built, open>>

ActivateOther ==
  /\ \E type \in enabled \ {"HTTP"} : Activating(type) /\ Put(type)
  /\ UNCHANGED <<built, refused>>

\* Mutant: an exception ends the activation of all engines.
FailEngineEndsAll ==
  /\ stage = "activating" /\ at <= Len(Types) /\ Types[at] \in enabled
  /\ at' = Len(Types) + 1
  /\ refused' = refused \cup {Types[at]}
  /\ UNCHANGED <<configVars, stage, engineVars, channelVars, handed, configured, delivered>>

\* A bad option, a pool that cannot be made, or a broker that cannot be reached: the
\* exception is caught per engine.  The MQTT client has replaced its session, and
\* open() of the HTTP connection is called when the builder has kept it.
FailEngine ==
  /\ \E type \in enabled :
       /\ Activating(type)
       /\ open' = IF type = "MQTT" THEN [open EXCEPT ![type] = FALSE] ELSE open
       /\ refused' = refused \cup {type}
       /\ UNCHANGED built \/ (type = "HTTP" /\ Builds)
  /\ UNCHANGED engines

Activated ==
  /\ stage = "activating" /\ at > Len(Types)
  /\ stage' = "active" /\ at' = 1
  /\ UNCHANGED <<configVars, engineVars, channelVars, historyVars>>

--------------------------------------------------------------------------------
(* deactivate(): engines that are active are deactivated *)

\* MqttClient.isClosed returns whether the client is connected.
IsClosed(type) == IF type = "MQTT" THEN open[type] ELSE ~open[type]
IsActive(type) == ~IsClosed(type)

\* Mutant: isActive is negated.
DeactivateInactive ==
  /\ stage \in {"active", "on"}
  /\ stage' = "off"
  /\ open' = [t \in EmoncmsType |-> open[t] /\ (t \in Range(engines) => IsActive(t))]
  /\ UNCHANGED <<configVars, at, engines, built, cached, channelVars, historyVars>>

\* SqlEngine has no deactivate(), and keeps its pool.
Deactivate ==
  /\ stage \in {"active", "on"}
  /\ stage' = "off"
  /\ open' = [t \in EmoncmsType |->
                open[t] /\ ~(t \in Range(engines) \ {"SQL"} /\ IsActive(t))]
  /\ UNCHANGED <<configVars, at, engines, built, cached, channelVars, historyVars>>

--------------------------------------------------------------------------------
(* EngineCollection *)

\* newChannel makes an HttpChannel if the engine option is missing.
Class(opt, c) == IF opt[c] = None THEN "HTTP" ELSE opt[c]

\* Mutant: an engine that is not active any more is passed over.
RouteActive(eng, c) ==
  IF eng[c] \in Range(engines) /\ open[eng[c]] THEN eng[c] ELSE engines[1]

\* The engine of the channel if it is active, else the first one.
Route(eng, c) == IF eng[c] \in Range(engines) THEN eng[c] ELSE engines[1]

\* SqlChannel.configure rejects a channel without ids once the cache is up.  What
\* the method lookup of OpenMUC does with an engine of another type is open.
Rejected(opt, c, type) ==
  /\ Class(opt, c) = "SQL"
  /\ type = "SQL" => cached /\ c \notin WithIds

\* Mutant: a channel joins the first collection there is.
GroupedFirst(groups, c, type) ==
  IF groups # <<>> THEN [groups EXCEPT ![1].channels = @ \cup {c}]
                   ELSE <<[engine |-> type, channels |-> {c}]>>

\* A channel that is accepted joins the collection of its engine's type.
Grouped(groups, c, type) ==
  IF \E i \in DOMAIN groups : groups[i].engine = type
  THEN [i \in DOMAIN groups |->
          IF groups[i].engine = type THEN [groups[i] EXCEPT !.channels = @ \cup {c}]
                                     ELSE groups[i]]
  ELSE Append(groups, [engine |-> type, channels |-> {c}])

\* The channels of a call join the collections one after the other.
Grouping(skipped, eng) ==
  FoldLeft(LAMBDA groups, c : IF c \in skipped THEN groups ELSE Grouped(groups, c, Route(eng, c)),
           <<>>, Channel)

\* A call that starts, with these options and the engine field of each channel.
\* EngineChannel.configure fills in the default after the engine was looked up.
Start(call, opt, eng) ==
  /\ at' = 1
  /\ UNCHANGED <<configVars, engineVars>>
  /\ handed' = Nowhere /\ delivered' = {} /\ refused' = {}
  /\ option' = opt
  /\ IF engines = <<>>
     THEN /\ engine' = eng /\ collections' = <<>> /\ UNCHANGED stage
     ELSE \E skipped \in SUBSET {c \in Id : Rejected(opt, c, Route(eng, c))} :
            /\ \A c \in Id : Rejected(opt, c, "SQL") /\ Route(eng, c) = "SQL" => c \in skipped
            /\ engine' = [c \in Id |-> IF eng[c] = None THEN DEFAULT ELSE eng[c]]
            /\ collections' = Grouping(skipped, eng)
            /\ stage' = call

\* The data manager makes new channels, and configures them before it writes.
StartConfigure(opt) ==
  /\ stage \in {"active", "on"}
  /\ configured' = Nowhere
  /\ Start("configure", opt, opt)

StartWrite ==
  /\ stage = "on"
  /\ UNCHANGED configured
  /\ Start("write", option, engine)

--------------------------------------------------------------------------------
(* The loop over the collections *)

Current == collections[at]

Hand(call) ==
  /\ stage = call /\ at \in DOMAIN collections
  /\ at' = at + 1
  /\ handed' = [c \in Id |-> IF c \in Current.channels THEN Current.engine ELSE handed[c]]
  /\ UNCHANGED <<configVars, stage, engines, built, open, channelVars>>

ConfigureCollection ==
  /\ Hand("configure")
  /\ configured' = handed'
  /\ UNCHANGED <<cached, delivered, refused>>

\* A channel of another engine's class: a ClassCastException.
Foreign == \E c \in Current.channels : Class(option, c) # Current.engine

\* MqttClient.publish throws if the client takes itself for closed, and the client
\* of Paho below it does if it is not connected.
Publishes == ~IsClosed("MQTT") /\ open["MQTT"]
Takes(type) == IF type = "MQTT" THEN Publishes ELSE open[type]

\* The values are delivered.  Opening the MULTI connects to Redis.
WriteDelivers ==
  /\ Hand("write")
  /\ ~Foreign /\ Takes(Current.engine)
  /\ delivered' = delivered \cup Current.channels
  /\ cached' \in IF Current.engine = "SQL" THEN BOOLEAN ELSE {cached}
  /\ UNCHANGED <<configured, refused>>

\* Mutant: a failing engine ends the write.
WriteFailsEndsAll ==
  /\ stage = "write" /\ at \in DOMAIN collections
  /\ at' = Len(collections) + 1
  /\ refused' = refused \cup {Current.engine}
  /\ UNCHANGED <<configVars, stage, engineVars, channelVars, handed, configured, delivered>>

\* The server fails, possibly after some of the values.
WriteFails ==
  /\ Hand("write")
  /\ ~Foreign
  /\ \E some \in SUBSET Current.channels :
       delivered' = delivered \cup IF Takes(Current.engine) THEN some ELSE {}
  /\ refused' = refused \cup {Current.engine}
  /\ cached' \in IF Current.engine = "SQL" THEN BOOLEAN ELSE {cached}
  /\ UNCHANGED configured

\* A foreign channel breaks the loop of the engine.  HTTP and MQTT send nothing
\* before its end, SQL has inserted the rows of the channels before.
WriteBreaks ==
  /\ Hand("write")
  /\ Foreign
  /\ \E some \in SUBSET {c \in Current.channels : Class(option, c) = "SQL"} :
       delivered' = delivered \cup IF Current.engine = "SQL" THEN some ELSE {}
  /\ cached' \in IF Current.engine = "SQL" THEN BOOLEAN ELSE {cached}
  /\ UNCHANGED <<configured, refused>>

End ==
  /\ stage \in {"configure", "write"} /\ at > Len(collections)
  /\ stage' = "on" /\ at' = 1
  /\ UNCHANGED <<configVars, engineVars, channelVars, historyVars>>

MqttLost ==
  /\ open["MQTT"]
  /\ open' = [open EXCEPT !["MQTT"] = FALSE]
  /\ UNCHANGED <<configVars, stage, at, engines, built, cached, channelVars, historyVars>>

Next ==
  \/ \E sections \in SUBSET EmoncmsType, credentials \in BOOLEAN : Activate(sections, credentials)
  \/ SkipEngine \/ ActivateHttp \/ FailBuild \/ ActivateOther \/ FailEngine \/ Activated
  \/ Deactivate
  \/ \E opt \in [Id -> EmoncmsType \cup {None}] : StartConfigure(opt)
  \/ StartWrite
  \/ ConfigureCollection
  \/ WriteDelivers \/ WriteFails \/ WriteBreaks \/ End
  \/ MqttLost

Spec == Init /\ [][Next]_vars

--------------------------------------------------------------------------------
(* Properties *)

\* An engine that cannot be activated does not keep the others from it: once
\* activate() is done, every enabled engine is in the map or failed itself.
ActivationIsolated ==
  stage = "activating" /\ at > Len(Types) =>
    \A type \in enabled :
      type \in Range(engines) \cup refused \/ (type = "HTTP" /\ "build" \in refused)

\* Once the component is off, the HTTP connection of the address is closed,
\* however often the component was activated and with what failures.
DeactivatedIsClosed == stage = "off" => ~open["HTTP"]

Ended(call) == stage = call /\ at > Len(collections)

\* At the end of a call every channel whose own engine is active was handed to
\* that one, also when engines before it failed or were given foreign channels.
\* Only SQL channels without ids may be left out.
OwnEngineHanded ==
  \A c \in Id :
    /\ Ended("configure") \/ Ended("write")
    /\ option[c] \in Range(engines)
    /\ option[c] = "SQL" => c \in WithIds
    => handed[c] = option[c]

\* A write hands a channel to the engine that was configured with it.  The
\* exception is a channel without engine option: configure() looks its engine
\* up before the default is filled in, and write() afterwards.
WrittenWhereConfigured ==
  \A c \in Id :
    /\ Ended("write")
    /\ configured[c] # None /\ handed[c] # None
    /\ option[c] # None \/ DEFAULT \notin Range(engines) \/ DEFAULT = engines[1]
    => handed[c] = configured[c]

\* A value gets lost only if its engine failed, or if its collection had a
\* channel of another class: one whose own engine is not active, or one without
\* engine option.
LossIsExplained ==
  \A c \in Id :
    /\ Ended("write")
    /\ handed[c] \in {"HTTP", "SQL"} /\ handed[c] = Class(option, c)
    /\ handed[c] \notin refused
    /\ \A d \in Id : option[d] \in Range(engines)
    => c \in delivered

\* "Returns whether the Emoncms instance holds an open and valid connection ...
\* the connections closed state": an engine with an open connection is active.
OpenIsActive == stage = "active" => \A type \in Range(engines) : open[type] => IsActive(type)

\* "Builds and opens a HttpConnection instance": a build returns a connection.
BuildReturns == "build" \notin refused
================================================================================
