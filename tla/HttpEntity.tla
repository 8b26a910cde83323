-------------------------------- MODULE HttpEntity --------------------------------
(***************************************************************************)
(* HttpInput and HttpFeed: an object of the client that caches an input or *)
(* a feed of the emoncms server.                                           *)
(*                                                                         *)
(* Every method first sends a request and then changes the fields of the   *)
(* object.  The connection handles one request at a time, but the objects  *)
(* have no lock: with two threads the assignments may come in another      *)
(* order than the requests.  A request may be rejected, or processed while *)
(* its answer is lost, and other clients change the server meanwhile.      *)
(*                                                                         *)
(* The server is modelled from how the code uses it: a row has its name, a *)
(* configuration field, a process list and a latest value.  The name of an *)
(* input stands for its node and name, which no other input has.           *)
(***************************************************************************)

EXTENDS Naturals

CONSTANTS
  Thread,    \* the threads that use the object
  Name,      \* the names of inputs
  Content,   \* the contents of fields, process lists and values
  MaxRows,   \* bound: the rows the server ever has
  MaxCalls,  \* bound: the calls of methods, and the changes of other clients
  Null       \* no content

Row == 1 .. MaxRows
Attribute == {"field", "processes", "value"}

ASSUME RowAssumption == MaxRows \in Nat \ {0} /\ MaxCalls \in Nat

VARIABLES
  kind,    \* "input" or "feed": the class of the object
  object,  \* the fields of the object; the id is 0 if it is null
  rows,    \* the rows of the server, or Null
  made,    \* how many rows the server has made
  calls,   \* how many calls and foreign changes there were
  thread,  \* the call of each thread whose request is done
  last,    \* history: the call that has just returned
  held     \* history: what the attributes of the rows have held

vars == <<kind, object, rows, made, calls, thread, last, held>>

Entry == [{"name"} \cup Attribute -> Name \cup Content \cup {Null}]
List == [Row -> Entry \cup {Null}]

ASSUME NullAssumption == Null \notin Name \cup Content \cup Entry

Nothing == [a \in Attribute |-> Null]

Setters == {"setField", "setProcessList", "post"}
Idle == [op |-> "none", answer |-> Null, disturbed |-> FALSE]
NoCall == [op |-> "none", result |-> "none", disturbed |-> FALSE]

Shown == Content \cup {Null}
Object == [id : Row \cup {0}, name : Name, field : Shown, processes : Shown, value : Shown]
Call == [op : Setters \cup {"load", "none"}, answer : Content \cup List \cup {Null},
         disturbed : BOOLEAN]

TypeOK ==
  /\ kind \in {"input", "feed"}
  /\ object \in Object
  /\ rows \in List
  /\ made \in 0 .. MaxRows /\ calls \in 0 .. MaxCalls
  /\ thread \in [Thread -> Call]
  /\ \A t \in Thread :
       \/ thread[t] = Idle
       \/ thread[t].op \in Setters /\ thread[t].answer \in Content
       \/ thread[t].op = "load" /\ thread[t].answer \in List
  /\ last \in [op : Setters \cup {"load", "none"}, result : {"none", "ok", "failed"},
               disturbed : BOOLEAN]
  /\ held \subseteq Attribute \X Content

\* A row the server makes, with one attribute.
NewRow(name, a, content) ==
  [k \in {"name"} \cup Attribute |-> IF k = "name" THEN name ELSE IF k = a THEN content ELSE Null]

\* The server has a row.  The client has an object with a name, or of a feed with
\* the id, as connect() makes it.
Init ==
  /\ kind \in {"input", "feed"}
  /\ \E name, wanted \in Name, content \in Content :
       /\ rows = [r \in Row |-> IF r = 1 THEN NewRow(name, "field", content) ELSE Null]
       /\ object = [id |-> IF kind = "feed" THEN 1 ELSE 0, name |-> wanted,
                    field |-> Null, processes |-> Null, value |-> Null]
       /\ held = {<<"field", content>>}
  /\ made = 1 /\ calls = 0
  /\ thread = [t \in Thread |-> Idle]
  /\ last = NoCall

--------------------------------------------------------------------------------
(* The server *)

Exists(r) == r \in Row /\ rows[r] # Null
Named(name) == {r \in Row : rows[r] # Null /\ rows[r].name = name}

Kept == UNCHANGED <<rows, made, held>>

Store(r, a, content) ==
  /\ Exists(r)
  /\ rows' = [rows EXCEPT ![r][a] = content]
  /\ held' = IF content = Null THEN held ELSE held \cup {<<a, content>>}
  /\ UNCHANGED made

Removed(r) == Exists(r) /\ rows' = [rows EXCEPT ![r] = Null] /\ UNCHANGED <<made, held>>

\* input/post: an input that does not exist is made.
Posted(name, content) ==
  \/ \E r \in Named(name) : Store(r, "value", content)
  \/ /\ Named(name) = {} /\ made < MaxRows
     /\ made' = made + 1
     /\ rows' = [rows EXCEPT ![made + 1] = NewRow(name, "value", content)]
     /\ held' = held \cup {<<"value", content>>}

--------------------------------------------------------------------------------
(* A method: its request, and the assignments that follow *)

\* The other threads, whose calls are under way while this one is.
Disturbed(t) ==
  [u \in Thread \ {t} |-> IF thread[u] = Idle THEN Idle ELSE [thread[u] EXCEPT !.disturbed = TRUE]]

Count == calls < MaxCalls /\ calls' = calls + 1

\* The request of thread t is answered.
Answered(t, op, answer) ==
  /\ Count
  /\ thread' = [u \in Thread |->
       IF u = t THEN [op |-> op, answer |-> answer,
                      disturbed |-> \E v \in Thread \ {t} : thread[v] # Idle]
                ELSE Disturbed(t)[u]]
  /\ last' = NoCall
  /\ UNCHANGED <<kind, object>>

\* The request throws: rejected, or processed and its answer lost.
Failed(t, op) ==
  /\ Count
  /\ thread' = [u \in Thread |-> IF u = t THEN Idle ELSE Disturbed(t)[u]]
  /\ last' = [op |-> op, result |-> "failed", disturbed |-> TRUE]
  /\ UNCHANGED <<kind, object>>

Return(t) ==
  /\ thread' = [u \in Thread |-> IF u = t THEN Idle ELSE Disturbed(t)[u]]
  /\ last' = [op |-> thread[t].op, result |-> "ok", disturbed |-> thread[t].disturbed]
  /\ Kept /\ UNCHANGED <<kind, calls>>

\* Mutant: the exception of a request is swallowed.
SetSwallows(t, op, a, content) ==
  /\ thread[t] = Idle
  /\ Store(object.id, a, content) \/ Kept
  /\ Answered(t, op, content)

\* An attribute is set on the server.  setFields and setProcessList of an input
\* throw if its id is null.
Set(t, op, a, content) ==
  /\ thread[t] = Idle
  /\ \/ Store(object.id, a, content) /\ (Answered(t, op, content) \/ Failed(t, op))
     \/ Kept /\ Failed(t, op)

\* setDescription of an input; setName, setTag and setPublic of a feed.
SetField(t) == \E content \in Content : Set(t, "setField", "field", content)
SetProcessList(t) == \E content \in Content : Set(t, "setProcessList", "processes", content)

\* Only an input has post(), which needs no id.
Post(t) ==
  \E content \in Content :
    /\ kind = "input" /\ thread[t] = Idle
    /\ \/ Posted(object.name, content) /\ (Answered(t, "post", content) \/ Failed(t, "post"))
       \/ Kept /\ Failed(t, "post")

\* Mutant: a post is stored as the new name of the input.
AttributeOfAny(op) == IF op = "post" THEN "name" ELSE "field"

AttributeOf(op) == CASE op = "setField" -> "field"
                     [] op = "setProcessList" -> "processes"
                     [] op = "post" -> "value"

\* Mutant: the server is set, but not the field of the object.
AssignNothing(t) ==
  /\ thread[t].op \in Setters
  /\ UNCHANGED object
  /\ Return(t)

Assign(t) ==
  /\ thread[t].op \in Setters
  /\ object' = [object EXCEPT ![AttributeOf(thread[t].op)] = thread[t].answer]
  /\ Return(t)

\* Methods that change the server and assign nothing: setFields, resetProcessList,
\* insertData of a feed, and delete.  Other clients do the same, rename inputs
\* and post to new ones.
Elsewhere ==
  /\ Count
  /\ \/ \E r \in Row, a \in {"field", "processes"}, content \in Content \cup {Null} :
          Store(r, a, content)
     \/ \E r \in Row : Removed(r)
     \/ kind = "feed" /\ \E content \in Content : Store(1, "value", content)
     \/ kind = "input" /\ \E name \in Name, content \in Content : Posted(name, content)
     \/ /\ kind = "input"
        /\ \E r \in Row, name \in Name :
             Exists(r) /\ Named(name) = {} /\ rows' = [rows EXCEPT ![r].name = name]
        /\ UNCHANGED <<made, held>>
  /\ thread' = [u \in Thread |-> IF thread[u] = Idle THEN Idle
                                 ELSE [thread[u] EXCEPT !.disturbed = TRUE]]
  /\ last' = NoCall
  /\ UNCHANGED <<kind, object>>

--------------------------------------------------------------------------------
(* load() and clear() *)

\* A list is read, or the row of a feed: without it the answer is no feed, and
\* load() throws.
Load(t) ==
  /\ thread[t] = Idle /\ Kept
  /\ \/ (kind = "feed" => Exists(object.id)) /\ Answered(t, "load", rows)
     \/ Failed(t, "load")

Loading(t, class) == kind = class /\ thread[t].op = "load" /\ Return(t)

\* Mutant: an input found by its name keeps the id it had.
MatchKeepsId(list, r) ==
  [k \in DOMAIN object |-> IF k = "id" THEN object.id ELSE list[r][k]]

\* All fields are those of the row; of id and name one was so before.
Match(list, r) == [k \in DOMAIN object |-> IF k = "id" THEN r ELSE list[r][k]]

\* The loop over the list, which is in the order of ids, takes the first row that
\* has the id of the object or its name.
LoadInput(t) ==
  /\ Loading(t, "input")
  /\ LET list == thread[t].answer
         found == {r \in Row : list[r] # Null /\ (r = object.id \/ list[r].name = object.name)}
     IN IF found = {} THEN UNCHANGED object
        ELSE \E r \in found : (\A q \in found : r <= q) /\ object' = Match(list, r)

\* The process list is not assigned, nor is a value the server does not have.
LoadFeed(t) ==
  /\ Loading(t, "feed")
  /\ LET row == thread[t].answer[object.id]
     IN object' = [object EXCEPT !.field = row.field,
                                 !.value = IF row.value = Null THEN @ ELSE row.value]

Clear ==
  /\ Count
  /\ object' = [k \in DOMAIN object |-> IF k \in Attribute THEN Null ELSE object[k]]
  /\ thread' = [u \in Thread |-> IF thread[u] = Idle THEN Idle
                                 ELSE [thread[u] EXCEPT !.disturbed = TRUE]]
  /\ last' = NoCall
  /\ Kept /\ UNCHANGED kind

Next ==
  \/ \E t \in Thread :
       \/ SetField(t) \/ SetProcessList(t) \/ Post(t) \/ Assign(t)
       \/ Load(t) \/ LoadInput(t) \/ LoadFeed(t)
  \/ Clear
  \/ Elsewhere

Spec == Init /\ [][Next]_vars

--------------------------------------------------------------------------------
(* Properties *)

\* The object never shows a content its attribute has not had on the server:
\* whatever requests failed, and in whatever order two threads assign.
NeverAhead == \A a \in Attribute : object[a] = Null \/ <<a, object[a]>> \in held

Undisturbed(op) == last.op = op /\ last.result = "ok" /\ ~last.disturbed

\* A setter that returns, and that no other call met, leaves the object in step
\* with its row; a post leaves it in step with the row that has its name, also
\* when the object has no id or that of a row that was deleted.
SetterReturnsCurrent ==
  /\ \A op \in {"setField", "setProcessList"} :
       Undisturbed(op) => /\ Exists(object.id)
                          /\ object[AttributeOf(op)] = rows[object.id][AttributeOf(op)]
  /\ Undisturbed("post") => \E r \in Named(object.name) : rows[r].value = object.value

\* A load of an input that returns, and that no other call met, gives the input an
\* id if the server has one for its name, and every attribute of that row, after
\* renames, deletions and new inputs of the same name.
InputLoadIsCurrent ==
  kind = "input" /\ Undisturbed("load") =>
    /\ Named(object.name) # {} => Exists(object.id)
    /\ Exists(object.id) =>
         \A k \in DOMAIN object \ {"id"} : object[k] = rows[object.id][k]

\* "Current values for all fields can be retrieved by calling load()", as the class
\* comment of HttpFeed says: after a load of a feed that returns, and that no other
\* call met, every attribute is that of the row.
FeedLoadIsCurrent ==
  kind = "feed" /\ Undisturbed("load") =>
    \A a \in Attribute : object[a] = rows[object.id][a]
================================================================================
