---------------------------- MODULE HttpEntityProofs ----------------------------
(***************************************************************************)
(* Safety of HttpEntity for any number of threads, names, contents, rows   *)
(* and calls.                                                              *)
(***************************************************************************)

EXTENDS HttpEntity, TLAPS

\* All attributes of an entry are among those a history holds.
HeldEntry(entry, history) ==
  /\ entry.name \in Name
  /\ \A a \in Attribute : entry[a] = Null \/ <<a, entry[a]>> \in history

HeldList(list, history) == \A r \in Row : list[r] # Null => HeldEntry(list[r], history)

\* What the server has at present was held.
ServerInv ==
  /\ rows \in List /\ made \in 0 .. MaxRows /\ held \subseteq Attribute \X Content
  /\ HeldList(rows, held)

\* What the call of a thread holds, and that the server held it.
CallTyped(call) ==
  \/ call = Idle
  \/ call.op \in Setters /\ call.answer \in Content
  \/ call.op = "load" /\ call.answer \in List

CallHeld(call, history) ==
  /\ call.op \in Setters => <<AttributeOf(call.op), call.answer>> \in history
  /\ call.op = "load" => HeldList(call.answer, history)
  /\ call.op = "load" /\ kind = "feed" => call.answer[1] # Null

AnswerInv == \A t \in Thread : CallHeld(thread[t], held)

\* A feed has the id it was made with.
FeedInv == kind = "feed" => object.id = 1

\* As long as nobody else was under way, what a thread is about to assign is
\* what the server has.
CallCurrent(call) ==
  ~call.disturbed =>
    /\ call.op \in {"setField", "setProcessList"} =>
         Exists(object.id) /\ rows[object.id][AttributeOf(call.op)] = call.answer
    /\ call.op = "post" => \E r \in Named(object.name) : rows[r].value = call.answer
    /\ call.op = "load" => call.answer = rows

CurrentInv == \A t \in Thread : CallCurrent(thread[t])

IInv ==
  /\ TypeOK /\ ServerInv /\ AnswerInv /\ FeedInv /\ CurrentInv
  /\ NeverAhead /\ SetterReturnsCurrent /\ InputLoadIsCurrent

--------------------------------------------------------------------------------
(* The server *)

\* An entry is not Null, and neither is a row the server makes.
LEMMA EntryFacts ==
  /\ Null \notin Name /\ Null \notin Content
  /\ \A entry \in Entry : entry # Null
  /\ 1 \in Row /\ MaxRows \in Nat /\ MaxCalls \in Nat
  /\ \A name \in Name, a \in Attribute, content \in Content :
       /\ NewRow(name, a, content) \in Entry
       /\ NewRow(name, a, content).name = name
       /\ \A b \in Attribute :
            NewRow(name, a, content)[b] = IF b = a THEN content ELSE Null
<1>1. Null \notin Name /\ Null \notin Content /\ \A entry \in Entry : entry # Null
  BY NullAssumption
<1>2. 1 \in Row /\ MaxRows \in Nat /\ MaxCalls \in Nat
  BY RowAssumption DEF Row
<1>3. ASSUME NEW name \in Name, NEW a \in Attribute, NEW content \in Content
      PROVE  /\ NewRow(name, a, content) \in Entry
             /\ NewRow(name, a, content).name = name
             /\ \A b \in Attribute : NewRow(name, a, content)[b] = IF b = a THEN content ELSE Null
  BY DEF NewRow, Entry, Attribute
<1>4. QED BY <1>1, <1>2, <1>3

\* An attribute of a row is set to a content, or to nothing.
LEMMA StoreEffect ==
  ASSUME ServerInv, NEW r, NEW a \in Attribute, NEW content \in Shown, Store(r, a, content)
  PROVE  /\ ServerInv' /\ held \subseteq held'
         /\ r \in Row /\ rows'[r] # Null /\ rows'[r].name = rows[r].name
         /\ rows'[r][a] = content
         /\ content # Null => <<a, content>> \in held'
<1>1. /\ r \in Row /\ rows[r] \in Entry /\ rows \in [Row -> Entry \cup {Null}]
      /\ HeldEntry(rows[r], held)
  BY DEF Store, Exists, ServerInv, List, HeldList
<1>2. rows' = [rows EXCEPT ![r] = [rows[r] EXCEPT ![a] = content]] /\ made' = made
  BY DEF Store
<1>3. PICK entry : entry = [rows[r] EXCEPT ![a] = content]
  OBVIOUS
<1>4. /\ entry \in Entry /\ entry.name = rows[r].name /\ entry[a] = content
      /\ \A b \in Attribute : b # a => entry[b] = rows[r][b]
  BY <1>1, <1>3 DEF Entry, Attribute, Shown
<1>5. held \subseteq held' /\ held' \subseteq Attribute \X Content
      /\ (content # Null => <<a, content>> \in held')
  BY DEF Store, Shown, ServerInv
<1>6. rows'[r] = entry /\ rows' \in List /\ \A q \in Row : q # r => rows'[q] = rows[q]
  BY <1>1, <1>2, <1>3, <1>4 DEF List
<1>7. HeldEntry(entry, held')
  BY <1>1, <1>4, <1>5 DEF HeldEntry
<1>8. HeldList(rows', held')
  <2>1. HeldList(rows, held)
    BY DEF ServerInv
  <2>2. ASSUME NEW q \in Row, rows'[q] # Null PROVE HeldEntry(rows'[q], held')
    <3>1. CASE q = r
      BY <3>1, <1>6, <1>7
    <3>2. CASE q # r
      <4>1. rows'[q] = rows[q]
        BY <3>2, <1>6
      <4>2. HeldEntry(rows[q], held)
        BY <4>1, <2>1, <2>2 DEF HeldList
      <4>3. QED BY <4>1, <4>2, <1>5 DEF HeldEntry
    <3>3. QED BY <3>1, <3>2
  <2>3. QED BY <2>2 DEF HeldList
<1>9. ServerInv'
  BY <1>2, <1>5, <1>6, <1>8 DEF ServerInv
<1>10. entry # Null
  BY <1>4, NullAssumption
<1>11. QED BY <1>1, <1>4, <1>5, <1>6, <1>9, <1>10

\* A row is made with an attribute set.
LEMMA MadeEffect ==
  ASSUME ServerInv, NEW name \in Name, NEW content \in Content, made < MaxRows, made' = made + 1,
         rows' = [rows EXCEPT ![made + 1] = NewRow(name, "value", content)],
         held' = held \cup {<<"value", content>>}
  PROVE  /\ ServerInv' /\ made + 1 \in Row /\ rows'[made + 1] # Null
         /\ rows'[made + 1].name = name /\ rows'[made + 1].value = content
<1>1. /\ made + 1 \in Row /\ made' \in 0 .. MaxRows /\ rows \in [Row -> Entry \cup {Null}]
  BY RowAssumption DEF ServerInv, Row, List
<1>2. PICK entry : entry = NewRow(name, "value", content)
  OBVIOUS
<1>3. /\ entry \in Entry /\ entry # Null /\ entry.name = name
      /\ \A b \in Attribute : entry[b] = IF b = "value" THEN content ELSE Null
  BY <1>2, EntryFacts DEF Attribute
<1>4. /\ rows' \in List /\ rows'[made + 1] = entry
      /\ \A q \in Row : q # made + 1 => rows'[q] = rows[q]
  BY <1>1, <1>2, <1>3 DEF List
<1>5. /\ held \subseteq held' /\ held' \subseteq Attribute \X Content
      /\ <<"value", content>> \in held'
  BY DEF ServerInv, Attribute
<1>6. HeldEntry(entry, held')
  BY <1>3, <1>5 DEF HeldEntry
<1>7. HeldList(rows', held')
  <2>1. HeldList(rows, held)
    BY DEF ServerInv
  <2>2. ASSUME NEW q \in Row, rows'[q] # Null PROVE HeldEntry(rows'[q], held')
    <3>1. CASE q = made + 1
      BY <3>1, <1>4, <1>6
    <3>2. CASE q # made + 1
      <4>1. rows'[q] = rows[q]
        BY <3>2, <1>4
      <4>2. HeldEntry(rows[q], held)
        BY <4>1, <2>1, <2>2 DEF HeldList
      <4>3. QED BY <4>1, <4>2, <1>5 DEF HeldEntry
    <3>3. QED BY <3>1, <3>2
  <2>3. QED BY <2>2 DEF HeldList
<1>8. ServerInv'
  BY <1>1, <1>4, <1>5, <1>7 DEF ServerInv
<1>9. QED BY <1>1, <1>3, <1>4, <1>8 DEF Attribute

\* After a post there is a row of the name with the value.
LEMMA PostedEffect ==
  ASSUME ServerInv, NEW name \in Name, NEW content \in Content, Posted(name, content)
  PROVE  /\ ServerInv' /\ held \subseteq held' /\ <<"value", content>> \in held'
         /\ \E r \in Named(name)' : rows'[r].value = content
<1>1. CASE \E r \in Named(name) : Store(r, "value", content)
  <2>1. PICK r \in Named(name) : Store(r, "value", content)
    BY <1>1
  <2>2. /\ ServerInv' /\ held \subseteq held' /\ r \in Row /\ rows'[r] # Null
        /\ rows'[r].name = rows[r].name /\ rows'[r]["value"] = content
        /\ <<"value", content>> \in held'
    BY <2>1, StoreEffect, EntryFacts DEF Attribute, Shown
  <2>3. rows[r].name = name
    BY <2>1 DEF Named
  <2>4. QED BY <2>2, <2>3 DEF Named
<1>2. CASE /\ Named(name) = {} /\ made < MaxRows
           /\ made' = made + 1
           /\ rows' = [rows EXCEPT ![made + 1] = NewRow(name, "value", content)]
           /\ held' = held \cup {<<"value", content>>}
  <2>1. /\ ServerInv' /\ made + 1 \in Row /\ rows'[made + 1] # Null
        /\ rows'[made + 1].name = name /\ rows'[made + 1].value = content
    BY <1>2, MadeEffect
  <2>2. QED BY <1>2, <2>1 DEF Named
<1>3. QED BY <1>1, <1>2 DEF Posted

\* A row is removed.
LEMMA RemovedEffect ==
  ASSUME ServerInv, NEW r \in Row, Removed(r)
  PROVE  ServerInv' /\ held' = held
<1>1. /\ rows \in [Row -> Entry \cup {Null}] /\ rows' = [rows EXCEPT ![r] = Null]
      /\ made' = made /\ held' = held
  BY DEF ServerInv, List, Removed
<1>2. rows' \in List /\ \A q \in Row : rows'[q] = Null \/ rows'[q] = rows[q]
  BY <1>1 DEF List
<1>3. HeldList(rows', held)
  BY <1>2 DEF HeldList, ServerInv
<1>4. QED BY <1>1, <1>2, <1>3 DEF ServerInv

\* An input is renamed.
LEMMA RenamedEffect ==
  ASSUME ServerInv, NEW r \in Row, NEW name \in Name, Exists(r),
         rows' = [rows EXCEPT ![r].name = name], UNCHANGED <<made, held>>
  PROVE  ServerInv'
<1>1. /\ rows \in [Row -> Entry \cup {Null}] /\ rows[r] \in Entry /\ HeldEntry(rows[r], held)
      /\ rows' = [rows EXCEPT ![r] = [rows[r] EXCEPT !.name = name]]
  BY DEF ServerInv, List, Exists, HeldList
<1>2. PICK entry : entry = [rows[r] EXCEPT !.name = name]
  OBVIOUS
<1>3. entry \in Entry /\ entry.name = name /\ \A b \in Attribute : entry[b] = rows[r][b]
  BY <1>1, <1>2 DEF Entry, Attribute
<1>4. rows' \in List /\ rows'[r] = entry /\ \A q \in Row : q # r => rows'[q] = rows[q]
  BY <1>1, <1>2, <1>3 DEF List
<1>5. HeldEntry(entry, held)
  BY <1>1, <1>3 DEF HeldEntry
<1>6. HeldList(rows', held)
  <2>1. ASSUME NEW q \in Row, rows'[q] # Null PROVE HeldEntry(rows'[q], held)
    <3>1. CASE q = r
      BY <3>1, <1>4, <1>5
    <3>2. CASE q # r
      BY <3>2, <2>1, <1>4 DEF ServerInv, HeldList
    <3>3. QED BY <3>1, <3>2
  <2>2. QED BY <2>1 DEF HeldList
<1>7. QED BY <1>4, <1>6 DEF ServerInv

--------------------------------------------------------------------------------
(* The calls of the threads *)

\* A call under way that another one meets keeps what it is about to assign.
LEMMA DisturbedCall ==
  ASSUME IInv, NEW u \in Thread, UNCHANGED kind, held \subseteq held',
         thread'[u] = IF thread[u] = Idle THEN Idle ELSE [thread[u] EXCEPT !.disturbed = TRUE]
  PROVE  /\ thread'[u] \in Call /\ CallTyped(thread'[u])
         /\ CallHeld(thread[u], held)' /\ CallCurrent(thread[u])'
<1>1. /\ thread[u] \in Call /\ CallTyped(thread[u]) /\ CallHeld(thread[u], held)
  BY DEF IInv, TypeOK, AnswerInv, CallTyped
<1>2. CASE thread[u] = Idle
  <2>1. thread'[u] = Idle /\ Idle \in Call
    BY <1>2 DEF Idle, Call
  <2>2. Idle.op \notin Setters /\ Idle.op # "load"
    BY DEF Idle, Setters
  <2>3. QED BY <2>1, <2>2 DEF CallTyped, CallHeld, CallCurrent, Setters
<1>3. CASE thread[u] # Idle
  <2>1. thread'[u] = [thread[u] EXCEPT !.disturbed = TRUE]
    BY <1>3
  <2>2. /\ thread'[u] \in Call /\ thread'[u].op = thread[u].op
        /\ thread'[u].answer = thread[u].answer /\ thread'[u].disturbed = TRUE
    BY <2>1, <1>1 DEF Call
  <2>3. CallTyped(thread'[u])
    BY <1>1, <1>3, <2>2 DEF CallTyped
  <2>4. CallHeld(thread[u], held)'
    BY <1>1, <2>2 DEF CallHeld, HeldList, HeldEntry
  <2>5. CallCurrent(thread[u])'
    BY <2>2 DEF CallCurrent
  <2>6. QED BY <2>2, <2>3, <2>4, <2>5
<1>4. QED BY <1>2, <1>3

\* A step of thread t meets the calls of all others.
LEMMA OthersDisturbed ==
  ASSUME IInv, NEW t \in Thread, NEW call \in Call, UNCHANGED kind, held \subseteq held',
         thread' = [u \in Thread |-> IF u = t THEN call ELSE Disturbed(t)[u]],
         CallTyped(call), CallHeld(thread[t], held)', CallCurrent(thread[t])'
  PROVE  /\ thread' \in [Thread -> Call] /\ \A u \in Thread : CallTyped(thread'[u])
         /\ AnswerInv' /\ CurrentInv'
<1>1. ASSUME NEW u \in Thread
      PROVE  /\ thread'[u] \in Call /\ CallTyped(thread'[u])
             /\ CallHeld(thread[u], held)' /\ CallCurrent(thread[u])'
  <2>1. CASE u = t
    BY <2>1
  <2>2. CASE u # t
    <3>1. thread'[u] = IF thread[u] = Idle THEN Idle ELSE [thread[u] EXCEPT !.disturbed = TRUE]
      BY <2>2 DEF Disturbed
    <3>2. QED BY <3>1, DisturbedCall
  <2>3. QED BY <2>1, <2>2
<1>2. thread' \in [Thread -> Call]
  BY <1>1
<1>3. QED BY <1>1, <1>2 DEF AnswerInv, CurrentInv

\* A step of nobody among the threads meets them all.
LEMMA AllDisturbed ==
  ASSUME IInv, UNCHANGED kind, held \subseteq held',
         thread' = [u \in Thread |-> IF thread[u] = Idle THEN Idle
                                     ELSE [thread[u] EXCEPT !.disturbed = TRUE]]
  PROVE  /\ thread' \in [Thread -> Call] /\ \A u \in Thread : CallTyped(thread'[u])
         /\ AnswerInv' /\ CurrentInv'
<1>1. ASSUME NEW u \in Thread
      PROVE  /\ thread'[u] \in Call /\ CallTyped(thread'[u])
             /\ CallHeld(thread[u], held)' /\ CallCurrent(thread[u])'
  BY DisturbedCall
<1>2. thread' \in [Thread -> Call]
  BY <1>1
<1>3. QED BY <1>1, <1>2 DEF AnswerInv, CurrentInv

\* The object stays as it is, and no method returns.
LEMMA NothingReturns ==
  ASSUME IInv, Count, UNCHANGED <<kind, object>>, ServerInv', held \subseteq held',
         thread' \in [Thread -> Call], \A u \in Thread : CallTyped(thread'[u]),
         AnswerInv', CurrentInv', last'.result # "ok",
         last' \in [op : Setters \cup {"load", "none"}, result : {"none", "ok", "failed"},
                    disturbed : BOOLEAN]
  PROVE  IInv'
<1>1. calls' \in 0 .. MaxCalls
  BY RowAssumption DEF Count, IInv, TypeOK
<1>2. TypeOK'
  BY <1>1 DEF TypeOK, IInv, ServerInv, CallTyped
<1>3. NeverAhead' /\ FeedInv'
  BY DEF IInv, NeverAhead, FeedInv
<1>4. SetterReturnsCurrent' /\ InputLoadIsCurrent'
  BY DEF SetterReturnsCurrent, InputLoadIsCurrent, Undisturbed
<1>5. QED BY <1>2, <1>3, <1>4 DEF IInv

\* A request is answered: what it leads to was held, and is what the server has.
LEMMA AnsweredStep ==
  ASSUME IInv, NEW t \in Thread, NEW op, NEW answer, Answered(t, op, answer),
         ServerInv', held \subseteq held',
         \/ op \in Setters /\ answer \in Content /\ <<AttributeOf(op), answer>> \in held'
         \/ /\ op = "load" /\ answer \in List /\ HeldList(answer, held') /\ answer = rows'
            /\ kind = "feed" => answer[1] # Null,
         op \in {"setField", "setProcessList"} =>
           Exists(object.id)' /\ rows'[object'.id][AttributeOf(op)] = answer,
         op = "post" => \E r \in Named(object.name)' : rows'[r].value = answer
  PROVE  IInv'
<1>1. PICK flag \in BOOLEAN : flag = \E v \in Thread \ {t} : thread[v] # Idle
  OBVIOUS
<1>2. PICK call : call = [op |-> op, answer |-> answer, disturbed |-> flag]
  OBVIOUS
<1>3. /\ call \in Call /\ call.op = op /\ call.answer = answer /\ CallTyped(call)
  BY <1>2 DEF Call, CallTyped
<1>4. /\ thread' = [u \in Thread |-> IF u = t THEN call ELSE Disturbed(t)[u]]
      /\ Count /\ last' = NoCall /\ kind' = kind /\ object' = object
  BY <1>1, <1>2 DEF Answered
<1>5. thread'[t] = call
  BY <1>4
<1>6. CallHeld(thread[t], held)'
  BY <1>3, <1>4, <1>5 DEF CallHeld, Setters
<1>7. CallCurrent(thread[t])'
  BY <1>3, <1>4, <1>5 DEF CallCurrent, Setters
<1>8. /\ thread' \in [Thread -> Call] /\ \A u \in Thread : CallTyped(thread'[u])
      /\ AnswerInv' /\ CurrentInv'
  BY <1>3, <1>4, <1>6, <1>7, OthersDisturbed
<1>9. last' \in [op : Setters \cup {"load", "none"}, result : {"none", "ok", "failed"},
                 disturbed : BOOLEAN] /\ last'.result # "ok"
  BY <1>4 DEF NoCall
<1>10. QED BY <1>4, <1>8, <1>9, NothingReturns

\* A request fails: the thread is done.
LEMMA FailedStep ==
  ASSUME IInv, NEW t \in Thread, NEW op \in Setters \cup {"load"}, Failed(t, op),
         ServerInv', held \subseteq held'
  PROVE  IInv'
<1>1. /\ thread' = [u \in Thread |-> IF u = t THEN Idle ELSE Disturbed(t)[u]]
      /\ Count /\ kind' = kind /\ object' = object
  BY DEF Failed
<1>2. Idle \in Call /\ Idle.op = "none" /\ thread'[t] = Idle /\ CallTyped(Idle)
  BY <1>1 DEF Idle, Call, CallTyped
<1>3. CallHeld(thread[t], held)' /\ CallCurrent(thread[t])'
  BY <1>2 DEF CallHeld, CallCurrent, Setters
<1>4. /\ thread' \in [Thread -> Call] /\ \A u \in Thread : CallTyped(thread'[u])
      /\ AnswerInv' /\ CurrentInv'
  BY <1>1, <1>2, <1>3, OthersDisturbed
<1>5. last' \in [op : Setters \cup {"load", "none"}, result : {"none", "ok", "failed"},
                 disturbed : BOOLEAN] /\ last'.result # "ok"
  BY DEF Failed
<1>6. QED BY <1>1, <1>4, <1>5, NothingReturns

--------------------------------------------------------------------------------
(* The steps *)

\* What does not touch the server.
LEMMA KeptEffect ==
  ASSUME IInv, Kept
  PROVE  ServerInv' /\ held' = held /\ rows' = rows
BY DEF Kept, IInv, ServerInv, HeldList, HeldEntry

\* An attribute is set.
LEMMA SetStep ==
  ASSUME IInv, NEW t \in Thread, NEW op \in {"setField", "setProcessList"},
         NEW content \in Content, Set(t, op, AttributeOf(op), content)
  PROVE  IInv'
<1>1. op \in Setters /\ op # "post" /\ AttributeOf(op) \in Attribute /\ content \in Shown
  BY DEF Setters, AttributeOf, Attribute, Shown
<1>2. CASE Store(object.id, AttributeOf(op), content)
  <2>1. /\ ServerInv' /\ held \subseteq held' /\ object.id \in Row
        /\ rows'[object.id] # Null /\ rows'[object.id][AttributeOf(op)] = content
        /\ <<AttributeOf(op), content>> \in held'
    <3>1. ServerInv /\ content # Null
      BY EntryFacts DEF IInv
    <3>2. PICK r, a : r = object.id /\ a = AttributeOf(op)
      OBVIOUS
    <3>3. a \in Attribute /\ content \in Shown /\ Store(r, a, content)
      BY <1>1, <1>2, <3>2
    <3>4. /\ ServerInv' /\ held \subseteq held' /\ r \in Row
          /\ rows'[r] # Null /\ rows'[r][a] = content /\ <<a, content>> \in held'
      BY <3>1, <3>3, StoreEffect
    <3>5. QED BY <3>2, <3>4
  <2>2. CASE Answered(t, op, content)
    <3>1. object' = object
      BY <2>2 DEF Answered
    <3>2. Exists(object.id)' /\ rows'[object'.id][AttributeOf(op)] = content
      BY <2>1, <3>1 DEF Exists
    <3>3. QED BY <1>1, <2>1, <2>2, <3>2, AnsweredStep
  <2>3. CASE Failed(t, op)
    BY <1>1, <2>1, <2>3, FailedStep
  <2>4. QED BY <1>2, <2>2, <2>3 DEF Set, Store, Kept, Failed, Answered
<1>3. CASE Kept /\ Failed(t, op)
  BY <1>1, <1>3, KeptEffect, FailedStep
<1>4. QED BY <1>2, <1>3 DEF Set

\* A value is posted.
LEMMA PostStep ==
  ASSUME IInv, NEW t \in Thread, Post(t)
  PROVE  IInv'
<1>1. PICK content \in Content :
        \/ Posted(object.name, content) /\ (Answered(t, "post", content) \/ Failed(t, "post"))
        \/ Kept /\ Failed(t, "post")
  BY DEF Post
<1>2. object.name \in Name /\ "post" \in Setters /\ AttributeOf("post") = "value"
  BY DEF IInv, TypeOK, Object, Setters, AttributeOf
<1>3. CASE Posted(object.name, content)
  <2>1. /\ ServerInv' /\ held \subseteq held' /\ <<"value", content>> \in held'
        /\ \E r \in Named(object.name)' : rows'[r].value = content
    <3>1. PICK name \in Name : name = object.name
      BY <1>2
    <3>2. /\ ServerInv' /\ held \subseteq held' /\ <<"value", content>> \in held'
          /\ \E r \in Named(name)' : rows'[r].value = content
      BY <1>3, <3>1, PostedEffect DEF IInv
    <3>3. object' = object
      BY <1>1 DEF Answered, Failed
    <3>4. QED BY <3>1, <3>2, <3>3 DEF Named
  <2>2. CASE Answered(t, "post", content)
    BY <1>2, <2>1, <2>2, AnsweredStep
  <2>3. CASE Failed(t, "post")
    BY <1>2, <2>1, <2>3, FailedStep
  <2>4. QED BY <1>1, <2>2, <2>3
<1>4. CASE Kept /\ Failed(t, "post")
  BY <1>2, <1>4, KeptEffect, FailedStep
<1>5. QED BY <1>1, <1>3, <1>4

\* A list or a row is read.
LEMMA LoadStep ==
  ASSUME IInv, NEW t \in Thread, Load(t)
  PROVE  IInv'
<1>1. ServerInv' /\ held' = held /\ rows' = rows
  BY KeptEffect DEF Load
<1>2. CASE (kind = "feed" => Exists(object.id)) /\ Answered(t, "load", rows)
  <2>1. rows \in List /\ HeldList(rows, held') /\ rows = rows'
    BY <1>1 DEF IInv, ServerInv
  <2>2. kind = "feed" => rows[1] # Null
    BY <1>2 DEF IInv, FeedInv, Exists
  <2>3. "load" \notin {"setField", "setProcessList"} /\ "load" # "post"
    OBVIOUS
  <2>4. QED BY <1>1, <1>2, <2>1, <2>2, <2>3, AnsweredStep
<1>3. CASE Failed(t, "load")
  BY <1>1, <1>3, FailedStep
<1>4. QED BY <1>2, <1>3 DEF Load

\* When a method returns, the calls of the others are disturbed by it.
LEMMA ReturnEffect ==
  ASSUME IInv, NEW t \in Thread, Return(t)
  PROVE  /\ ServerInv' /\ held' = held /\ rows' = rows /\ kind' = kind /\ calls' = calls
         /\ thread' \in [Thread -> Call] /\ \A u \in Thread : CallTyped(thread'[u])
         /\ AnswerInv' /\ CurrentInv'
         /\ last' = [op |-> thread[t].op, result |-> "ok", disturbed |-> thread[t].disturbed]
         /\ last' \in [op : Setters \cup {"load", "none"}, result : {"none", "ok", "failed"},
                       disturbed : BOOLEAN]
<1>1. ServerInv' /\ held' = held /\ rows' = rows
  BY KeptEffect DEF Return
<1>2. /\ thread' = [u \in Thread |-> IF u = t THEN Idle ELSE Disturbed(t)[u]]
      /\ kind' = kind /\ calls' = calls
      /\ last' = [op |-> thread[t].op, result |-> "ok", disturbed |-> thread[t].disturbed]
  BY DEF Return
<1>3. Idle \in Call /\ Idle.op = "none" /\ thread'[t] = Idle /\ CallTyped(Idle)
  BY <1>2 DEF Idle, Call, CallTyped
<1>4. CallHeld(thread[t], held)' /\ CallCurrent(thread[t])'
  BY <1>3 DEF CallHeld, CallCurrent, Setters
<1>5. /\ thread' \in [Thread -> Call] /\ \A u \in Thread : CallTyped(thread'[u])
      /\ AnswerInv' /\ CurrentInv'
  BY <1>1, <1>2, <1>3, <1>4, OthersDisturbed
<1>6. thread[t] \in Call
  BY DEF IInv, TypeOK
<1>7. last' \in [op : Setters \cup {"load", "none"}, result : {"none", "ok", "failed"},
                 disturbed : BOOLEAN]
  BY <1>2, <1>6 DEF Call
<1>8. QED BY <1>1, <1>2, <1>5, <1>7

\* A setter assigns what the server took.
LEMMA AssignStep ==
  ASSUME IInv, NEW t \in Thread, Assign(t)
  PROVE  IInv'
<1> DEFINE call == thread[t]
           key == AttributeOf(thread[t].op)
<1>1. /\ ServerInv' /\ held' = held /\ rows' = rows /\ kind' = kind /\ calls' = calls
      /\ thread' \in [Thread -> Call] /\ \A u \in Thread : CallTyped(thread'[u])
      /\ AnswerInv' /\ CurrentInv'
      /\ last' = [op |-> call.op, result |-> "ok", disturbed |-> call.disturbed]
      /\ last' \in [op : Setters \cup {"load", "none"}, result : {"none", "ok", "failed"},
                    disturbed : BOOLEAN]
  BY ReturnEffect DEF Assign
<1>2. /\ call.op \in Setters /\ call.answer \in Content /\ <<key, call.answer>> \in held
      /\ CallCurrent(call)
  BY DEF Assign, IInv, TypeOK, AnswerInv, CallHeld, CurrentInv, Setters, Idle
<1>3. key \in {"field", "processes", "value"}
  BY <1>2 DEF AttributeOf, Setters
<1>4. /\ object \in Object /\ object' = [object EXCEPT ![key] = call.answer]
  BY DEF Assign, IInv, TypeOK
<1>5. /\ object' \in Object /\ object'.id = object.id /\ object'.name = object.name
      /\ object'[key] = call.answer
      /\ \A b \in Attribute : b # key => object'[b] = object[b]
  BY <1>2, <1>3, <1>4 DEF Object, Shown, Attribute
<1>6. TypeOK'
  BY <1>1, <1>5 DEF TypeOK, IInv, ServerInv, CallTyped
<1>7. NeverAhead'
  BY <1>1, <1>2, <1>3, <1>5 DEF NeverAhead, IInv, Attribute
<1>8. FeedInv'
  BY <1>1, <1>5 DEF FeedInv, IInv
<1>9. last'.op = call.op /\ last'.result = "ok" /\ last'.disturbed = call.disturbed
  BY <1>1
<1>10. SetterReturnsCurrent'
  <2>1. ASSUME NEW op \in {"setField", "setProcessList"}, Undisturbed(op)'
        PROVE  Exists(object.id)' /\ object'[AttributeOf(op)] = rows'[object'.id][AttributeOf(op)]
    <3>1. op = call.op /\ ~call.disturbed
      BY <1>9, <2>1 DEF Undisturbed
    <3>2. Exists(object.id) /\ rows[object.id][key] = call.answer
      BY <1>2, <3>1 DEF CallCurrent
    <3>3. QED BY <1>1, <1>5, <3>1, <3>2 DEF Exists
  <2>2. ASSUME Undisturbed("post")'
        PROVE  \E r \in Named(object.name)' : rows'[r].value = object'.value
    <3>1. call.op = "post" /\ ~call.disturbed /\ key = "value"
      BY <1>9, <2>2 DEF Undisturbed, AttributeOf
    <3>2. PICK r \in Named(object.name) : rows[r].value = call.answer
      BY <1>2, <3>1 DEF CallCurrent
    <3>3. object'.value = call.answer /\ r \in Named(object.name)'
      BY <1>1, <1>5, <3>1, <3>2 DEF Named
    <3>4. QED BY <1>1, <3>2, <3>3
  <2>3. QED BY <2>1, <2>2 DEF SetterReturnsCurrent
<1>11. InputLoadIsCurrent'
  BY <1>2, <1>9 DEF InputLoadIsCurrent, Undisturbed, Setters
<1>12. QED BY <1>1, <1>6, <1>7, <1>8, <1>10, <1>11 DEF IInv

\* What every field of an object is.
LEMMA ObjectFields ==
  ASSUME NEW obj \in Object
  PROVE  /\ DOMAIN obj = {"id", "name"} \cup Attribute
         /\ obj.id \in Row \cup {0} /\ obj.name \in Name
         /\ \A a \in Attribute : obj[a] \in Shown
BY DEF Object, Attribute

\* A function with those fields is an object.
LEMMA IsObject ==
  ASSUME NEW obj, obj = [k \in {"id", "name"} \cup Attribute |-> obj[k]],
         obj["id"] \in Row \cup {0}, obj["name"] \in Name, \A a \in Attribute : obj[a] \in Shown
  PROVE  obj \in Object
BY DEF Object, Attribute

\* The row that matches gives the object its id, name and attributes.
LEMMA LoadInputStep ==
  ASSUME IInv, NEW t \in Thread, LoadInput(t)
  PROVE  IInv'
<1> DEFINE call == thread[t]
           list == thread[t].answer
           found == {r \in Row : list[r] # Null /\ (r = object.id \/ list[r].name = object.name)}
<1>1. /\ ServerInv' /\ held' = held /\ rows' = rows /\ kind' = kind /\ calls' = calls
      /\ thread' \in [Thread -> Call] /\ \A u \in Thread : CallTyped(thread'[u])
      /\ AnswerInv' /\ CurrentInv'
      /\ last' = [op |-> call.op, result |-> "ok", disturbed |-> call.disturbed]
      /\ last' \in [op : Setters \cup {"load", "none"}, result : {"none", "ok", "failed"},
                    disturbed : BOOLEAN]
  BY ReturnEffect DEF LoadInput, Loading
<1>2. /\ call.op = "load" /\ kind = "input" /\ call.op \notin Setters
  BY DEF LoadInput, Loading, Setters
<1>3. CallTyped(call) /\ CallHeld(call, held) /\ CallCurrent(call)
  BY DEF IInv, TypeOK, AnswerInv, CurrentInv, CallTyped
<1>4. list \in [Row -> Entry \cup {Null}] /\ HeldList(list, held)
  BY <1>2, <1>3 DEF CallTyped, CallHeld, Idle, List
<1>5. object \in Object /\ NeverAhead
  BY DEF IInv, TypeOK
<1>6. /\ last'.op = "load" /\ last'.disturbed = call.disturbed
  BY <1>1, <1>2
<1>7. FeedInv' /\ SetterReturnsCurrent'
  BY <1>1, <1>2, <1>6 DEF FeedInv, SetterReturnsCurrent, Undisturbed
<1>8. Undisturbed("load")' => list = rows
  BY <1>2, <1>3, <1>6 DEF Undisturbed, CallCurrent
<1>9. CASE found = {}
  <2>1. object' = object
    BY <1>9 DEF LoadInput
  <2>2. TypeOK' /\ NeverAhead'
    BY <1>1, <1>5, <2>1 DEF TypeOK, IInv, ServerInv, CallTyped, NeverAhead
  <2>3. Undisturbed("load")' => Named(object.name)' = {} /\ ~Exists(object.id)'
    BY <1>1, <1>8, <1>9, <2>1 DEF Named, Exists
  <2>4. InputLoadIsCurrent'
    BY <1>1, <1>2, <2>3 DEF InputLoadIsCurrent
  <2>5. QED BY <1>1, <1>7, <2>2, <2>4 DEF IInv
<1>10. CASE found # {}
  <2>1. PICK r \in found : object' = Match(list, r)
    BY <1>10 DEF LoadInput
  <2>2. PICK entry \in Entry : entry = list[r]
    BY <1>4, <2>1
  <2>3. /\ entry.name \in Name /\ HeldEntry(entry, held)
        /\ \A a \in Attribute : entry[a] = Null \/ <<a, entry[a]>> \in held
    BY <1>4, <2>1, <2>2 DEF HeldList, HeldEntry
  <2>4. \A a \in Attribute : entry[a] \in Shown
    BY <2>3 DEF ServerInv, IInv, Shown
  <2>5. object' = [k \in {"id", "name"} \cup Attribute |-> IF k = "id" THEN r ELSE entry[k]]
    BY <1>5, <2>1, <2>2, ObjectFields DEF Match
  <2>6. /\ object'["id"] = r /\ object'["name"] = entry["name"]
        /\ \A a \in Attribute : object'[a] = entry[a]
    BY <2>5 DEF Attribute
  <2>7. object' \in Object
    <3>1. PICK obj : obj = object'
      OBVIOUS
    <3>2. obj \in Object
      BY <2>1, <2>3, <2>4, <2>5, <2>6, <3>1, IsObject
    <3>3. QED BY <3>1, <3>2
  <2>8. TypeOK'
    BY <1>1, <2>7 DEF TypeOK, IInv, ServerInv, CallTyped
  <2>9. NeverAhead'
    BY <1>1, <2>3, <2>6 DEF NeverAhead
  <2>10. InputLoadIsCurrent'
    <3>1. ASSUME Undisturbed("load")'
          PROVE  /\ Exists(object.id)'
                 /\ \A k \in DOMAIN object' \ {"id"} : object'[k] = rows'[object'.id][k]
      <4>1. list = rows
        BY <1>8, <3>1
      <4>2. object'.id = r /\ rows'[r] = entry /\ rows'[r] # Null /\ r \in Row
        BY <1>1, <2>1, <2>2, <2>6, <4>1
      <4>3. \A k \in DOMAIN object' \ {"id"} : object'[k] = entry[k]
        BY <2>5
      <4>4. QED BY <4>2, <4>3 DEF Exists
    <3>2. QED BY <1>1, <1>2, <3>1 DEF InputLoadIsCurrent
  <2>11. QED BY <1>1, <1>7, <2>8, <2>9, <2>10 DEF IInv
<1>11. QED BY <1>9, <1>10

\* The row of a feed gives the object its field, and its value if it has one.
LEMMA LoadFeedStep ==
  ASSUME IInv, NEW t \in Thread, LoadFeed(t)
  PROVE  IInv'
<1> DEFINE call == thread[t]
           list == thread[t].answer
<1>1. /\ ServerInv' /\ held' = held /\ rows' = rows /\ kind' = kind /\ calls' = calls
      /\ thread' \in [Thread -> Call] /\ \A u \in Thread : CallTyped(thread'[u])
      /\ AnswerInv' /\ CurrentInv'
      /\ last' = [op |-> call.op, result |-> "ok", disturbed |-> call.disturbed]
      /\ last' \in [op : Setters \cup {"load", "none"}, result : {"none", "ok", "failed"},
                    disturbed : BOOLEAN]
  BY ReturnEffect DEF LoadFeed, Loading
<1>2. /\ call.op = "load" /\ kind = "feed" /\ call.op \notin Setters
  BY DEF LoadFeed, Loading, Setters
<1>3. CallTyped(call) /\ CallHeld(call, held) /\ CallCurrent(call)
  BY DEF IInv, TypeOK, AnswerInv, CurrentInv, CallTyped
<1>4. /\ list \in [Row -> Entry \cup {Null}] /\ HeldList(list, held) /\ list[1] # Null
      /\ object.id = 1 /\ 1 \in Row
  BY <1>2, <1>3, EntryFacts DEF CallTyped, CallHeld, Idle, List, FeedInv, IInv
<1>5. object \in Object /\ NeverAhead
  BY DEF IInv, TypeOK
<1>6. /\ last'.op = "load" /\ last'.disturbed = call.disturbed
  BY <1>1, <1>2
<1>7. PICK entry \in Entry : entry = list[1]
  BY <1>4
<1>8. \A a \in Attribute : entry[a] \in Shown /\ (entry[a] = Null \/ <<a, entry[a]>> \in held)
  BY <1>4, <1>7 DEF HeldList, HeldEntry, ServerInv, IInv, Shown
<1>9. object' = [object EXCEPT !.field = entry.field,
                               !.value = IF entry.value = Null THEN object.value ELSE entry.value]
  BY <1>4, <1>7 DEF LoadFeed
<1>10. /\ object' \in Object /\ object'.id = object.id /\ object'.field = entry.field
       /\ object'.processes = object.processes
       /\ object'.value = IF entry.value = Null THEN object.value ELSE entry.value
  BY <1>5, <1>8, <1>9 DEF Object, Attribute
<1>11. TypeOK'
  BY <1>1, <1>10 DEF TypeOK, IInv, ServerInv, CallTyped
<1>12. NeverAhead'
  BY <1>1, <1>5, <1>8, <1>10 DEF NeverAhead, Attribute
<1>13. FeedInv' /\ SetterReturnsCurrent'
  BY <1>1, <1>2, <1>4, <1>6, <1>10 DEF FeedInv, SetterReturnsCurrent, Undisturbed, Setters
<1>14. InputLoadIsCurrent'
  BY <1>1, <1>2 DEF InputLoadIsCurrent
<1>15. QED BY <1>1, <1>11, <1>12, <1>13, <1>14 DEF IInv

\* The object forgets its attributes.
LEMMA ClearStep ==
  ASSUME IInv, Clear
  PROVE  IInv'
<1>1. /\ ServerInv' /\ held' = held /\ rows' = rows /\ kind' = kind /\ last' = NoCall
      /\ calls' \in 0 .. MaxCalls
  BY KeptEffect, RowAssumption DEF Clear, Count, IInv, TypeOK
<1>2. /\ thread' \in [Thread -> Call] /\ \A u \in Thread : CallTyped(thread'[u])
      /\ AnswerInv' /\ CurrentInv'
  BY <1>1, AllDisturbed DEF Clear
<1>3. object' = [k \in {"id", "name"} \cup Attribute |-> IF k \in Attribute THEN Null ELSE object[k]]
  BY ObjectFields DEF Clear, IInv, TypeOK
<1>4. /\ object'["id"] = object.id /\ object'["name"] = object.name
      /\ \A a \in Attribute : object'[a] = Null
  BY <1>3 DEF Attribute
<1>5. object' \in Object
  <2>1. PICK obj : obj = object'
    OBVIOUS
  <2>2. object.id \in Row \cup {0} /\ object.name \in Name
    BY DEF IInv, TypeOK, Object
  <2>3. obj \in Object
    BY <1>3, <1>4, <2>1, <2>2, IsObject DEF Shown
  <2>4. QED BY <2>1, <2>3
<1>6. last'.result # "ok"
      /\ last' \in [op : Setters \cup {"load", "none"}, result : {"none", "ok", "failed"},
                    disturbed : BOOLEAN]
  BY <1>1 DEF NoCall
<1>7. TypeOK'
  BY <1>1, <1>2, <1>5, <1>6 DEF TypeOK, IInv, ServerInv, CallTyped
<1>8. NeverAhead' /\ FeedInv'
  BY <1>1, <1>4 DEF NeverAhead, FeedInv, IInv
<1>9. SetterReturnsCurrent' /\ InputLoadIsCurrent'
  BY <1>6 DEF SetterReturnsCurrent, InputLoadIsCurrent, Undisturbed
<1>10. QED BY <1>1, <1>2, <1>7, <1>8, <1>9 DEF IInv

\* Other methods and other clients change the server.
LEMMA ElsewhereStep ==
  ASSUME IInv, Elsewhere
  PROVE  IInv'
<1>1. ServerInv
  BY DEF IInv
<1>2. ServerInv' /\ held \subseteq held'
  <2>1. CASE \E r \in Row, a \in {"field", "processes"}, content \in Content \cup {Null} :
               Store(r, a, content)
    BY <1>1, <2>1, StoreEffect DEF Attribute, Shown
  <2>2. CASE \E r \in Row : Removed(r)
    BY <1>1, <2>2, RemovedEffect
  <2>3. CASE \E content \in Content : Store(1, "value", content)
    BY <1>1, <2>3, StoreEffect DEF Attribute, Shown
  <2>4. CASE \E name \in Name, content \in Content : Posted(name, content)
    BY <1>1, <2>4, PostedEffect
  <2>5. CASE /\ \E r \in Row, name \in Name :
                  Exists(r) /\ Named(name) = {} /\ rows' = [rows EXCEPT ![r].name = name]
             /\ UNCHANGED <<made, held>>
    BY <1>1, <2>5, RenamedEffect
  <2>6. QED BY <2>1, <2>2, <2>3, <2>4, <2>5 DEF Elsewhere
<1>3. Count /\ kind' = kind /\ object' = object /\ last' = NoCall
  BY DEF Elsewhere
<1>4. /\ thread' \in [Thread -> Call] /\ \A u \in Thread : CallTyped(thread'[u])
      /\ AnswerInv' /\ CurrentInv'
  BY <1>2, <1>3, AllDisturbed DEF Elsewhere
<1>5. last'.result # "ok"
      /\ last' \in [op : Setters \cup {"load", "none"}, result : {"none", "ok", "failed"},
                    disturbed : BOOLEAN]
  BY <1>3 DEF NoCall
<1>6. QED BY <1>2, <1>3, <1>4, <1>5, NothingReturns

--------------------------------------------------------------------------------
(* The invariant *)

\* It holds of the object connect() makes.
LEMMA InitInv == Init => IInv
<1> SUFFICES ASSUME Init PROVE IInv
  OBVIOUS
<1>1. PICK name \in Name, wanted \in Name, content \in Content :
        /\ rows = [r \in Row |-> IF r = 1 THEN NewRow(name, "field", content) ELSE Null]
        /\ object = [id |-> IF kind = "feed" THEN 1 ELSE 0, name |-> wanted,
                     field |-> Null, processes |-> Null, value |-> Null]
        /\ held = {<<"field", content>>}
  BY DEF Init
<1>2. /\ kind \in {"input", "feed"} /\ made = 1 /\ calls = 0
      /\ thread = [t \in Thread |-> Idle] /\ last = NoCall
  BY DEF Init
<1>3. PICK entry : entry = NewRow(name, "field", content)
  OBVIOUS
<1>4. /\ entry \in Entry /\ entry.name = name
      /\ \A b \in Attribute : entry[b] = IF b = "field" THEN content ELSE Null
  BY <1>3, EntryFacts DEF Attribute
<1>5. rows = [r \in Row |-> IF r = 1 THEN entry ELSE Null]
  BY <1>1, <1>3
<1>6. ServerInv
  <2>1. rows \in List
    BY <1>4, <1>5 DEF List
  <2>2. HeldEntry(entry, held)
    BY <1>1, <1>4 DEF HeldEntry
  <2>3. HeldList(rows, held)
    BY <1>5, <2>2 DEF HeldList
  <2>4. QED BY <1>1, <1>2, <2>1, <2>3, RowAssumption DEF ServerInv, Attribute
<1>7. \A t \in Thread : thread[t] = Idle
  BY <1>2
<1>8. object \in Object
  BY <1>1, EntryFacts DEF Object, Shown
<1>9. Idle \in Call /\ Idle.op = "none" /\ last.result = "none"
      /\ last \in [op : Setters \cup {"load", "none"}, result : {"none", "ok", "failed"},
                   disturbed : BOOLEAN]
  BY <1>2 DEF Idle, Call, NoCall
<1>10. TypeOK
  BY <1>2, <1>6, <1>7, <1>8, <1>9, RowAssumption DEF TypeOK, ServerInv
<1>11. AnswerInv /\ CurrentInv
  BY <1>7, <1>9 DEF AnswerInv, CurrentInv, CallHeld, CallCurrent, Setters
<1>12. FeedInv /\ NeverAhead
  BY <1>1 DEF FeedInv, NeverAhead, Attribute
<1>13. SetterReturnsCurrent /\ InputLoadIsCurrent
  BY <1>9 DEF SetterReturnsCurrent, InputLoadIsCurrent, Undisturbed
<1>14. QED BY <1>6, <1>10, <1>11, <1>12, <1>13 DEF IInv

\* Every step keeps it.
LEMMA NextInv == IInv /\ [Next]_vars => IInv'
<1> SUFFICES ASSUME IInv, [Next]_vars PROVE IInv'
  OBVIOUS
<1>1. ASSUME NEW t \in Thread, SetField(t) PROVE IInv'
  BY <1>1, SetStep DEF SetField, AttributeOf
<1>2. ASSUME NEW t \in Thread, SetProcessList(t) PROVE IInv'
  BY <1>2, SetStep DEF SetProcessList, AttributeOf
<1>3. ASSUME NEW t \in Thread, Post(t) PROVE IInv'
  BY <1>3, PostStep
<1>4. ASSUME NEW t \in Thread, Assign(t) PROVE IInv'
  BY <1>4, AssignStep
<1>5. ASSUME NEW t \in Thread, Load(t) PROVE IInv'
  BY <1>5, LoadStep
<1>6. ASSUME NEW t \in Thread, LoadInput(t) PROVE IInv'
  BY <1>6, LoadInputStep
<1>7. ASSUME NEW t \in Thread, LoadFeed(t) PROVE IInv'
  BY <1>7, LoadFeedStep
<1>8. CASE Clear
  BY <1>8, ClearStep
<1>9. CASE Elsewhere
  BY <1>9, ElsewhereStep
<1>10. CASE UNCHANGED vars
  BY <1>10 DEF vars, IInv, TypeOK, ServerInv, HeldList, HeldEntry, AnswerInv, CallHeld, FeedInv,
               CurrentInv, CallCurrent, NeverAhead, SetterReturnsCurrent, InputLoadIsCurrent,
               Undisturbed, Exists, Named
<1>11. QED BY <1>1, <1>2, <1>3, <1>4, <1>5, <1>6, <1>7, <1>8, <1>9, <1>10 DEF Next

\* The inductive invariant: what is shown and what is under way was held by the
\* server, and is current as long as nobody else was met.
THEOREM Invariant == Spec => []IInv
BY InitInv, NextInv, PTL DEF Spec

\* HttpInput and HttpFeed: the fields of the object, the rows of the server and
\* the calls under way are of their types.
THEOREM TypesKept == Spec => []TypeOK
BY Invariant, PTL DEF IInv

\* No request that failed and no order in which two threads assign makes the
\* object show what its attribute never was on the server.
THEOREM NeverShownAhead == Spec => []NeverAhead
BY Invariant, PTL DEF IInv

\* A setter of HttpInput or HttpFeed that returns, and that no other call met,
\* leaves object and server in step.
THEOREM SettersReturnCurrent == Spec => []SetterReturnsCurrent
BY Invariant, PTL DEF IInv

\* A load of an input that returns, and that no other call met, leaves the object in
\* step with its row, and gives it an id if the server has its name.
THEOREM InputLoadsAreCurrent == Spec => []InputLoadIsCurrent
BY Invariant, PTL DEF IInv
================================================================================
