------------------------------- MODULE HttpAnswer -------------------------------
(***************************************************************************)
(* One request from the caller's method to the server and back: the        *)
(* HttpCallable that sends it and reads the answer line by line, the       *)
(* HttpResponse that tells good answers from bad ones, and the methods of  *)
(* HttpConnection, HttpFeed and HttpInput that make something of it.       *)
(*                                                                         *)
(* The worker has a deadline of its own.  It is looked at between lines    *)
(* only, it began when the worker did, not when the caller began to wait,  *)
(* and what has been read until then is handed on as the answer.           *)
(*                                                                         *)
(* A text is a sequence of tokens, the pieces a lost connection can cut it *)
(* into: "ok" is <<"o", "k">>.  Digits, brackets, the quotation mark       *)
(* "q", the two values of the success flag and the rest, letters, are what *)
(* the code tells apart.  The server, the connection's bytes and Gson are  *)
(* modelled from how the code uses them.                                   *)
(***************************************************************************)

EXTENDS Naturals, SequencesExt

CONSTANTS
  Answers,   \* what the server may answer, the set of records below
  Timeout,   \* ticks until the deadline of the worker
  Process,   \* the processes the client knows
  NoAnswer   \* the server has not answered

ASSUME TimeoutAssumption == Timeout \in Nat

Lists == INSTANCE ProcessList

Digits == {"1", "2"}
Brackets == {"[", "]", "{", "}"}
Flags == {"success", "failure"}
Letters == {"o", "k", "n", "ull", "f", "alse", "E", "x"}
Token == Digits \cup Brackets \cup Flags \cup Letters \cup {"q", "rror:"}

TextOf(a) == FlattenSeq(a.lines)

\* What the code knows as a refusal: the status, the word "false", a sentence
\* that begins with "Error:", or an object with the flag.
Refuses(a) ==
  \/ a.status = "other"
  \/ a.lines = <<<<"f", "alse">>>>
  \/ a.lines # <<>> /\ IsPrefix(<<"E", "rror:">>, a.lines[1])
  \/ IsPrefix(<<"{">>, TextOf(a)) /\ "failure" \in ToSet(TextOf(a))

\* done: whether the server has done what it was asked for; if not, it says so in
\* one of these ways.  lines: the body of an answer with status 200.  endless: what
\* has no end, if anything: after the lines come empty lines, or the last line goes
\* on, and its last token stands for letters without end.  list: the process list in
\* a body that has one.  Of the brackets only the outer ones are tokens of their own,
\* so that one that closes is the last.
ASSUME AnswerAssumption ==
  /\ NoAnswer \notin Answers
  /\ \A a \in Answers :
       /\ DOMAIN a = {"status", "done", "lines", "endless", "list"}
       /\ a.status \in {"200", "other"} /\ a.done \in BOOLEAN
       /\ a.lines \in Seq(Seq(Token))
       /\ a.endless \in {"no", "lines", "line"}
       /\ a.endless = "line" => /\ a.lines # <<>> /\ Last(a.lines) # <<>>
                               /\ Last(Last(a.lines)) \in Letters
       /\ \A i \in DOMAIN TextOf(a) : TextOf(a)[i] \in {"]", "}"} => i = Len(TextOf(a))
       /\ a.list \in Seq([process : Nat, argument : Seq(STRING)])
       /\ a.done \/ Refuses(a)

\* What a method reads of an answer: nothing, an object or array with process
\* lists, an array of values, a text or a number.
Method == {"nothing", "object", "array", "values", "text", "number"}

VARIABLES
  method,       \* what the caller's method reads
  caller,       \* the caller's thread, or what it was told
  outcome,      \* what the method made of the answer
  future,       \* the FutureTask
  interrupted,  \* the worker's thread was interrupted by cancel(true)
  worker,       \* the worker in HttpCallable.call
  age,          \* the ticks since the worker began, up to Timeout + 1
  text,         \* what the worker has read
  answer,       \* the server's answer
  next,         \* the lines the server has sent whole
  arrived,      \* what the next readLine() gets; it blocks on nothing and on a part
  lost          \* the connection was closed before the whole answer was sent

callVars == <<method, caller, outcome>>
taskVars == <<worker, age, text, interrupted>>
netVars == <<answer, next, arrived, lost>>
vars == <<callVars, future, taskVars, netVars>>

Silence == [kind |-> "none", line |-> <<>>]
Nothing == [kind |-> "none", list |-> <<>>]

TypeOK ==
  /\ method \in Method
  /\ caller \in {"unused", "await", "giveUp", "ok", "failed"}
  /\ outcome.kind \in {"none", "value", "empty", "undeclared"}
  /\ future \in {"none", "pending", "completed", "failed", "cancelled"}
  /\ interrupted \in BOOLEAN /\ lost \in BOOLEAN
  /\ worker \in {"none", "queued", "send", "status", "check", "readLine", "parse",
                 "accepted", "thrown", "ended", "skipped"}
  /\ age \in 0 .. Timeout + 1
  /\ text \in Seq(Token)
  /\ answer \in Answers \cup {NoAnswer}
  /\ next \in Nat
  /\ arrived \in [kind : {"none", "part", "line", "end", "broken"}, line : Seq(Token)]

Init ==
  /\ method \in Method
  /\ caller = "unused" /\ outcome = Nothing
  /\ future = "none" /\ interrupted = FALSE
  /\ worker = "none" /\ age = 0 /\ text = <<>>
  /\ answer = NoAnswer /\ next = 0 /\ arrived = Silence /\ lost = FALSE

--------------------------------------------------------------------------------
(* HttpResponse: the texts that are accepted *)

Starts(t, word) == IsPrefix(word, t)
Enclosed(t, open, close) == t[1] = open /\ Last(t) = close
IsArray(t) == Enclosed(t, "[", "]") /\ Len(t) > 1
\* Mutant: the end of an object is not looked at.
ObjectOpens(t) == t[1] = "{"
IsObject(t) == Enclosed(t, "{", "}") /\ Len(t) > 1
Literal(t) == ToSet(t) \subseteq Letters \cup Digits

\* Mutant: the success flag is not looked at.
AcceptedWithoutFlag(t) ==
  \/ t[1] \in Digits \/ Starts(t, <<"o", "k">>) \/ Enclosed(t, "q", "q")
  \/ Literal(t) /\ t # <<"f", "alse">>
  \/ IsArray(t) \/ IsObject(t)

\* Gson is lenient: a text without quotes is JSON as well, if it is one literal,
\* which is neither an array nor an object and passes.
Accepted(t) ==
  \/ Starts(t, <<"o", "k">>)
  \/ Enclosed(t, "q", "q")
  \/ t[1] \in Digits
  \/ Literal(t) /\ t # <<"f", "alse">>
  \/ IsArray(t)
  \/ IsObject(t) /\ "failure" \notin ToSet(t)

--------------------------------------------------------------------------------
(* The server and the connection *)

\* The request is carried out, or not, and answered.
ServerAnswers ==
  /\ worker \notin {"none", "queued", "send", "skipped"}
  /\ answer = NoAnswer
  /\ answer' \in Answers
  /\ UNCHANGED <<callVars, future, taskVars, next, arrived, lost>>

\* Of the next line nothing has arrived, or a part of it.
Waiting == arrived.kind \in {"none", "part"}

Arrive(kind, line) ==
  /\ answer # NoAnswer /\ Waiting
  /\ arrived' = [kind |-> kind, line |-> line]
  /\ UNCHANGED <<callVars, future, taskVars, answer>>

\* One more piece of a line, which may be all of it but for the line feed.
SendsPart ==
  /\ answer # NoAnswer /\ ~lost /\ next < Len(answer.lines)
  /\ Len(arrived.line) < Len(answer.lines[next + 1])
  /\ Arrive("part", SubSeq(answer.lines[next + 1], 1, Len(arrived.line) + 1))
  /\ UNCHANGED <<next, lost>>

\* The rest of a line with its end, or the end of the answer.
Sends ==
  /\ answer # NoAnswer /\ ~lost
  /\ UNCHANGED lost
  /\ \/ /\ next < Len(answer.lines)
        /\ answer.endless = "line" => next + 1 < Len(answer.lines)
        /\ Arrive("line", answer.lines[next + 1]) /\ next' = next + 1
     \/ /\ next = Len(answer.lines) /\ UNCHANGED next
        /\ IF answer.endless = "lines" THEN Arrive("line", <<>>) ELSE Arrive("end", <<>>)

\* The connection is closed early: the part of a line that has arrived is a line, and
\* after it comes the end; or it is reset, and readLine() throws.
Closes ==
  /\ answer # NoAnswer /\ ~lost
  /\ next < Len(answer.lines) \/ answer.endless = "lines"
  /\ lost' = TRUE /\ UNCHANGED next
  /\ \/ arrived.kind = "part" /\ Arrive("line", arrived.line)
     \/ arrived.kind = "none" /\ Arrive("end", <<>>)
     \/ Arrive("broken", <<>>)

EndsClosed == lost /\ Arrive("end", <<>>) /\ UNCHANGED <<next, lost>>

Network == ServerAnswers \/ SendsPart \/ Sends \/ Closes \/ EndsClosed

--------------------------------------------------------------------------------
(* HttpCallable.call *)

Step(from, to) ==
  /\ worker = from
  /\ worker' = to
  /\ UNCHANGED <<callVars, interrupted, answer, next, lost>>

Start ==
  /\ age' = 0
  /\ Step("queued", IF future = "pending" THEN "send" ELSE "skipped")
  /\ UNCHANGED <<future, text, arrived>>

Send == Step("send", "status") /\ UNCHANGED <<future, age, text, arrived>>

\* verifyResponse
Status ==
  /\ answer # NoAnswer
  /\ Step("status", IF answer.status = "200" THEN "check" ELSE "thrown")
  /\ UNCHANGED <<future, age, text, arrived>>

\* No connection, or one that is lost before the status is read: the server may
\* have carried the request out.
Throw ==
  /\ Step("send", "thrown") \/ Step("status", "thrown")
  /\ UNCHANGED <<future, age, text, arrived>>

\* Mutant: the deadline is left to the caller.
CheckInterruptOnly ==
  /\ Step("check", IF interrupted THEN "parse" ELSE "readLine")
  /\ UNCHANGED <<future, age, text, arrived>>

\* The condition of the loop, without the readLine() that follows it and may block.
Check ==
  /\ Step("check", IF interrupted \/ age > Timeout THEN "parse" ELSE "readLine")
  /\ UNCHANGED <<future, age, text, arrived>>

\* It blocks until a line ends, whatever has come of it, and past the deadline.
ReadLine ==
  /\ ~Waiting
  /\ arrived' = IF arrived.kind = "line" THEN Silence ELSE arrived
  /\ text' = text \o arrived.line
  /\ Step("readLine", CASE arrived.kind = "line" -> "check"
                        [] arrived.kind = "end" -> "parse"
                        [] arrived.kind = "broken" -> "thrown")
  /\ UNCHANGED <<future, age>>

\* "Nothing received", or what HttpResponse makes of the text.
Parse ==
  /\ Step("parse", IF text # <<>> /\ Accepted(text) THEN "accepted" ELSE "thrown")
  /\ UNCHANGED <<future, age, text, arrived>>

Close(result) ==
  /\ worker \in {"accepted", "thrown"}
  /\ Step(worker, "ended")
  /\ future' = IF future = "pending" THEN result ELSE future
  /\ UNCHANGED <<age, text, arrived>>

\* Mutants: the finally block returns, and the exception is gone; null is returned
\* instead of a response.
EndInFinally == Close("completed")
EndWithNull == Close("null")

\* The finally block closes stream and connection; an exception there replaces
\* what the request had come to.
End == (worker = "accepted" /\ Close("completed")) \/ Close("failed")

WorkerNext ==
  Start \/ Send \/ Status \/ Throw \/ Check \/ ReadLine \/ Parse \/ End

\* The worker's clock.
Tick ==
  /\ worker \notin {"none", "queued", "ended", "skipped"} /\ age <= Timeout
  /\ age' = age + 1
  /\ UNCHANGED <<callVars, future, worker, text, interrupted, netVars>>

--------------------------------------------------------------------------------
(* The caller *)

CallerStep(from, to) ==
  /\ caller = from
  /\ caller' = to
  /\ UNCHANGED <<method, age, text, netVars>>

Call ==
  /\ CallerStep("unused", "await")
  /\ future' = "pending" /\ worker' = "queued"
  /\ UNCHANGED <<outcome, interrupted>>

\* The inputs or feeds of an answer are made with their process lists.
Build(t) == IF Lists!Readable(answer.list) THEN "value" ELSE "undeclared"

\* getLatestValue: Double.valueOf of the text without quotation marks.
Number(t) == ToSet(t) \subseteq Digits \cup {"q"} /\ ToSet(t) # {"q"}

\* An answer of another kind is null to the methods that read objects and arrays,
\* and a NullPointerException to their callers; it is an empty result to those
\* that read values; any text is a text.
Interpreted ==
  CASE method = "nothing" -> "none"
    [] method = "object" -> IF IsObject(text) THEN Build(text) ELSE "undeclared"
    [] method = "array"  -> IF IsArray(text) THEN Build(text) ELSE "undeclared"
    [] method = "values" -> IF IsArray(text) THEN "value" ELSE "empty"
    [] method = "text"   -> "value"
    [] method = "number" -> IF Number(text) THEN "value" ELSE "undeclared"

Result ==
  [kind |-> Interpreted,
   list |-> IF Interpreted = "value" /\ method \in {"object", "array"}
              THEN Lists!Parse(answer.list) ELSE <<>>]

GetReturns ==
  /\ future = "completed"
  /\ CallerStep("await", "ok")
  /\ outcome' = Result
  /\ UNCHANGED <<future, worker, interrupted>>

GetFails ==
  /\ future = "failed"
  /\ CallerStep("await", "failed")
  /\ UNCHANGED <<outcome, future, worker, interrupted>>

\* At its own deadline, or when the caller's thread is interrupted.
GetGivesUp ==
  /\ future = "pending"
  /\ CallerStep("await", "giveUp")
  /\ UNCHANGED <<outcome, future, worker, interrupted>>

Cancel ==
  /\ CallerStep("giveUp", "failed")
  /\ future' = IF future = "pending" THEN "cancelled" ELSE future
  /\ interrupted' = (future = "pending" /\ worker # "queued")
  /\ UNCHANGED <<outcome, worker>>

CallerNext == Call \/ GetReturns \/ GetFails \/ GetGivesUp \/ Cancel

Next == CallerNext \/ WorkerNext \/ Network \/ Tick

\* The worker's thread runs, time passes, and the server processes and answers or
\* fails as it likes.
Spec == Init /\ [][Next]_vars /\ WF_vars(WorkerNext) /\ WF_vars(Tick)

--------------------------------------------------------------------------------
(* Properties *)

Whole == TextOf(answer)

\* As in HttpConnection, a caller that is told of success knows that the server
\* has handled the request.
Contract == INSTANCE RequestContract WITH
  Request <- {"request"},
  outcome <- [r \in {"request"} |->
                IF caller \in {"await", "giveUp"} THEN "pending" ELSE caller],
  effect <- [r \in {"request"} |-> answer # NoAnswer]

ImplementsContract == Contract!Spec

\* A caller is never told of success when the server has refused the request,
\* except that the connection was lost within the first word of the refusal,
\* and what is left of it is a word.
RefusalIsHeard ==
  caller = "ok" /\ ~answer.done =>
    lost /\ Literal(text) /\ IsStrictPrefix(text, answer.lines[1])

\* An object or an array is whole wherever the answer was cut: by the deadline
\* of the worker, an interrupt or a lost connection.  Only a text or a number
\* may be a part of what the server sent, and then the deadline has passed or
\* the connection was lost.
PartsAreTexts ==
  outcome.kind = "value" /\ text # Whole =>
    method \in {"text", "number"} /\ (lost \/ age > Timeout)

\* A process list that was read and is set again, with a process added, keeps
\* every other one in its place, if the text has each process once.
ListExtends ==
  outcome.kind = "value" /\ method \in {"object", "array"} /\ Lists!Plain(answer.list) =>
    \A p \in Process, a \in {"7", "8"} :
      LET entry == [process |-> p, argument |-> <<a>>]
      IN Lists!Extends(Lists!Put(outcome.list, entry), answer.list, entry)

\* The worker waits for a line to end.
Blocked == worker = "readLine" /\ Waiting

\* Only a line that never ends can keep the worker, be it a silent server or one that
\* sends on and on: an answer with lines without end is left at the deadline, also
\* if the caller waits on.
WorkerIsFreed == []<>~Blocked => (worker = "check" ~> worker = "ended")
================================================================================
