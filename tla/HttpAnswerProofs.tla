---------------------------- MODULE HttpAnswerProofs ----------------------------
(***************************************************************************)
(* Safety of HttpAnswer, and that it implements RequestContract, for any   *)
(* answers, deadline and processes.                                        *)
(***************************************************************************)

EXTENDS HttpAnswer, Induction

\* One text is the beginning of another.
Begins(s, t) == Len(s) <= Len(t) /\ \A i \in 1 .. Len(s) : s[i] = t[i]

\* What has been read, with the line that is about to be.
Got == text \o arrived.line

--------------------------------------------------------------------------------
(* Texts *)

\* A text begins with itself, and when it is continued with what it was.
LEMMA BeginsFacts ==
  ASSUME NEW s \in Seq(Token), NEW t \in Seq(Token)
  PROVE  /\ Begins(s, s) /\ Begins(s, s \o t) /\ s \o t \in Seq(Token)
         /\ Begins(s, t) /\ Len(s) = Len(t) => s = t
BY DEF Begins

\* The beginning of a beginning is one.
LEMMA BeginsTransitive ==
  ASSUME NEW s \in Seq(Token), NEW t \in Seq(Token), NEW u \in Seq(Token),
         Begins(s, t), Begins(t, u)
  PROVE  Begins(s, u)
<1>1. Len(s) \in Nat /\ Len(t) \in Nat /\ Len(u) \in Nat
  OBVIOUS
<1>2. QED BY <1>1 DEF Begins

\* When each text of a series begins the next one, any of them begins any later one.
LEMMA ChainBegins ==
  ASSUME NEW n \in Nat, NEW J \in [0 .. n -> Seq(Token)],
         \A i \in 1 .. n : Begins(J[i - 1], J[i]),
         NEW i \in 0 .. n, NEW j \in i .. n
  PROVE  Begins(J[i], J[j])
<1> DEFINE S == {m \in Nat : i + m <= n => Begins(J[i], J[i + m])}
           V == Seq(Token)
<1>1. i \in Nat /\ j \in Nat /\ i <= j /\ j <= n /\ j \in 0 .. n
  OBVIOUS
<1>2. \A k \in 0 .. n : J[k] \in V
  OBVIOUS
<1>3. \A s, t, u \in V : Begins(s, t) /\ Begins(t, u) => Begins(s, u)
  BY BeginsTransitive
<1>4. \A s \in V : Begins(s, s)
  BY BeginsFacts
<1> HIDE DEF V
<1>5. 0 \in S
  <2>1. Begins(J[i], J[i]) /\ i + 0 = i
    BY <1>2, <1>4, <1>1
  <2>2. QED BY <2>1
<1>6. ASSUME NEW m \in Nat, m \in S PROVE m + 1 \in S
  <2>1. SUFFICES ASSUME i + (m + 1) <= n PROVE Begins(J[i], J[i + (m + 1)])
    OBVIOUS
  <2>2. Begins(J[i], J[i + m])
    BY <1>6, <2>1, <1>1
  <2>3. i + (m + 1) \in 1 .. n /\ (i + (m + 1)) - 1 = i + m /\ i + m \in 0 .. n /\ i + (m + 1) \in 0 .. n
    BY <2>1, <1>1
  <2>4. Begins(J[i + m], J[i + (m + 1)])
    BY ONLY <2>3, \A k \in 1 .. n : Begins(J[k - 1], J[k])
  <2>5. QED BY ONLY <1>2, <1>3, <2>2, <2>3, <2>4, i \in 0 .. n
<1>7. j - i \in S /\ i + (j - i) = j
  <2> HIDE DEF S
  <2>1. Nat \subseteq S
    BY <1>5, <1>6, SetInduction
  <2>2. QED BY <2>1, <1>1
<1>8. QED BY <1>1, <1>7

\* The tokens of a text have numbers.
LEMMA TextFacts ==
  ASSUME NEW s \in Seq(Token)
  PROVE  Len(s) \in Nat /\ DOMAIN s = 1 .. Len(s) /\ (s # <<>> => Len(s) # 0)
OBVIOUS

\* The first n tokens of a text.
LEMMA BeginningFacts ==
  ASSUME NEW s \in Seq(Token), NEW n \in 1 .. Len(s)
  PROVE  /\ SubSeq(s, 1, n) \in Seq(Token) /\ Len(SubSeq(s, 1, n)) = n
         /\ \A i \in 1 .. n : SubSeq(s, 1, n)[i] = s[i]
OBVIOUS

\* A text continued by the first n tokens of another.
PartBegins(s, t, n) ==
  /\ SubSeq(t, 1, n) \in Seq(Token) /\ s \o SubSeq(t, 1, n) \in Seq(Token)
  /\ Begins(s \o SubSeq(t, 1, n), s \o t)

\* It is a beginning of the text continued by all of the other.
LEMMA PartFacts ==
  ASSUME NEW s \in Seq(Token), NEW t \in Seq(Token), NEW n \in 1 .. Len(t)
  PROVE  PartBegins(s, t, n)
<1>1. SubSeq(t, 1, n) \in Seq(Token) /\ Len(SubSeq(t, 1, n)) = n
      /\ \A i \in 1 .. n : SubSeq(t, 1, n)[i] = t[i]
  OBVIOUS
<1>2. s \o SubSeq(t, 1, n) \in Seq(Token) /\ s \o t \in Seq(Token)
  BY <1>1
<1>3. Begins(s \o SubSeq(t, 1, n), s \o t)
  BY <1>1, <1>2 DEF Begins
<1>4. QED BY <1>1, <1>2, <1>3 DEF PartBegins

\* The first lines of an answer are a beginning of what more of them come to.
LEMMA JoinedBegins ==
  ASSUME NEW lines \in Seq(Seq(Token)), NEW i \in 0 .. Len(lines), NEW j \in i .. Len(lines)
  PROVE  Begins(Joined(lines)[i], Joined(lines)[j])
<1> DEFINE n == Len(lines)
           J == Joined(lines)
           V == Seq(Token)
<1>1. n \in Nat /\ \A k \in 1 .. n : lines[k] \in V /\ k - 1 \in 0 .. n
  OBVIOUS
<1>2. J \in [0 .. n -> V] /\ \A k \in 1 .. n : J[k] = J[k - 1] \o lines[k]
  BY JoinedExists DEF IsJoined
<1>3. \A s, t \in V : Begins(s, s \o t)
  BY BeginsFacts
<1> HIDE DEF n, J
<1>4. \A k \in 1 .. n : J[k - 1] \in V
  <2> HIDE DEF V
  <2>1. QED BY ONLY <1>1, <1>2
<1>5. \A k \in 1 .. n : Begins(J[k - 1], J[k])
  <2> HIDE DEF V
  <2>1. QED BY ONLY <1>1, <1>2, <1>3, <1>4
<1>6. i \in 0 .. n /\ j \in i .. n
  BY DEF n
<1>7. Begins(J[i], J[j])
  BY ONLY <1>1, <1>2, <1>5, <1>6, ChainBegins
<1>8. QED BY <1>7 DEF J

--------------------------------------------------------------------------------
(* The inductive invariant *)

\* Caller, future and worker go through the request together, and an answer is
\* taken for good only with status 200 and an accepted text.
Control ==
  /\ caller = "unused" <=> future = "none"
  /\ future = "none" <=> worker = "none"
  /\ interrupted => future = "cancelled"
  /\ future = "cancelled" => caller = "failed"
  /\ future \in {"completed", "failed"} => worker = "ended"
  /\ caller = "ok" => future = "completed"
  /\ worker \in {"none", "queued", "send", "skipped"} => answer = NoAnswer
  /\ worker \in {"check", "readLine", "parse", "accepted"} \/ future = "completed" =>
       answer # NoAnswer /\ answer.status = "200"
  /\ worker = "accepted" \/ future = "completed" => text # <<>> /\ Accepted(text)

\* Before there is an answer nothing has been sent.
Unanswered == answer = NoAnswer => text = <<>> /\ next = 0 /\ arrived = Silence /\ ~lost

\* What the worker has got is a beginning of the answer: the lines sent, as long
\* as the connection is not lost, and a part of the next one.
Sent ==
  answer # NoAnswer =>
    /\ next <= Len(answer.lines)
    /\ arrived.kind \notin {"part", "line"} => arrived.line = <<>>
    /\ Begins(Got, Whole)
    /\ ~lost => (IF Waiting THEN text ELSE Got) = Joined(answer.lines)[next]
    /\ ~lost => \E k \in 0 .. next : text = Joined(answer.lines)[k]
    /\ ~lost /\ arrived.kind = "end" => next = Len(answer.lines)

\* The worker reads no further when it has the whole answer, when the connection
\* is lost, at its deadline, or when it is interrupted.
ReadToEnd ==
  worker \in {"parse", "accepted"} \/ future = "completed" =>
    text = Whole \/ lost \/ age > Timeout \/ interrupted

\* What the caller's method has made of the answer still is what it would make.
Kept == IF caller = "ok" THEN outcome = Result ELSE outcome = Nothing

\* The inductive invariant.
IInv == TypeOK /\ Control /\ Unanswered /\ Sent /\ ReadToEnd /\ Kept

--------------------------------------------------------------------------------
(* It is inductive *)

\* The text of an answer is what its lines come to.
LEMMA AnswerFacts ==
  ASSUME NEW a \in Answers
  PROVE  /\ a # NoAnswer
         /\ a.lines \in Seq(Seq(Token)) /\ Len(a.lines) \in Nat
         /\ Joined(a.lines) \in [0 .. Len(a.lines) -> Seq(Token)]
         /\ TextOf(a) = Joined(a.lines)[Len(a.lines)]
         /\ TextOf(a) \in Seq(Token)
<1>1. a # NoAnswer /\ a.lines \in Seq(Seq(Token))
  BY AnswerAssumption
<1>2. Len(a.lines) \in Nat
  BY <1>1
<1>3. Joined(a.lines) \in [0 .. Len(a.lines) -> Seq(Token)]
  BY <1>1, JoinedExists DEF IsJoined
<1>4. TextOf(a) = Joined(a.lines)[Len(a.lines)]
  BY <1>1, WholeIsJoined DEF TextOf
<1>5. QED BY <1>1, <1>2, <1>3, <1>4

\* As long as the worker reads nothing and nothing is sent, the text stays what
\* it is.
LEMMA TextKept ==
  ASSUME Unanswered, Sent, UNCHANGED <<text, netVars>>
  PROVE  Unanswered' /\ Sent'
BY DEF Unanswered, Sent, Got, Waiting, Whole, netVars

\* It holds initially: nothing has been called, sent or read.
LEMMA InitInv == Init => IInv
<1> SUFFICES ASSUME Init PROVE IInv
  OBVIOUS
<1> USE DEF Init
<1>1. TypeOK
  <2>1. 0 \in 0 .. Timeout + 1
    BY TimeoutAssumption
  <2>2. Silence \in [kind : {"none", "part", "line", "end", "broken"}, line : Seq(Token)]
    BY DEF Silence
  <2>3. outcome.kind = "none"
    BY DEF Nothing
  <2>4. <<>> \in Seq(Token)
    OBVIOUS
  <2>5. QED BY <2>1, <2>2, <2>3, <2>4 DEF TypeOK
<1>2. Control
  BY DEF Control
<1>3. Unanswered /\ Sent
  BY DEF Unanswered, Sent
<1>4. ReadToEnd /\ Kept
  BY DEF ReadToEnd, Kept
<1>5. QED BY <1>1, <1>2, <1>3, <1>4 DEF IInv

\* The caller's steps.
LEMMA CallerStepInv ==
  ASSUME IInv, CallerNext
  PROVE  IInv'
<1> USE DEF IInv
<1>1. UNCHANGED <<method, age, text, netVars>>
  BY DEF CallerNext, Call, GetReturns, GetFails, GetGivesUp, Cancel, CallerStep
<1>2. Unanswered' /\ Sent'
  BY <1>1, TextKept
<1>3. Result' = Result
  BY <1>1 DEF Result, Interpreted, Build, netVars
<1>4. Interpreted \in {"none", "value", "empty", "undeclared"}
  BY DEF Interpreted, Build, TypeOK, Method
<1>5. CASE Call
  <2> USE <1>5 DEF Call, CallerStep
  <2>1. TypeOK'
    BY <1>1 DEF TypeOK, netVars
  <2>2. Control'
    BY <1>1 DEF Control, netVars
  <2>3. ReadToEnd' /\ Kept'
    BY <1>1 DEF ReadToEnd, Kept
  <2>4. QED BY <1>2, <2>1, <2>2, <2>3
<1>6. CASE GetReturns
  <2> USE <1>6 DEF GetReturns, CallerStep
  <2>1. TypeOK'
    BY <1>1, <1>4 DEF TypeOK, netVars, Result
  <2>2. Control'
    BY <1>1 DEF Control, netVars
  <2>3. ReadToEnd' /\ Kept'
    BY <1>1, <1>3 DEF ReadToEnd, Kept, Whole, netVars
  <2>4. QED BY <1>2, <2>1, <2>2, <2>3
<1>7. CASE GetFails \/ GetGivesUp
  <2> USE <1>7 DEF GetFails, GetGivesUp, CallerStep
  <2>1. TypeOK'
    BY <1>1 DEF TypeOK, netVars
  <2>2. Control'
    BY <1>1 DEF Control, netVars
  <2>3. ReadToEnd' /\ Kept'
    BY <1>1, <1>3 DEF ReadToEnd, Kept, Whole, netVars
  <2>4. QED BY <1>2, <2>1, <2>2, <2>3
<1>8. CASE Cancel
  <2> USE <1>8 DEF Cancel, CallerStep
  <2>1. TypeOK'
    BY <1>1 DEF TypeOK, netVars
  <2>2. Control'
    BY <1>1 DEF Control, netVars
  <2>3. ReadToEnd' /\ Kept'
    BY <1>1, <1>3 DEF ReadToEnd, Kept, Whole, Control, netVars
  <2>4. QED BY <1>2, <2>1, <2>2, <2>3
<1>9. QED BY <1>5, <1>6, <1>7, <1>8 DEF CallerNext

\* The worker's steps that read nothing, and the clock.
LEMMA WorkerStepInv ==
  ASSUME IInv, Start \/ Send \/ Status \/ Throw \/ Check \/ Parse \/ End \/ Tick
  PROVE  IInv'
<1> USE DEF IInv
<1>1. UNCHANGED <<callVars, text, interrupted, netVars>>
  BY DEF Start, Send, Status, Throw, Check, Parse, End, Close, Tick, Step, callVars, netVars
<1>2. Unanswered' /\ Sent'
  BY <1>1, TextKept
<1>3. Kept'
  BY <1>1 DEF Kept, Result, Interpreted, Build, callVars, netVars
<1>4. TypeOK'
  BY <1>1, TimeoutAssumption
     DEF TypeOK, Start, Send, Status, Throw, Check, Parse, End, Close, Tick, Step, callVars, netVars
<1>5. Control' /\ ReadToEnd'
  <2>1. CASE Start \/ Send \/ Throw
    BY <1>1, <2>1 DEF Control, ReadToEnd, Start, Send, Throw, Step, Whole, callVars, netVars
  <2>2. CASE Status \/ Check
    BY <1>1, <2>2 DEF Control, ReadToEnd, Status, Check, Step, Whole, callVars, netVars
  <2>3. CASE Parse
    BY <1>1, <2>3 DEF Control, ReadToEnd, Parse, Step, Whole, callVars, netVars
  <2>4. CASE End
    BY <1>1, <2>4 DEF Control, ReadToEnd, End, Close, Step, Whole, callVars, netVars
  <2>5. CASE Tick
    <3>1. age > Timeout => age' > Timeout
      BY <2>5, TimeoutAssumption DEF Tick, TypeOK
    <3>2. QED BY <1>1, <2>5, <3>1 DEF Control, ReadToEnd, Tick, Whole, callVars, netVars
  <2>6. QED BY <2>1, <2>2, <2>3, <2>4, <2>5
<1>6. QED BY <1>2, <1>3, <1>4, <1>5

\* Got has the type of a text, and is the text once the line is read.
LEMMA GotFacts ==
  ASSUME IInv
  PROVE  /\ text \in Seq(Token) /\ arrived.line \in Seq(Token) /\ Got \in Seq(Token)
         /\ arrived.line = <<>> => Got = text
         /\ arrived.line = <<>> <=> Len(arrived.line) = 0
         /\ arrived.kind \in {"none", "part", "line", "end", "broken"}
<1>1. text \in Seq(Token) /\ arrived.line \in Seq(Token)
  BY DEF IInv, TypeOK
<1>2. Got \in Seq(Token) /\ (arrived.line = <<>> => Got = text)
  BY <1>1 DEF Got
<1>3. QED BY <1>1, <1>2 DEF IInv, TypeOK

\* What the worker reads moves from what has arrived to the text.
LEMMA ReadLineInv ==
  ASSUME IInv, ReadLine
  PROVE  IInv'
<1> USE DEF IInv
<1>1. UNCHANGED <<callVars, future, age, interrupted, answer, next, lost>>
  BY DEF ReadLine, Step
<1>2. /\ worker = "readLine" /\ ~Waiting
      /\ text' = text \o arrived.line
      /\ arrived' = IF arrived.kind = "line" THEN Silence ELSE arrived
      /\ worker' = CASE arrived.kind = "line" -> "check"
                     [] arrived.kind = "end" -> "parse"
                     [] arrived.kind = "broken" -> "thrown"
  BY DEF ReadLine, Step
<1>3. /\ answer # NoAnswer /\ answer.status = "200" /\ answer \in Answers
      /\ future \notin {"completed", "failed"} /\ caller # "ok"
  BY <1>2 DEF Control, TypeOK
<1>4. arrived.kind \in {"line", "end", "broken"}
  BY <1>2, GotFacts DEF Waiting
<1>5. arrived.kind # "line" => arrived.line = <<>>
  BY <1>3, <1>4 DEF Sent
<1>6. text' = Got /\ Got' = text' /\ arrived'.line = <<>>
  <2>1. arrived'.line = <<>>
    BY <1>2, <1>5 DEF Silence
  <2>2. text' = Got /\ text' \in Seq(Token)
    BY <1>2, GotFacts DEF Got
  <2>3. Got' = text'
    BY <2>1, <2>2 DEF Got
  <2>4. QED BY <2>1, <2>2, <2>3
<1>7. TypeOK'
  <2>1. arrived' \in [kind : {"none", "part", "line", "end", "broken"}, line : Seq(Token)]
    BY <1>2 DEF TypeOK, Silence
  <2>2. text' \in Seq(Token)
    BY <1>6, GotFacts
  <2>3. worker' \in {"check", "parse", "thrown"}
    BY <1>2, <1>4
  <2>4. QED BY <1>1, <2>1, <2>2, <2>3 DEF TypeOK, callVars
<1>8. Control' /\ Unanswered' /\ Kept'
  BY <1>1, <1>2, <1>3, <1>4 DEF Control, Unanswered, Kept, callVars
<1>9. Sent'
  <2>1. /\ next <= Len(answer.lines) /\ Begins(Got, Whole)
        /\ ~lost => Got = Joined(answer.lines)[next]
        /\ ~lost /\ arrived.kind = "end" => next = Len(answer.lines)
    BY <1>2, <1>3 DEF Sent
  <2>2. arrived'.kind = "end" => arrived.kind = "end"
    BY <1>2 DEF Silence
  <2>3. next \in 0 .. next
    BY DEF TypeOK
  <2>4. Whole' = Whole
    BY <1>1 DEF Whole
  <2>5. QED BY <1>1, <1>6, <2>1, <2>2, <2>3, <2>4 DEF Sent
<1>10. ReadToEnd'
  <2>1. worker' = "parse" => arrived.kind = "end"
    BY <1>2, <1>4
  <2>2. worker' # "accepted"
    BY <1>2, <1>4
  <2>3. arrived.kind = "end" /\ ~lost => Got = Whole
    BY <1>2, <1>3, AnswerFacts DEF Sent, Whole
  <2>4. QED BY <1>1, <1>3, <1>6, <2>1, <2>2, <2>3 DEF ReadToEnd, Whole
<1>11. QED BY <1>7, <1>8, <1>9, <1>10

\* What the next line, or a part of it, makes of the lines before it.
LEMMA LineFacts ==
  ASSUME NEW a \in Answers, NEW i \in 0 .. Len(a.lines) - 1
  PROVE  /\ a.lines[i + 1] \in Seq(Token)
         /\ Joined(a.lines)[i + 1] = Joined(a.lines)[i] \o a.lines[i + 1]
         /\ Begins(Joined(a.lines)[i + 1], TextOf(a))
         /\ \A n \in 1 .. Len(a.lines[i + 1]) :
              LET part == SubSeq(a.lines[i + 1], 1, n)
              IN part \in Seq(Token) /\ Begins(Joined(a.lines)[i] \o part, TextOf(a))
<1> DEFINE L == a.lines
           J == Joined(a.lines)
<1>1. /\ L \in Seq(Seq(Token)) /\ Len(L) \in Nat
      /\ J \in [0 .. Len(L) -> Seq(Token)] /\ TextOf(a) = J[Len(L)] /\ TextOf(a) \in Seq(Token)
  BY AnswerFacts
<1>2. \A k \in 1 .. Len(L) : J[k] = J[k - 1] \o L[k]
  BY <1>1, JoinedExists DEF IsJoined
<1>3. /\ i \in 0 .. Len(L) /\ i + 1 \in 0 .. Len(L) /\ i + 1 \in 1 .. Len(L)
      /\ Len(L) \in (i + 1) .. Len(L) /\ (i + 1) - 1 = i
  BY <1>1
<1>4. L[i + 1] \in Seq(Token)
  BY <1>1, <1>3
<1>5. J[i] \in Seq(Token) /\ J[i + 1] \in Seq(Token)
  BY <1>1, <1>3
<1>6. J[i + 1] = J[i] \o L[i + 1]
  <2> HIDE DEF J, L
  <2>1. QED BY ONLY <1>2, <1>3
<1>7. Begins(J[i + 1], TextOf(a))
  BY <1>1, <1>3, JoinedBegins
<1>8. ASSUME NEW n \in 1 .. Len(L[i + 1])
      PROVE  /\ SubSeq(L[i + 1], 1, n) \in Seq(Token)
             /\ Begins(J[i] \o SubSeq(L[i + 1], 1, n), TextOf(a))
  <2>1. PartBegins(J[i], L[i + 1], n)
    BY <1>4, <1>5, PartFacts
  <2> DEFINE p == SubSeq(L[i + 1], 1, n)
  <2>2. p \in Seq(Token) /\ J[i] \o p \in Seq(Token) /\ Begins(J[i] \o p, J[i + 1])
    BY <1>6, <2>1 DEF PartBegins
  <2>3. QED BY <1>1, <1>5, <1>7, <2>2, BeginsTransitive
<1>9. QED BY <1>4, <1>6, <1>7, <1>8

\* The end of an answer has the form of a line without tokens.
LEMMA ArrivedFacts ==
  ASSUME NEW kind
  PROVE  LET a == [kind |-> kind, line |-> <<>>]
         IN /\ a.kind = kind /\ a.line = <<>>
            /\ \A K : kind \in K => a \in [kind : K, line : Seq(Token)]
<1>1. <<>> \in Seq(Token)
  OBVIOUS
<1>2. QED BY <1>1

\* The server and the connection.
LEMMA NetworkInv ==
  ASSUME IInv, Network
  PROVE  IInv'
<1> USE DEF IInv
<1>1. UNCHANGED <<callVars, future, taskVars>>
  BY DEF Network, ServerAnswers, SendsPart, Sends, Closes, EndsClosed, Arrive
<1>2. text \in Seq(Token) /\ arrived.line \in Seq(Token) /\ answer \in Answers \cup {NoAnswer}
      /\ next \in Nat
  BY DEF TypeOK
<1>3. <<>> \in Seq(Token) /\ \A s \in Seq(Token) : s \o <<>> = s
  OBVIOUS
<1>4. CASE ServerAnswers
  <2>1. /\ worker \notin {"none", "queued", "send", "skipped"}
        /\ answer = NoAnswer /\ answer' \in Answers
        /\ UNCHANGED <<next, arrived, lost>>
    BY <1>4 DEF ServerAnswers
  <2>2. answer' # NoAnswer /\ ~lost /\ next = 0 /\ text = <<>> /\ arrived = Silence
        /\ worker \notin {"check", "readLine", "parse", "accepted"} /\ future # "completed"
        /\ caller # "ok"
    BY <2>1, AnswerFacts DEF Control, Unanswered
  <2>3. TypeOK'
    BY <1>1, <2>1 DEF TypeOK, callVars, taskVars
  <2>4. Control' /\ Unanswered' /\ ReadToEnd' /\ Kept'
    BY <1>1, <2>1, <2>2 DEF Control, Unanswered, ReadToEnd, Kept, callVars, taskVars
  <2>5. Sent'
    <3>1. Got' = <<>> /\ arrived'.line = <<>> /\ arrived'.kind = "none"
      <4>1. Got' = <<>> \o <<>>
        BY <1>1, <2>1, <2>2 DEF Got, Silence, taskVars
      <4>2. QED BY <1>3, <2>1, <2>2, <4>1 DEF Silence
    <3>2. Joined(answer'.lines)[0] = <<>> /\ Len(answer'.lines) \in Nat /\ Whole' \in Seq(Token)
      BY <2>1, AnswerFacts, JoinedExists DEF IsJoined, Whole
    <3>3. Begins(Got', Whole')
      BY <3>1, <3>2 DEF Begins
    <3>4. text' = <<>> /\ next' = 0 /\ 0 \in 0 .. 0
      BY <1>1, <2>1, <2>2 DEF taskVars
    <3>5. QED BY <3>1, <3>2, <3>3, <3>4 DEF Sent
  <2>6. QED BY <2>3, <2>4, <2>5
<1>5. CASE SendsPart \/ Sends \/ Closes \/ EndsClosed
  <2>1. /\ answer # NoAnswer /\ UNCHANGED answer /\ Waiting /\ answer \in Answers
        /\ lost => lost'
    BY <1>2, <1>5 DEF SendsPart, Sends, Closes, EndsClosed, Arrive
  <2>2. TextOf(answer) = Joined(answer.lines)[Len(answer.lines)] /\ Len(answer.lines) \in Nat
    BY <2>1, AnswerFacts
  <2>3. /\ next <= Len(answer.lines) /\ Begins(Got, Whole)
        /\ ~lost => text = Joined(answer.lines)[next]
        /\ ~lost => \E k \in 0 .. next : text = Joined(answer.lines)[k]
        /\ arrived.kind = "none" => arrived.line = <<>>
    BY <2>1 DEF Sent
  <2>4. Whole' = Whole /\ Result' = Result /\ text' = text
    BY <1>1, <2>1 DEF Whole, Result, Interpreted, Build, callVars, taskVars
  <2>5. Control' /\ Unanswered' /\ ReadToEnd' /\ Kept'
    BY <1>1, <2>1, <2>4 DEF Control, Unanswered, ReadToEnd, Kept, callVars, taskVars
  <2>6. ASSUME /\ next' \in Nat /\ lost' \in BOOLEAN
               /\ arrived' \in [kind : {"none", "part", "line", "end", "broken"}, line : Seq(Token)]
        PROVE  TypeOK'
    BY <1>1, <2>1, <2>6 DEF TypeOK, callVars, taskVars
  <2>7. Begins(text, Whole)
    <3>1. text \o arrived.line \in Seq(Token) /\ Begins(text, text \o arrived.line)
      BY <1>2, BeginsFacts
    <3>2. Whole \in Seq(Token)
      BY <2>1, AnswerFacts DEF Whole
    <3>3. QED BY <1>2, <2>3, <3>1, <3>2, BeginsTransitive DEF Got
  \* The end of the answer, an empty line behind it, or a reset.
  <2>8. ASSUME /\ arrived'.line = <<>> /\ arrived' \in [kind : {"line", "end", "broken"}, line : Seq(Token)]
               /\ UNCHANGED next /\ lost' \in BOOLEAN
               /\ ~lost' => ~lost /\ next = Len(answer.lines)
        PROVE  IInv'
    <3>1. Got' = text /\ ~Waiting'
      BY <1>2, <1>3, <2>4, <2>8 DEF Got, Waiting
    <3>2. Sent'
      BY <2>1, <2>3, <2>4, <2>7, <2>8, <3>1 DEF Sent
    <3>3. TypeOK'
      BY <1>2, <2>6, <2>8
    <3>4. QED BY <2>5, <3>2, <3>3
  <2>9. ASSUME next < Len(answer.lines), ~lost
        PROVE  LET line == answer.lines[next + 1]
               IN /\ next \in 0 .. Len(answer.lines) - 1
                  /\ line \in Seq(Token)
                  /\ Joined(answer.lines)[next + 1] = text \o line
                  /\ Begins(Joined(answer.lines)[next + 1], Whole)
                  /\ \A n \in 1 .. Len(line) :
                        LET part == SubSeq(line, 1, n)
                        IN part \in Seq(Token) /\ Begins(text \o part, Whole)
    <3>1. next \in 0 .. Len(answer.lines) - 1
      BY <1>2, <2>2, <2>9
    <3>2. QED BY <2>1, <2>3, <2>9, <3>1, LineFacts DEF Whole
  <2>10. CASE SendsPart
    <3> DEFINE line == answer.lines[next + 1]
               n == Len(arrived.line) + 1
    <3>1. /\ next < Len(answer.lines) /\ ~lost /\ UNCHANGED <<next, lost>>
          /\ Len(arrived.line) < Len(line) /\ arrived' = [kind |-> "part", line |-> SubSeq(line, 1, n)]
      BY <2>10 DEF SendsPart, Arrive
    <3>2. n \in 1 .. Len(line)
      BY <1>2, <2>9, <3>1
    <3>3. SubSeq(line, 1, n) \in Seq(Token) /\ Begins(text \o SubSeq(line, 1, n), Whole)
      BY <2>9, <3>1, <3>2
    <3>4. /\ arrived'.kind = "part" /\ arrived'.line = SubSeq(line, 1, n)
          /\ Got' = text \o SubSeq(line, 1, n) /\ Waiting'
      BY <2>4, <3>1 DEF Got, Waiting
    <3>5. Sent'
      BY <2>1, <2>3, <2>4, <3>1, <3>3, <3>4 DEF Sent
    <3>6. TypeOK'
      <4>1. arrived' \in [kind : {"none", "part", "line", "end", "broken"}, line : Seq(Token)]
        BY <3>1, <3>3
      <4>2. next' \in Nat /\ lost' \in BOOLEAN
        BY <1>2, <3>1 DEF TypeOK
      <4>3. QED BY <2>6, <4>1, <4>2
    <3>7. QED BY <2>5, <3>5, <3>6
  <2>11. CASE Sends
    <3>1. UNCHANGED lost /\ ~lost
      BY <2>11 DEF Sends
    <3>2. CASE next < Len(answer.lines)
      <4> DEFINE line == answer.lines[next + 1]
      <4>1. next' = next + 1 /\ arrived' = [kind |-> "line", line |-> line]
        BY <2>11, <1>2, <2>2, <3>2 DEF Sends, Arrive
      <4>2. Got' = Joined(answer.lines)[next + 1] /\ ~Waiting' /\ arrived'.kind = "line"
        BY <2>4, <2>9, <3>1, <3>2, <4>1 DEF Got, Waiting
      <4>3. \E k \in 0 .. next + 1 : text = Joined(answer.lines)[k]
        BY <1>2, <2>3, <3>1
      <4>4. next + 1 <= Len(answer.lines) /\ Begins(Joined(answer.lines)[next + 1], Whole)
        BY <2>2, <2>9, <3>1, <3>2
      <4>5. Sent'
        BY <2>1, <2>4, <3>1, <4>1, <4>2, <4>3, <4>4 DEF Sent
      <4>6. TypeOK'
        <5>1. next' \in Nat /\ lost' \in BOOLEAN
          BY <1>2, <3>1, <4>1 DEF TypeOK
        <5>2. line \in Seq(Token)
          BY <2>9, <3>1, <3>2
        <5>3. arrived' \in [kind : {"none", "part", "line", "end", "broken"}, line : Seq(Token)]
          BY <4>1, <5>2
        <5>4. QED BY <2>6, <5>1, <5>3
      <4>7. QED BY <2>5, <4>5, <4>6
    <3>3. CASE ~(next < Len(answer.lines))
      <4>1. /\ next = Len(answer.lines) /\ UNCHANGED next
            /\ \/ arrived' = [kind |-> "line", line |-> <<>>]
               \/ arrived' = [kind |-> "end", line |-> <<>>]
        BY <2>11, <3>3 DEF Sends, Arrive
      <4>2. arrived'.line = <<>> /\ arrived' \in [kind : {"line", "end", "broken"}, line : Seq(Token)]
        BY <4>1, ArrivedFacts
      <4>3. QED BY <2>8, <3>1, <4>1, <4>2 DEF TypeOK
    <3>4. QED BY <3>2, <3>3
  <2>12. CASE Closes
    <3>1. lost' = TRUE /\ UNCHANGED next
      BY <2>12 DEF Closes
    <3>2. CASE arrived.kind = "part" /\ Arrive("line", arrived.line)
      <4>1. arrived' = [kind |-> "line", line |-> arrived.line]
        BY <3>2 DEF Arrive
      <4>2. Got' = Got
        BY <2>4, <4>1 DEF Got
      <4>3. Sent'
        BY <2>1, <2>3, <2>4, <3>1, <4>1, <4>2 DEF Sent
      <4>4. TypeOK'
        <5>1. arrived' \in [kind : {"none", "part", "line", "end", "broken"}, line : Seq(Token)]
          BY <1>2, <4>1
        <5>2. QED BY <1>2, <2>6, <3>1, <5>1
      <4>5. QED BY <2>5, <4>3, <4>4
    <3>3. CASE Arrive("end", <<>>) \/ Arrive("broken", <<>>)
      <4>1. arrived' = [kind |-> "end", line |-> <<>>] \/ arrived' = [kind |-> "broken", line |-> <<>>]
        BY <3>3 DEF Arrive
      <4>2. arrived'.line = <<>> /\ arrived' \in [kind : {"line", "end", "broken"}, line : Seq(Token)]
        BY <4>1, ArrivedFacts
      <4>3. QED BY <2>8, <3>1, <4>2
    <3>4. QED BY <2>12, <3>2, <3>3 DEF Closes
  <2>13. CASE EndsClosed
    <3>1. lost /\ UNCHANGED <<next, lost>> /\ arrived' = [kind |-> "end", line |-> <<>>]
      BY <2>13 DEF EndsClosed, Arrive
    <3>2. arrived'.line = <<>> /\ arrived' \in [kind : {"line", "end", "broken"}, line : Seq(Token)]
      BY <3>1, ArrivedFacts
    <3>3. QED BY <2>8, <3>1, <3>2 DEF TypeOK
  <2>14. QED BY <1>5, <2>10, <2>11, <2>12, <2>13
<1>6. QED BY <1>4, <1>5 DEF Network

\* The inductive invariant holds in every state.
THEOREM Invariant == Spec => []IInv
<1>1. IInv /\ [Next]_vars => IInv'
  <2> SUFFICES ASSUME IInv, [Next]_vars PROVE IInv'
    OBVIOUS
  <2>1. CASE CallerNext
    BY <2>1, CallerStepInv
  <2>2. CASE WorkerNext
    BY <2>2, WorkerStepInv, ReadLineInv DEF WorkerNext
  <2>3. CASE Network
    BY <2>3, NetworkInv
  <2>4. CASE Tick
    BY <2>4, WorkerStepInv
  <2>5. CASE UNCHANGED vars
    <3>1. UNCHANGED <<text, netVars>>
      BY <2>5 DEF vars, taskVars
    <3>2. Unanswered' /\ Sent'
      BY <3>1, TextKept DEF IInv
    <3>3. TypeOK' /\ Control' /\ ReadToEnd' /\ Kept'
      <4> USE <2>5 DEF IInv, vars, callVars, taskVars, netVars
      <4>1. TypeOK'
        BY DEF TypeOK
      <4>2. Control' /\ ReadToEnd'
        BY DEF Control, ReadToEnd, Whole
      <4>3. Kept'
        BY DEF Kept, Result, Interpreted, Build
      <4>4. QED BY <4>1, <4>2, <4>3
    <3>4. QED BY <3>2, <3>3 DEF IInv
  <2>6. QED BY <2>1, <2>2, <2>3, <2>4, <2>5 DEF Next
<1>2. QED BY <1>1, InitInv, PTL DEF Spec

\* Every variable keeps its type.
THEOREM TypesKept == Spec => []TypeOK
<1>1. IInv => TypeOK
  BY DEF IInv
<1>2. QED BY <1>1, Invariant, PTL

--------------------------------------------------------------------------------
(* Structures and refusals *)

\* Of the text of an answer that ends with a closing bracket nothing is missing.
LEMMA ClosedIsWhole ==
  ASSUME NEW a \in Answers, NEW t \in Seq(Token), t # <<>>, Begins(t, TextOf(a)),
         t[Len(t)] \in {"]", "}"}
  PROVE  t = TextOf(a)
<1> DEFINE W == TextOf(a)
<1>1. W \in Seq(Token) /\ \A i \in DOMAIN W : W[i] \in {"]", "}"} => i = Len(W)
  BY AnswerFacts, AnswerAssumption
<1> HIDE DEF W
<1>2. Len(t) <= Len(W) /\ \A i \in 1 .. Len(t) : t[i] = W[i]
  BY DEF Begins, W
<1>3. Len(t) \in Nat /\ Len(t) # 0 /\ Len(W) \in Nat /\ DOMAIN W = 1 .. Len(W)
  BY <1>1, TextFacts
<1>4. Len(t) \in 1 .. Len(t) /\ Len(t) \in DOMAIN W
  BY ONLY <1>2, <1>3
<1>5. W[Len(t)] \in {"]", "}"}
  BY <1>2, <1>4
<1>6. Len(t) = Len(W)
  BY <1>1, <1>4, <1>5
<1>7. QED BY <1>1, <1>6, BeginsFacts DEF W

\* What has been read of an answer is a beginning of it.
LEMMA TextBegins ==
  ASSUME IInv, answer # NoAnswer
  PROVE  /\ answer \in Answers /\ text \in Seq(Token) /\ Whole \in Seq(Token)
         /\ Begins(text, Whole)
<1>1. answer \in Answers /\ Begins(Got, Whole)
  BY DEF IInv, TypeOK, Sent
<1>2. text \in Seq(Token) /\ arrived.line \in Seq(Token) /\ Got \in Seq(Token)
  BY GotFacts
<1>3. Begins(text, text \o arrived.line)
  BY <1>2, BeginsFacts
<1>4. Begins(text, Got)
  BY <1>3 DEF Got
<1>5. Whole \in Seq(Token)
  BY <1>1, AnswerFacts DEF Whole
<1>6. QED BY <1>1, <1>2, <1>4, <1>5, BeginsTransitive

\* An object or an array that was accepted is whole.
LEMMA StructureIsWhole ==
  ASSUME IInv, future = "completed", IsObject(text) \/ IsArray(text)
  PROVE  text = Whole
<1>1. answer # NoAnswer /\ text # <<>>
  BY DEF IInv, Control
<1>2. answer \in Answers /\ text \in Seq(Token) /\ Begins(text, Whole)
  BY <1>1, TextBegins
<1>3. text[Len(text)] \in {"]", "}"}
  BY DEF IsObject, IsArray, Enclosed, Last
<1>4. QED BY <1>1, <1>2, <1>3, ClosedIsWhole DEF Whole

\* An object or an array is whole wherever the answer was cut, and only a text or
\* a number may be a part of what the server sent.
THEOREM StructuresAreWhole == Spec => []PartsAreTexts
<1>1. IInv => PartsAreTexts
  <2> SUFFICES ASSUME IInv, outcome.kind = "value", text # Whole
               PROVE  method \in {"text", "number"} /\ (lost \/ age > Timeout)
    BY DEF PartsAreTexts
  <2>1. caller = "ok" /\ outcome = Result
    BY DEF IInv, Kept, Nothing
  <2>2. future = "completed" /\ ~interrupted
    BY <2>1 DEF IInv, Control
  <2>3. lost \/ age > Timeout
    BY <2>2 DEF IInv, ReadToEnd
  <2>4. Interpreted = "value" /\ method \in Method
    BY <2>1 DEF Result, IInv, TypeOK
  <2>5. ~IsObject(text) /\ ~IsArray(text)
    BY <2>2, StructureIsWhole
  <2>6. method \in {"text", "number"}
    BY <2>4, <2>5 DEF Interpreted, Method
  <2>7. QED BY <2>3, <2>6
<1>2. QED BY <1>1, Invariant, PTL

\* What is accepted of a text that begins like a refusal.
LEMMA AcceptedFacts ==
  ASSUME NEW t \in Seq(Token), t # <<>>, Accepted(t)
  PROVE  /\ t[1] \in {"f", "E"} => Literal(t) /\ t # <<"f", "alse">>
         /\ t[1] = "{" => IsObject(t) /\ "failure" \notin ToSet(t)
<1>1. Len(t) \in Nat /\ Len(t) # 0 /\ 1 \in DOMAIN t
  OBVIOUS
<1>2. Starts(t, <<"o", "k">>) => t[1] = "o"
  BY <1>1 DEF Starts, IsPrefix
<1>3. Enclosed(t, "q", "q") => t[1] = "q"
  BY DEF Enclosed
<1>4. Literal(t) => t[1] # "{"
  BY <1>1 DEF Literal, ToSet, Letters, Digits
<1>5. (IsArray(t) => t[1] = "[") /\ (IsObject(t) => t[1] = "{")
  BY DEF IsArray, IsObject, Enclosed
<1>6. QED BY <1>2, <1>3, <1>4, <1>5 DEF Accepted, Digits

\* How a refusal opens, and a word that is the first token of a line.
LEMMA OpeningFacts ==
  ASSUME NEW t \in Seq(Token)
  PROVE  /\ IsPrefix(<<"{">>, t) => t[1] = "{"
         /\ IsPrefix(<<"E", "rror:">>, t) => Len(t) >= 2 /\ t[1] = "E" /\ t[2] = "rror:"
         /\ \A s \in Seq(Token) : Len(s) = 1 /\ Len(t) >= 2 /\ s[1] = t[1] => IsStrictPrefix(s, t)
<1>1. Len(t) \in Nat /\ \A n \in 1 .. Len(t) : \A i \in 1 .. n : SubSeq(t, 1, n)[i] = t[i]
  <2>1. ASSUME NEW n \in 1 .. Len(t) PROVE \A i \in 1 .. n : SubSeq(t, 1, n)[i] = t[i]
    BY BeginningFacts
  <2>2. QED BY <2>1, TextFacts
<1>2. IsPrefix(<<"{">>, t) => t[1] = "{"
  <2>1. SubSeq(<<"{">>, 1, 1)[1] = "{" /\ Len(<<"{">>) = 1
    OBVIOUS
  <2>2. Len(t) >= 1 => SubSeq(t, 1, 1)[1] = t[1]
    BY ONLY <1>1
  <2>3. QED BY ONLY <1>1, <2>1, <2>2 DEF IsPrefix
<1>3. IsPrefix(<<"E", "rror:">>, t) => Len(t) >= 2 /\ t[1] = "E" /\ t[2] = "rror:"
  <2>1. /\ SubSeq(<<"E", "rror:">>, 1, 2)[1] = "E" /\ SubSeq(<<"E", "rror:">>, 1, 2)[2] = "rror:"
        /\ Len(<<"E", "rror:">>) = 2
    OBVIOUS
  <2>2. Len(t) >= 2 => SubSeq(t, 1, 2)[1] = t[1] /\ SubSeq(t, 1, 2)[2] = t[2]
    BY ONLY <1>1
  <2>3. QED BY ONLY <1>1, <2>1, <2>2 DEF IsPrefix
<1>4. ASSUME NEW s \in Seq(Token), Len(s) = 1, Len(t) >= 2, s[1] = t[1]
      PROVE  IsStrictPrefix(s, t)
  <2>1. SubSeq(s, 1, 1) \in Seq(Token) /\ Len(SubSeq(s, 1, 1)) = 1 /\ SubSeq(s, 1, 1)[1] = s[1]
    BY <1>4, BeginningFacts
  <2>2. SubSeq(t, 1, 1) \in Seq(Token) /\ Len(SubSeq(t, 1, 1)) = 1 /\ SubSeq(t, 1, 1)[1] = t[1]
    <3>1. 1 \in 1 .. Len(t)
      BY ONLY <1>1, <1>4
    <3>2. QED BY <3>1, BeginningFacts
  <2>3. \A u, v \in Seq(Token) : Len(u) = 1 /\ Len(v) = 1 /\ u[1] = v[1] => u = v
    OBVIOUS
  <2>4. SubSeq(s, 1, 1) = SubSeq(t, 1, 1)
    BY ONLY <1>4, <2>1, <2>2, <2>3
  <2>5. s # t /\ Len(s) <= Len(t)
    BY ONLY <1>1, <1>4
  <2>6. QED BY ONLY <1>4, <2>4, <2>5 DEF IsPrefix, IsStrictPrefix
<1>5. QED BY <1>2, <1>3, <1>4

\* As long as the connection is not lost, the text is nothing, or has the first
\* line.
LEMMA FirstLine ==
  ASSUME IInv, answer # NoAnswer, answer.lines # <<>>, text # <<>>
  PROVE  /\ answer.lines[1] \in Seq(Token)
         /\ Begins(answer.lines[1], Whole)
         /\ lost \/ Begins(answer.lines[1], text)
         /\ Len(answer.lines) = 1 => Whole = answer.lines[1]
<1> DEFINE L == answer.lines
           J == Joined(L)
<1>1. answer \in Answers /\ L \in Seq(Seq(Token)) /\ Len(L) \in Nat /\ Len(L) # 0 /\ 0 \in 0 .. Len(L) - 1
  BY TextBegins, AnswerFacts
<1>2. L[1] \in Seq(Token) /\ J[1] = J[0] \o L[1] /\ Begins(J[1], Whole)
  <2>1. 0 + 1 = 1
    OBVIOUS
  <2>2. QED BY <1>1, <2>1, LineFacts DEF Whole
<1>3. J[0] = <<>> /\ \A s \in Seq(Token) : <<>> \o s = s
  <2>1. J[0] = <<>>
    BY <1>1, JoinedExists DEF IsJoined
  <2>2. \A s \in Seq(Token) : <<>> \o s = s
    OBVIOUS
  <2>3. QED BY <2>1, <2>2
<1>4. J[1] = L[1]
  BY <1>2, <1>3
<1>5. ASSUME ~lost PROVE Begins(L[1], text)
  <2>1. PICK k \in 0 .. next : text = J[k]
    BY <1>5 DEF IInv, Sent
  <2>2. next \in Nat /\ next <= Len(L) /\ k # 0
    BY <1>3, <2>1 DEF IInv, Sent, TypeOK
  <2>3. 1 \in 0 .. Len(L) /\ k \in 1 .. Len(L)
    BY <1>1, <2>1, <2>2
  <2>4. Begins(J[1], J[k])
    BY <1>1, <2>3, JoinedBegins
  <2>5. QED BY <1>4, <2>1, <2>4
<1>6. Whole = J[Len(L)]
  BY <1>1, AnswerFacts DEF Whole
<1>7. QED BY <1>2, <1>4, <1>5, <1>6

\* A caller is told of success of a request the server refused only when the
\* connection was lost within the first word of the refusal.
THEOREM RefusalsHeard == Spec => []RefusalIsHeard
<1>1. IInv => RefusalIsHeard
  <2> SUFFICES ASSUME IInv, caller = "ok", ~answer.done
               PROVE  lost /\ Literal(text) /\ IsStrictPrefix(text, answer.lines[1])
    BY DEF RefusalIsHeard
  <2> DEFINE L == answer.lines
             n == Len(text)
             first == L[1]
  <2>1. future = "completed" /\ answer # NoAnswer /\ answer \in Answers
        /\ answer.status = "200" /\ text # <<>> /\ Accepted(text)
    BY DEF IInv, Control, TypeOK
  <2>2. /\ text \in Seq(Token) /\ n \in Nat /\ n # 0 /\ Whole \in Seq(Token) /\ Begins(text, Whole)
        /\ n <= Len(Whole) /\ \A i \in 1 .. n : text[i] = Whole[i]
    BY <2>1, TextBegins DEF Begins
  <2>3. Refuses(answer)
    BY <2>1, AnswerAssumption
  <2>4. ASSUME L # <<>>, Len(first) >= 2, first[1] \in {"f", "E"}, n >= 2 => ~Accepted(text)
        PROVE  lost /\ Literal(text) /\ IsStrictPrefix(text, first)
    <3>1. first \in Seq(Token) /\ Begins(first, Whole) /\ (lost \/ Begins(first, text))
      BY <2>1, <2>4, FirstLine
    <3>2. n = 1
      <4>1. ~(n >= 2)
        BY <2>1, <2>4
      <4>2. n \in Nat /\ n # 0
        BY <2>2
      <4> HIDE DEF n
      <4>3. QED BY ONLY <4>1, <4>2
    <3>3. lost
      BY <2>4, <3>1, <3>2 DEF Begins
    <3>4. text[1] = first[1]
      BY <2>2, <2>4, <3>1, <3>2 DEF Begins
    <3>5. Literal(text)
      BY <2>1, <2>2, <2>4, <3>4, AcceptedFacts
    <3>6. IsStrictPrefix(text, first)
      BY <2>2, <2>4, <3>1, <3>2, <3>4, OpeningFacts
    <3>7. QED BY <3>3, <3>5, <3>6
  <2>5. CASE L = <<<<"f", "alse">>>>
    <3>1. L # <<>> /\ Len(L) = 1 /\ first = <<"f", "alse">> /\ Len(first) = 2 /\ first[1] = "f"
      BY <2>5
    <3>2. Whole = first
      BY <2>1, <3>1, FirstLine
    <3>3. ASSUME n >= 2 PROVE ~Accepted(text)
      <4>1. n = 2
        BY <2>2, <3>1, <3>2, <3>3
      <4>2. text = Whole
        BY <2>2, <3>1, <3>2, <4>1, BeginsFacts
      <4>3. 1 \in 1 .. n
        BY <4>1
      <4>4. text = <<"f", "alse">> /\ text[1] = "f"
        BY <3>1, <3>2, <4>2
      <4>5. QED BY <2>1, <2>2, <4>4, AcceptedFacts
    <3>4. Len(first) >= 2 /\ first[1] \in {"f", "E"}
      BY ONLY <3>1
    <3>5. L # <<>>
      BY <3>1
    <3>6. QED BY ONLY <2>4, <3>3, <3>4, <3>5
  <2>6. CASE L # <<>> /\ IsPrefix(<<"E", "rror:">>, L[1])
    <3>1. first \in Seq(Token) /\ Begins(first, Whole)
      BY <2>1, <2>6, FirstLine
    <3>2. Len(first) >= 2 /\ first[1] = "E" /\ first[2] = "rror:"
      BY <2>6, <3>1, OpeningFacts
    <3>3. ASSUME n >= 2 PROVE ~Accepted(text)
      <4>1. 1 \in 1 .. n /\ 2 \in 1 .. n /\ 1 \in 1 .. Len(first) /\ 2 \in 1 .. Len(first)
        BY <2>2, <3>1, <3>2, <3>3
      <4>2. text[1] = "E" /\ text[2] = "rror:" /\ 2 \in DOMAIN text
        BY <2>2, <3>1, <3>2, <4>1 DEF Begins
      <4>3. ~Literal(text)
        BY <4>2 DEF Literal, ToSet, Letters, Digits
      <4>4. QED BY <2>1, <2>2, <4>2, <4>3, AcceptedFacts
    <3>4. L # <<>>
      BY <2>6
    <3>5. QED BY ONLY <2>4, <3>2, <3>3, <3>4
  <2>7. CASE IsPrefix(<<"{">>, Whole) /\ "failure" \in ToSet(Whole)
    <3>1. text[1] = "{"
      <4>1. Whole[1] = "{"
        BY <2>2, <2>7, OpeningFacts
      <4>2. 1 \in 1 .. n
        BY <2>2
      <4>3. QED BY <2>2, <4>1, <4>2
    <3>2. IsObject(text) /\ "failure" \notin ToSet(text)
      BY <2>1, <2>2, <3>1, AcceptedFacts
    <3>3. text = Whole
      BY <2>1, <3>2, StructureIsWhole
    <3>4. QED BY <2>7, <3>2, <3>3
  <2>8. QED BY <2>1, <2>3, <2>5, <2>6, <2>7 DEF Refuses, Whole
<1>2. QED BY <1>1, Invariant, PTL

--------------------------------------------------------------------------------
(* Process lists *)

\* An entry of a process list.
Entry == [process : Nat, argument : Seq(STRING)]

\* put() of an entry whose argument has one part: in the place of the entry with
\* the same process, or at the end.
LEMMA PutFacts ==
  ASSUME NEW E, NEW map \in Seq(E), NEW entry \in E,
         entry = [process |-> entry.process, argument |-> <<Head(entry.argument)>>]
  PROVE  /\ Lists!Put(map, entry) \in Seq(E)
         /\ (\A i \in DOMAIN map : map[i].process # entry.process) =>
              Lists!Put(map, entry) = Append(map, entry)
         /\ (\E i \in DOMAIN map : map[i].process = entry.process) =>
              Lists!Put(map, entry) =
                [i \in DOMAIN map |-> IF map[i].process = entry.process THEN entry ELSE map[i]]
<1>1. [entry EXCEPT !.argument = <<Head(@)>>] = entry
  OBVIOUS
<1>2. CASE \A i \in DOMAIN map : map[i].process # entry.process
  <2>1. Lists!Put(map, entry) = Append(map, entry)
    BY <1>1, <1>2 DEF Lists!Put
  <2>2. QED BY <1>2, <2>1
<1>3. CASE \E i \in DOMAIN map : map[i].process = entry.process
  <2> DEFINE new == [i \in DOMAIN map |-> IF map[i].process = entry.process THEN entry ELSE map[i]]
  <2>1. Lists!Put(map, entry) = new
    BY <1>1, <1>3 DEF Lists!Put
  <2>2. new \in Seq(E)
    OBVIOUS
  <2>3. QED BY <1>3, <2>1, <2>2
<1>4. QED BY <1>2, <1>3

\* It keeps every other entry in its place.
LEMMA PutExtends ==
  ASSUME NEW E, NEW map \in Seq(E), NEW entry \in E,
         entry = [process |-> entry.process, argument |-> <<Head(entry.argument)>>]
  PROVE  Lists!Extends(Lists!Put(map, entry), map, entry)
<1> DEFINE new == Lists!Put(map, entry)
           n == Len(map)
<1>1. n \in Nat /\ DOMAIN map = 1 .. n
  OBVIOUS
<1>2. CASE \A i \in DOMAIN map : map[i].process # entry.process
  <2>1. new = Append(map, entry)
    BY <1>2, PutFacts
  <2>2. DOMAIN new = 1 .. n + 1 /\ Len(new) = n + 1 /\ new[n + 1] = entry
        /\ \A i \in 1 .. n : new[i] = map[i]
    <3> HIDE DEF new
    <3>1. QED BY <2>1
  <2>3. \A i \in DOMAIN new \ DOMAIN map : i = n + 1
    BY <1>1, <2>2
  <2>4. n + 1 \in DOMAIN new /\ n + 1 >= n
    BY <1>1, <2>2
  <2> HIDE DEF new, n
  <2>5. entry \in Lists!ToSet(new)
    BY <2>2, <2>4 DEF Lists!ToSet
  <2>6. QED BY <1>1, <1>2, <2>2, <2>3, <2>4, <2>5 DEF Lists!Extends, new, n
<1>3. CASE \E i \in DOMAIN map : map[i].process = entry.process
  <2>1. new = [i \in DOMAIN map |-> IF map[i].process = entry.process THEN entry ELSE map[i]]
    BY <1>3, PutFacts
  <2>2. DOMAIN new = DOMAIN map /\ new \in Seq(E)
    BY <2>1, PutFacts
  <2>3. Len(new) = n
    <3> HIDE DEF new
    <3>1. QED BY <1>1, <2>2
  <2>4. \E i \in DOMAIN new : new[i] = entry
    <3> HIDE DEF new
    <3>1. QED BY <1>3, <2>1
  <2> HIDE DEF new
  <2>5. entry \in Lists!ToSet(new)
    BY <2>4 DEF Lists!ToSet
  <2>6. QED BY <1>1, <2>1, <2>2, <2>3, <2>5 DEF Lists!Extends, new
<1>4. QED BY <1>2, <1>3

\* The map of a text that has each process once, with arguments of one part, is
\* that text.  By induction over the text.
LEMMA ParseOfPlain ==
  ASSUME NEW list \in Seq(Entry), Lists!Plain(list)
  PROVE  Lists!Parse(list) = list
<1> DEFINE n == Len(list)
           V == Seq(Entry)
           op(map, entry) == Lists!Put(map, entry)
           step == [i \in 1 .. n |-> [map \in V |-> op(map, list[i])]]
           IsIter(f) == f = [s \in SUBSET (DOMAIN list) |->
                               IF s = {} THEN <<>> ELSE op(f[s \ {Max(s)}], list[Max(s)])]
           iter == CHOOSE f : IsIter(f)
           part(k) == SubSeq(list, 1, k)
           S == {m \in Nat : m <= n => iter[1 .. m] = part(m)}
<1>1. n \in Nat /\ DOMAIN list = 1 .. n /\ <<>> \in V /\ \A i \in 1 .. n : list[i] \in Entry
  OBVIOUS
<1>2. Lists!Parse(list) = iter[1 .. n]
  BY <1>1 DEF Lists!Parse, Lists!FoldLeft, Lists!MapThenFoldSet, Lists!Max, Max
<1>3. /\ \A i \in 1 .. n : Len(list[i].argument) = 1
      /\ \A i, j \in 1 .. n : list[i].process = list[j].process => i = j
  BY <1>1 DEF Lists!Plain, Lists!IsInjective
<1>4. \A i \in 1 .. n : list[i] = [process |-> list[i].process, argument |-> <<Head(list[i].argument)>>]
  <2>1. \A s \in Seq(STRING) : Len(s) = 1 => s = <<Head(s)>>
    OBVIOUS
  <2>2. ASSUME NEW i \in 1 .. n
        PROVE  list[i] = [process |-> list[i].process, argument |-> <<Head(list[i].argument)>>]
    <3>1. list[i] \in Entry /\ Len(list[i].argument) = 1
      BY <1>1, <1>3
    <3>2. list[i].argument = <<Head(list[i].argument)>>
      BY <2>1, <3>1 DEF Entry
    <3>3. list[i] = [process |-> list[i].process, argument |-> list[i].argument]
      BY <3>1 DEF Entry
    <3>4. QED BY ONLY <3>2, <3>3
  <2>3. QED BY <2>2
<1>5. ASSUME NEW map \in V, NEW i \in 1 .. n PROVE op(map, list[i]) \in V
  BY <1>1, <1>4, PutFacts
<1>6. \E f : IsIter(f)
  <2> HIDE DEF V, op
  <2>1. \A i \in 1 .. n, map \in V : step[i][map] \in V
    BY <1>5
  <2>2. CanFold(V, <<>>, step, n)
    <3> HIDE DEF step
    <3>1. QED BY <1>1, <2>1, FoldExists
  <2>3. PICK f \in [SUBSET (1 .. n) -> V] : Folds(f, <<>>, step, n)
    BY <2>2 DEF CanFold
  <2>4. ASSUME NEW s \in SUBSET (1 .. n)
        PROVE  f[s] = IF s = {} THEN <<>> ELSE op(f[s \ {Max(s)}], list[Max(s)])
    <3>1. s # {} => Max(s) \in 1 .. n /\ s \ {Max(s)} \in SUBSET (1 .. n)
      BY <1>1, MaxIsThere
    <3>2. s # {} => step[Max(s)][f[s \ {Max(s)}]] = op(f[s \ {Max(s)}], list[Max(s)])
      BY <2>3, <3>1
    <3>3. f[s] = IF s = {} THEN <<>> ELSE step[Max(s)][f[s \ {Max(s)}]]
      BY <2>3 DEF Folds
    <3>4. QED BY <3>2, <3>3
  <2>5. f = [s \in SUBSET (1 .. n) |->
               IF s = {} THEN <<>> ELSE op(f[s \ {Max(s)}], list[Max(s)])]
    BY <2>3, <2>4
  <2>6. IsIter(f)
    BY <1>1, <2>5
  <2>7. QED BY <2>6
<1>7. IsIter(iter)
  <2> HIDE DEF IsIter
  <2>1. QED BY <1>6
<1>8. /\ iter[{}] = <<>>
      /\ \A i \in 1 .. n : iter[1 .. i] = op(iter[1 .. i - 1], list[i])
  <2> HIDE DEF op, iter
  <2>1. ASSUME NEW s \in SUBSET (1 .. n)
        PROVE  iter[s] = IF s = {} THEN <<>> ELSE op(iter[s \ {Max(s)}], list[Max(s)])
    BY <1>1, <1>7
  <2> HIDE DEF IsIter
  <2>2. ASSUME NEW i \in 1 .. n PROVE iter[1 .. i] = op(iter[1 .. i - 1], list[i])
    <3>1. 1 .. i \in SUBSET (1 .. n) /\ 1 .. i # {} /\ Max(1 .. i) = i /\ (1 .. i) \ {i} = 1 .. i - 1
      BY <1>1, PrefixOfIndices
    <3>2. iter[1 .. i] = op(iter[(1 .. i) \ {Max(1 .. i)}], list[Max(1 .. i)])
      BY <2>1, <3>1
    <3>3. QED BY <3>1, <3>2
  <2>3. iter[{}] = <<>>
    BY <2>1
  <2>4. QED BY <2>2, <2>3
<1>9. part(0) = <<>> /\ part(n) = list
  OBVIOUS
<1>10. ASSUME NEW m \in Nat, m + 1 <= n
       PROVE  /\ part(m) \in V /\ DOMAIN part(m) = 1 .. m
              /\ \A i \in 1 .. m : part(m)[i] = list[i]
              /\ Append(part(m), list[m + 1]) = part(m + 1)
  <2>1. part(m) \in V /\ DOMAIN part(m) = 1 .. m /\ \A i \in 1 .. m : part(m)[i] = list[i]
    BY <1>1, <1>10
  <2>2. part(m + 1) \in V /\ Len(part(m + 1)) = m + 1 /\ \A i \in 1 .. m + 1 : part(m + 1)[i] = list[i]
    BY <1>1, <1>10
  <2>3. /\ Append(part(m), list[m + 1]) \in V /\ Len(Append(part(m), list[m + 1])) = m + 1
        /\ \A i \in 1 .. m + 1 : Append(part(m), list[m + 1])[i] = list[i]
    <3>1. list[m + 1] \in Entry
      BY <1>1, <1>10
    <3>2. Len(part(m)) = m
      BY <2>1
    <3> HIDE DEF part
    <3>3. QED BY <2>1, <3>1, <3>2
  <2>4. \A s, t \in V : Len(s) = m + 1 /\ Len(t) = m + 1 /\ (\A i \in 1 .. m + 1 : s[i] = t[i]) => s = t
    OBVIOUS
  <2>5. Append(part(m), list[m + 1]) = part(m + 1)
    <3> HIDE DEF part, V
    <3>1. QED BY ONLY <2>2, <2>3, <2>4
  <2>6. QED BY <2>1, <2>5
<1>11. ASSUME NEW m \in Nat, m + 1 <= n PROVE op(part(m), list[m + 1]) = part(m + 1)
  <2>1. m + 1 \in 1 .. n /\ \A i \in 1 .. m : i \in 1 .. n /\ i # m + 1
    BY <1>1, <1>11
  <2>2. \A i \in DOMAIN part(m) : part(m)[i].process # list[m + 1].process
    <3> HIDE DEF part
    <3>1. QED BY <1>3, <1>10, <1>11, <2>1
  <2>3. part(m) \in V /\ Append(part(m), list[m + 1]) = part(m + 1)
    BY <1>10, <1>11
  <2>4. /\ list[m + 1] \in Entry
        /\ list[m + 1] = [process |-> list[m + 1].process, argument |-> <<Head(list[m + 1].argument)>>]
    BY <1>1, <1>4, <2>1
  <2> DEFINE before == part(m)
             entry == list[m + 1]
  <2>5. /\ before \in Seq(Entry) /\ entry \in Entry
        /\ entry = [process |-> entry.process, argument |-> <<Head(entry.argument)>>]
        /\ \A i \in DOMAIN before : before[i].process # entry.process
    BY <2>2, <2>3, <2>4
  <2>6. Lists!Put(before, entry) = Append(before, entry)
    <3> HIDE DEF before, entry
    <3>1. QED BY ONLY <2>5, PutFacts
  <2>7. QED BY <2>3, <2>6
<1>12. n \in S
  <2> HIDE DEF iter, op, V, part
  <2>1. 0 \in S
    <3>1. 1 .. 0 = {}
      OBVIOUS
    <3>2. QED BY <1>8, <1>9, <3>1
  <2>2. ASSUME NEW m \in Nat, m \in S PROVE m + 1 \in S
    <3>1. SUFFICES ASSUME m + 1 <= n PROVE iter[1 .. m + 1] = part(m + 1)
      OBVIOUS
    <3>2. m + 1 \in 1 .. n /\ m + 1 - 1 = m
      BY <1>1, <3>1
    <3>3. iter[1 .. m] = part(m)
      BY <2>2, <3>1, <1>1
    <3>4. iter[1 .. m + 1] = op(iter[1 .. m], list[m + 1])
      BY <1>8, <3>2
    <3>5. QED BY <1>11, <3>1, <3>3, <3>4
  <2> HIDE DEF S
  <2>3. QED BY <1>1, <2>1, <2>2, SetInduction
<1>13. iter[1 .. n] = part(n)
  <2> HIDE DEF iter, part
  <2>1. QED BY <1>1, <1>12
<1>14. QED
  <2> HIDE DEF iter, part
  <2>1. QED BY <1>2, <1>9, <1>13

\* A process list that was read and is set again, with a process added, keeps
\* every other one in its place, if the text has each process once.
THEOREM ListsExtend == Spec => []ListExtends
<1>1. IInv => ListExtends
  <2> SUFFICES ASSUME IInv, outcome.kind = "value", method \in {"object", "array"},
                      Lists!Plain(answer.list), NEW p \in Process, NEW a \in {"7", "8"}
               PROVE  LET entry == [process |-> p, argument |-> <<a>>]
                      IN Lists!Extends(Lists!Put(outcome.list, entry), answer.list, entry)
    BY DEF ListExtends
  <2> DEFINE entry == [process |-> p, argument |-> <<a>>]
             list == answer.list
             E == Entry \cup {entry}
  <2>1. caller = "ok" /\ outcome = Result
    BY DEF IInv, Kept, Nothing
  <2>2. answer \in Answers
    BY <2>1 DEF IInv, Control, TypeOK
  <2>3. list \in Seq(Entry)
    BY <2>2, AnswerAssumption DEF Entry
  <2>4. outcome.list = Lists!Parse(list)
    BY <2>1 DEF Result
  <2>5. outcome.list = list
    BY <2>3, <2>4, ParseOfPlain
  <2>6. list \in Seq(E) /\ entry \in E
    BY <2>3
  <2>7. entry = [process |-> entry.process, argument |-> <<Head(entry.argument)>>]
    OBVIOUS
  <2>8. Lists!Extends(Lists!Put(list, entry), list, entry)
    BY <2>6, <2>7, PutExtends
  <2>9. QED BY <2>5, <2>8
<1>2. QED BY <1>1, Invariant, PTL

--------------------------------------------------------------------------------
(* The refinement *)

\* What Contract makes of the state.
told == [r \in {"request"} |-> IF caller \in {"await", "giveUp"} THEN "pending" ELSE caller]
done == [r \in {"request"} |-> answer # NoAnswer]

\* Every step is a step of the contract, or changes nothing that the contract
\* speaks of.
LEMMA StepSimulation ==
  ASSUME IInv, [Next]_vars
  PROVE  [Contract!Next]_(Contract!vars)
<1> USE DEF Contract!vars
<1> DEFINE Goal == [Contract!Next]_(Contract!vars)
           r == "request"
<1>1. CASE UNCHANGED <<caller, answer>>
  BY <1>1
<1>2. CASE UNCHANGED vars \/ WorkerNext \/ Tick \/ SendsPart \/ Sends \/ Closes \/ EndsClosed
  <2>1. UNCHANGED <<caller, answer>>
    BY <1>2 DEF vars, callVars, netVars, WorkerNext, Start, Send, Status, Throw, Check, ReadLine,
                Parse, End, Close, Step, Tick, SendsPart, Sends, Closes, EndsClosed, Arrive
  <2>2. QED BY <1>1, <2>1
<1>3. CASE CallerNext
  <2>1. UNCHANGED answer /\ UNCHANGED done
    BY <1>3 DEF CallerNext, Call, GetReturns, GetFails, GetGivesUp, Cancel, CallerStep, netVars, done
  <2>2. told' = [told EXCEPT ![r] = told'[r]] /\ r \in {"request"}
    BY DEF told
  <2>3. CASE Call
    <3>1. told[r] = "unused" /\ told'[r] = "pending"
      BY <2>3 DEF Call, CallerStep, told
    <3>2. Contract!Call(r)
      BY <2>1, <2>2, <3>1 DEF Contract!Call, Contract!Tell, told, done
    <3>3. QED BY <3>2 DEF Contract!Next
  <2>4. CASE GetReturns
    <3>1. told[r] = "pending" /\ told'[r] = "ok"
      BY <2>4 DEF GetReturns, CallerStep, told
    <3>2. done[r]
      BY <2>4 DEF GetReturns, IInv, Control, done
    <3>3. Contract!Succeed(r)
      BY <2>1, <2>2, <3>1, <3>2 DEF Contract!Succeed, Contract!Tell, told, done
    <3>4. QED BY <3>3 DEF Contract!Next
  <2>5. CASE GetFails \/ Cancel
    <3>1. told[r] = "pending" /\ told'[r] = "failed"
      BY <2>5 DEF GetFails, Cancel, CallerStep, told
    <3>2. Contract!Fail(r)
      BY <2>1, <2>2, <3>1 DEF Contract!Fail, Contract!Tell, told, done
    <3>3. QED BY <3>2 DEF Contract!Next
  <2>6. CASE GetGivesUp
    BY <2>1, <2>6 DEF GetGivesUp, CallerStep, done
  <2>7. QED BY <1>3, <2>3, <2>4, <2>5, <2>6 DEF CallerNext
<1>4. CASE ServerAnswers
  <2>1. answer = NoAnswer /\ answer' # NoAnswer /\ UNCHANGED caller /\ worker \notin {"none"}
    BY <1>4, AnswerFacts DEF ServerAnswers, callVars
  <2>2. caller \in {"await", "giveUp", "failed"}
    BY <2>1 DEF IInv, TypeOK, Control
  <2>3. UNCHANGED told /\ told[r] \in {"pending", "failed"}
    BY <2>1, <2>2 DEF told
  <2>4. ~done[r] /\ done' = [done EXCEPT ![r] = TRUE]
    BY <2>1 DEF done
  <2>5. Contract!TakeEffect(r)
    BY <2>3, <2>4 DEF Contract!TakeEffect, told, done
  <2>6. QED BY <2>5 DEF Contract!Next
<1>5. QED BY <1>2, <1>3, <1>4 DEF Next, Network

\* A request with its deadlines and its connection implements the contract: a
\* caller that is told of success knows that the server has handled the request,
\* and one that is told of a failure knows nothing.
THEOREM Refinement == Spec => ImplementsContract
<1>1. Init => Contract!Init
  BY DEF Init, Contract!Init
<1>2. IInv /\ [Next]_vars => [Contract!Next]_(Contract!vars)
  BY StepSimulation
<1>3. QED BY <1>1, <1>2, Invariant, PTL DEF Spec, ImplementsContract, Contract!Spec
================================================================================
