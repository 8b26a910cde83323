--------------------------------- MODULE MCAnswer ---------------------------------
(* HttpAnswer with one answer of every kind the code tells apart. *)
EXTENDS HttpAnswer

\* Process 9 is none the client knows.
Entry == [process : {1, 2, 9}, argument : {<<>>, <<"7">>, <<"7", "8">>}]

Body(done, lines) ==
  [status |-> "200", done |-> done, lines |-> lines, endless |-> "no", list |-> <<>>]

\* A word, the word of a deleted row, a text with a quotation mark in it, a number.
Words == {Body(TRUE, <<<<"o", "k">>>>), Body(TRUE, <<<<"n", "ull">>>>),
          Body(TRUE, <<<<"q", "x", "q", "x", "q">>>>), Body(TRUE, <<<<"1", "2">>>>)}

\* What is refused: by a word, a sentence, a flag in two lines, or the status.
Refusals == {Body(FALSE, <<<<"f", "alse">>>>), Body(FALSE, <<<<"E", "rror:", "x">>>>),
             Body(FALSE, <<<<"{", "failure">>, <<"x", "}">>>>),
             [Body(FALSE, <<>>) EXCEPT !.status = "other"]}

\* Objects in two lines with all lists of up to two processes, arrays with up to one.
Structure(open, close, list) == [Body(TRUE, <<<<open>>, <<close>>>>) EXCEPT !.list = list]
Structures ==
  {Structure("{", "}", list) : list \in BoundedSeq(Entry, 2)}
  \cup {Structure("[", "]", list) : list \in BoundedSeq(Entry, 1)}

\* An object and a text with empty lines behind them, a text and a refusal whose last
\* line goes on.
Endless ==
  {[Body(TRUE, lines) EXCEPT !.endless = "lines"] :
     lines \in {<<<<"{", "success">>, <<"}">>>>, <<<<"o", "k">>, <<"x">>>>}}
  \cup {[Body(TRUE, <<<<"o", "k">>, <<"x">>>>) EXCEPT !.endless = "line"],
        [Body(FALSE, <<<<"E", "rror:", "x">>>>) EXCEPT !.endless = "line"]}

MCAnswers == Words \cup Refusals \cup Structures \cup Endless
================================================================================
