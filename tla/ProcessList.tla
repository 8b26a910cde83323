------------------------------- MODULE ProcessList -------------------------------
(***************************************************************************)
(* The process list of an input or a feed: the text "1:7,24:x" the server  *)
(* keeps, and the map org.emoncms.data.ProcessList that the client makes   *)
(* of it and prints again.                                                 *)
(*                                                                         *)
(* A text is a sequence of entries: the number of a process, and the parts *)
(* of its argument between colons.  A map is a text that has each process  *)
(* once, in the order of a LinkedHashMap, with arguments of one part.      *)
(***************************************************************************)

EXTENDS Naturals, SequencesExt

CONSTANT Process   \* the numbers Process.getEnum knows

\* Integer.valueOf and arr[1] find what they need, and getEnum knows the process.
Readable(text) == \A i \in DOMAIN text : text[i].process \in Process /\ text[i].argument # <<>>

\* Mutant: a process that is put again moves to the end.
PutLast(map, entry) ==
  Append(SelectSeq(map, LAMBDA e : e.process # entry.process),
         [entry EXCEPT !.argument = <<Head(@)>>])

\* put() of a LinkedHashMap: a process that is there keeps its place.
Put(map, entry) ==
  LET new == [entry EXCEPT !.argument = <<Head(@)>>]
  IN IF \E i \in DOMAIN map : map[i].process = entry.process
       THEN [i \in DOMAIN map |-> IF map[i].process = entry.process THEN new ELSE map[i]]
       ELSE Append(map, new)

\* ProcessList(String) of a readable text; toString() prints the map as it is.
Parse(text) == FoldLeft(Put, <<>>, text)

--------------------------------------------------------------------------------

\* A text the map can hold: each process once, no colon in an argument.
Plain(text) ==
  /\ IsInjective([i \in DOMAIN text |-> text[i].process])
  /\ \A i \in DOMAIN text : Len(text[i].argument) = 1

\* What a caller relies on who reads a list, adds an entry and sets it: the
\* server runs the same processes in the same order, and then the new one, or
\* has the new argument in the place of the old one.
Extends(new, old, entry) ==
  /\ Len(new) >= Len(old)
  /\ \A i \in DOMAIN old : new[i] = IF old[i].process = entry.process THEN entry ELSE old[i]
  /\ \A i \in DOMAIN new \ DOMAIN old : new[i] = entry
  /\ entry \in ToSet(new)
================================================================================
