--------------------------------- MODULE DataList ---------------------------------
(* DataList: the data sets of a bulk post, as DataList and Data build them. *)

EXTENDS Naturals, Sequences, Functions

\* TimeUnit.MILLISECONDS.toSeconds of a time that is not negative.
ToSeconds(millis) == millis \div 1000

\* Mutant: the value of a node and second that is in the list already is dropped.
AddFirst(list, millis, node, value) ==
  IF \E i \in DOMAIN list : list[i].node = node /\ list[i].time = ToSeconds(millis)
  THEN list
  ELSE Append(list, [time |-> ToSeconds(millis), node |-> node, values |-> <<value>>])

\* A value joins the data set of its node and second, or starts one.
Add(list, millis, node, value) ==
  IF \E i \in DOMAIN list : list[i].node = node /\ list[i].time = ToSeconds(millis)
  THEN [i \in DOMAIN list |->
          IF list[i].node = node /\ list[i].time = ToSeconds(millis)
          THEN [list[i] EXCEPT !.values = Append(@, value)] ELSE list[i]]
  ELSE Append(list, [time |-> ToSeconds(millis), node |-> node, values |-> <<value>>])

\* Mutant: the list is left in the order of its channels.
Unsorted(list) == list

\* SortTime compares the times; List.sort leaves data sets of one second in their order.
Before(list, i, j) == list[i].time < list[j].time \/ (list[i].time = list[j].time /\ i < j)

IsOrder(order, list) ==
  /\ order \in Bijection(DOMAIN list, DOMAIN list)
  /\ \A i, j \in DOMAIN list : i < j => Before(list, order[i], order[j])

Sort(list) ==
  LET order == CHOOSE order \in [DOMAIN list -> DOMAIN list] : IsOrder(order, list)
  IN [i \in DOMAIN list |-> list[order[i]]]
====================================================================================
