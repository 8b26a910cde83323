-------------------------------- MODULE HttpOrder --------------------------------
(***************************************************************************)
(* HttpConnection with the order in which calls hand their tasks over.     *)
(*                                                                         *)
(* A caller that was told of a failure may set the same field again, or    *)
(* another one.  Whether the abandoned request can still take effect       *)
(* behind the later one depends on the pool it is in.  log is a history    *)
(* variable: it is written at every submission and read by no action.      *)
(***************************************************************************)

EXTENDS HttpConnection

VARIABLE log   \* the requests submitted so far, and the pools they went to

orderVars == <<vars, log>>

OrderInit == Init /\ log = <<>>

Record ==
  LET submitted == {r \in Request : call[r] = "submit" /\ call'[r] = "await"}
  IN log' = IF submitted = {} THEN log
            ELSE Append(log, [request |-> CHOOSE r \in submitted : TRUE, pool |-> executor])

OrderNext == Next /\ Record

OrderSpec == OrderInit /\ [][OrderNext]_orderVars

--------------------------------------------------------------------------------
(* Properties *)

\* The i-th and the j-th request are on the same single thread.
SameThread(i, j) == log[i].pool = log[j].pool /\ size[log[i].pool] = 1

\* A request whose caller gave up takes effect behind a later one, and undoes
\* what that one has set, only where the client cannot prevent it: its
\* connection was lost after it was sent, the pool has several threads, or
\* the connection was opened again and the old pool drains beside the new one.
NoOvertaking ==
  [][\A i, j \in DOMAIN log :
       LET early == log[i].request  late == log[j].request
       IN /\ i < j /\ SameThread(i, j)
          /\ wire[early] = "sent" /\ wire'[early] = "processed"
          /\ wire[late] = "processed"
          => \A p \in Pool : early \notin running[p]]_orderVars
================================================================================
