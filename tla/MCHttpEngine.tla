-------------------------------- MODULE MCHttpEngine --------------------------------
(* HttpEngine.write with up to three channels. *)
EXTENDS HttpEngine

MCAuthentication ==
  {Default,
   [authorization |-> "DEFAULT", key |-> "key"],
   [authorization |-> "WRITE", key |-> "key"],
   [authorization |-> "NONE", key |-> None]}

\* The first time is in the second of the call, the other in the next.
MCMillis == {1999, 2000}
MCTimestamp == 1000

\* A post runs before the later of the two seconds, or after both.
MCPresent == {1, 3}
================================================================================
