--------------------------------- MODULE MCHttp ---------------------------------
(* HttpConnection on small sets of calls and owners. *)
EXTENDS HttpOrder, TLC

\* The calls are interchangeable; only for runs without liveness properties.
CallSymmetry == Permutations(Request)
================================================================================
