---------------------------- MODULE RequestContract ----------------------------
(***************************************************************************)
(* What an emoncms connection promises to the thread that calls it, as a   *)
(* specification of its own: every call is one request, and the request    *)
(* has an effect on the emoncms server at most once.                       *)
(*                                                                         *)
(*   ok       the caller holds the server's answer: the effect is there    *)
(*   failed   the caller was told of a failure, and knows nothing: the     *)
(*            effect may be there already, may still come, or never come   *)
(*   refused  the request was never handed on: the effect never comes      *)
(*                                                                         *)
(* HttpConnection implements it (HttpConnection!Contract).                 *)
(***************************************************************************)

CONSTANT Request

VARIABLES
  outcome,   \* what the caller of each request has been told so far
  effect     \* whether the server has carried the request out

vars == <<outcome, effect>>

Outcome == {"unused", "pending", "ok", "failed", "refused"}

TypeOK ==
  /\ outcome \in [Request -> Outcome]
  /\ effect \in [Request -> BOOLEAN]

Init ==
  /\ outcome = [r \in Request |-> "unused"]
  /\ effect = [r \in Request |-> FALSE]

Tell(r, from, to) ==
  /\ outcome[r] = from
  /\ outcome' = [outcome EXCEPT ![r] = to]
  /\ UNCHANGED effect

Call(r) == Tell(r, "unused", "pending")

Succeed(r) == effect[r] /\ Tell(r, "pending", "ok")

Fail(r) == Tell(r, "pending", "failed")

Refuse(r) == ~effect[r] /\ Tell(r, "pending", "refused")

TakeEffect(r) ==
  /\ outcome[r] \in {"pending", "failed"}
  /\ ~effect[r]
  /\ effect' = [effect EXCEPT ![r] = TRUE]
  /\ UNCHANGED outcome

Next ==
  \E r \in Request :
    Call(r) \/ Succeed(r) \/ Fail(r) \/ Refuse(r) \/ TakeEffect(r)

Spec == Init /\ [][Next]_vars

================================================================================
