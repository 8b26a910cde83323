------------------------------- MODULE CachedStore -------------------------------
(***************************************************************************)
(* What a database with a cache of last values promises, whatever of the   *)
(* two fails: the times of the values are stored in order, and the cache   *)
(* takes the newest stored value of some keys at once, or lags behind.     *)
(***************************************************************************)

EXTENDS Naturals

CONSTANTS
  Key,   \* the series of values
  Time   \* the times of values, natural numbers above 0

VARIABLES
  stored,  \* the times of the values stored of each key
  cached   \* the time of the value the cache holds of each key, 0 if none

storeVars == <<stored, cached>>

Init ==
  /\ stored = [k \in Key |-> {}]
  /\ cached = [k \in Key |-> 0]

\* A value that is no older than any other is stored, possibly under several keys.
Insert(keys, time) ==
  /\ \A k \in Key : \A t \in stored[k] : t <= time
  /\ stored' = [k \in Key |-> IF k \in keys THEN stored[k] \cup {time} ELSE stored[k]]
  /\ UNCHANGED cached

Newest(k, time) == time \in stored[k] /\ \A t \in stored[k] : t <= time

\* The cache takes the newest value of each of these keys, in one step.
Publish(keys) ==
  /\ cached' \in [Key -> Time \cup {0}]
  /\ \A k \in Key : IF k \in keys THEN Newest(k, cached'[k]) ELSE cached'[k] = cached[k]
  /\ UNCHANGED stored

Next ==
  \/ \E keys \in SUBSET Key, time \in Time : Insert(keys, time)
  \/ \E keys \in SUBSET Key : Publish(keys)

Spec == Init /\ [][Next]_storeVars
================================================================================
