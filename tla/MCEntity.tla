---------------------------------- MODULE MCEntity ----------------------------------
(* HttpEntity with two threads. *)
EXTENDS HttpEntity, TLC

\* Threads, names and contents are only compared.
EntitySymmetry == Permutations(Thread) \cup Permutations(Name) \cup Permutations(Content)
================================================================================
