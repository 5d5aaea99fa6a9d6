---------------------------- MODULE MCConnWorker ----------------------------
(* Symmetry of the requests of each kind, for checking the safety of ConnWorker
   with TLC. *)
EXTENDS ConnWorker, TLC

\* Requests of a kind are interchangeable.
Symmetry == Permutations(UIReq) \cup Permutations(SQLReq)
=============================================================================
