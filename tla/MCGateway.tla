----------------------------- MODULE MCGateway ------------------------------
(* Symmetry for checking Gateway with TLC. *)
EXTENDS Gateway, TLC

\* Ports are interchangeable.
Symmetry == Permutations(Port)
=============================================================================
