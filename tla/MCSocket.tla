------------------------------ MODULE MCSocket ------------------------------
(* Socket with a few objects and descriptors, each interchangeable.        *)
EXTENDS Socket, TLC

Symmetric == Permutations(Objects) \cup Permutations(Descriptors)
=============================================================================
