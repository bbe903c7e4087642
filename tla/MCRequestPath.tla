---------------------------- MODULE MCRequestPath ----------------------------
(* An instance of RequestPath for TLC. *)
EXTENDS RequestPath, TLC

\* Users and requests are interchangeable: no operator tells two of them apart.
Symmetry == Permutations(Users) \cup Permutations(Requests)

=============================================================================
