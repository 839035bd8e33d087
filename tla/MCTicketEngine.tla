---------------------------- MODULE MCTicketEngine ----------------------------
(* Instances of TicketEngine for TLC. *)
EXTENDS TicketEngine, TLC

CONSTANTS u1, u2, r1, r2

Symmetry == Permutations(Users) \cup Permutations(Requests)
===============================================================================
