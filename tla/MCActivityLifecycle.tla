-------------------------- MODULE MCActivityLifecycle --------------------------
(* Instances of ActivityLifecycle for TLC. *)
EXTENDS ActivityLifecycle, TLC

CONSTANTS u1, u2, m1, m2

\* Update accepts any integer as the capacity.
AnyCapacity == {-1, 1, 2}

NotStale == ~stale
===============================================================================
