--------------------------- MODULE MCFrontendSession ---------------------------
(* Instances of FrontendSession for TLC. *)
EXTENDS FrontendSession, TLC

CONSTANTS t1, t2, buyer, seller

\* One tab does everything but look at the profile, the other only that.
VisitedPages == t1 :> Paths \ {"/profile"} @@ t2 :> {"/profile"}
===============================================================================
