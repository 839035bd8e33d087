-------------------------------- MODULE Browser --------------------------------
(* The tabs of one browser: they share localStorage and nothing else. *)
CONSTANT Tabs
===============================================================================
