--------------------------- MODULE MCScrobbleBuffer ---------------------------
(* The constants of ScrobbleBuffer's runs.                                 *)
EXTENDS ScrobbleBuffer

CONSTANTS u1, u2, t1, t2, c1, c2

MCPlayTimes == {1, 2}
===============================================================================
