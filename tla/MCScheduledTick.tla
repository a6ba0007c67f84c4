--------------------------- MODULE MCScheduledTick ---------------------------
(* Two connections: an administrator's defaults reach the setups of one,   *)
(* Claude Desktop uses the other.                                          *)
EXTENDS ScheduledTick
=============================================================================
