----------------------------- MODULE MCSession -----------------------------
(***************************************************************************)
(* Short runs for TLC: one and two lots either way, so that trades open,   *)
(* grow, close and reverse.                                                *)
(***************************************************************************)
EXTENDS Session

MCSizes   == {1, -2}
MCResults == {1, 0, -1}
=============================================================================
