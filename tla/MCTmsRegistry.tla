-------------------------- MODULE MCTmsRegistry --------------------------
(***************************************************************************)
(* TmsRegistry with four sockets, so that numbers are reused at once, a    *)
(* manager table that they overfill, and a device table of one frame of    *)
(* two slots and the extra row.                                            *)
(***************************************************************************)
EXTENDS TmsRegistry

MCFds == 3 .. 6
MCAddrs == {58, 59}
=============================================================================
