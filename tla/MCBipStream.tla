---------------------------- MODULE MCBipStream ----------------------------
(***************************************************************************)
(* BipStream with two byte values and a buffer of a few bytes: enough for  *)
(* both blocks, a reservation beside each and every split of the contents. *)
(***************************************************************************)
EXTENDS BipStream

MCByte == {0, 1}
=============================================================================
