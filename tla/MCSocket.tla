-------------------------------- MODULE MCSocket --------------------------------
(***************************************************************************)
(* The streams are given in the .cfg: two, so that both expiring is the    *)
(* quorum.                                                                 *)
(***************************************************************************)
EXTENDS Socket, TLC

=============================================================================
