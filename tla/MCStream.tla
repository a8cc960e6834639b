-------------------------------- MODULE MCStream --------------------------------
(***************************************************************************)
(* Three frames, so that one is in Redis, one in hand and one pending; one *)
(* goroutine or read loop given up, and a successor for either.            *)
(***************************************************************************)
EXTENDS Stream

=============================================================================
