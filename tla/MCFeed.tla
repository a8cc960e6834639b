--------------------------------- MODULE MCFeed ---------------------------------
(***************************************************************************)
(* The feed process on small instances.                                    *)
(***************************************************************************)
EXTENDS Feed, TLC

CONSTANTS i1, i2

TwoInstruments == <<i1, i2>>

=============================================================================
