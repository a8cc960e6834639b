------------------------------- MODULE MCMetadata -------------------------------
(***************************************************************************)
(* The metadata refresher with two instruments, each with two definitions, *)
(* and room between two refreshes for a slow one.                          *)
(***************************************************************************)
EXTENDS Metadata, TLC

CONSTANTS i1, i2

TwoInstruments == <<i1, i2>>

\* Definitions are only compared with each other.
DefinitionSymmetry == Permutations(Definitions)

=============================================================================
