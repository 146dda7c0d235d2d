--------------------------- MODULE MCPersistence ---------------------------
(***************************************************************************)
(* Persistence for TLC.                                                    *)
(***************************************************************************)
EXTENDS Persistence, TLC

AnyUnit == Permutations(Units)
=============================================================================
