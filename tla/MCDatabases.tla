---------------------------- MODULE MCDatabases ----------------------------
(* Three databases, interchangeable.                                       *)
EXTENDS Databases, TLC

CONSTANTS a, b, c

MCPaths == {a, b, c}
Symmetry == Permutations(MCPaths)
=============================================================================
