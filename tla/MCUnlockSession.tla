-------------------------- MODULE MCUnlockSession --------------------------
(* Two databases in the sidebar.                                           *)
EXTENDS UnlockSession

CONSTANTS p1, p2

MCPaths == {p1, p2}
=============================================================================
