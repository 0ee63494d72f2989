---------------------------- MODULE MCFileSync ----------------------------
(* Two paths and one name for a conflict copy.                             *)
EXTENDS FileSync

CONSTANTS left, right, copy

MCPaths == {left, right}
MCCopies == {copy}
=============================================================================
