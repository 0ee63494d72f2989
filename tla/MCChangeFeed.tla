--------------------------- MODULE MCChangeFeed ---------------------------
(* Two files under the watched root and the root itself.                   *)
EXTENDS ChangeFeed

CONSTANTS root, a, b

MCFiles == {root, a, b}
MCScoped == {a, b}
=============================================================================
