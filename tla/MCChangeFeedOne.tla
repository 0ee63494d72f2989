-------------------------- MODULE MCChangeFeedOne --------------------------
(* One file under the watched root: longer histories of the same file.     *)
EXTENDS ChangeFeed

CONSTANTS root, a

MCFiles == {root, a}
MCScoped == {a}
=============================================================================
