--------------------------- MODULE MCLocalEvents ---------------------------
\* Two files and a scratch file in the watched folder, and a folder with a file.
EXTENDS LocalEvents, TLC

CONSTANTS one, two, scratch, folder, inner

MCFiles   == {one, two, scratch, inner}
MCParent  == [x \in {one, two, scratch, folder} |-> Root] @@ inner :> folder
=============================================================================
