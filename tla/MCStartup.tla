----------------------------- MODULE MCStartup -----------------------------
\* A file in a folder, a file beside it that is ignored and a Google Doc.
EXTENDS StartupScan, TLC

CONSTANTS folder, inner, outer, doc, left, right

MCFolders  == {folder}
MCFiles    == {inner, outer}
MCIgnored  == {outer}
MCDocs     == {doc}
MCParent   == inner :> folder @@ folder :> Root @@ outer :> Root @@ doc :> Root
MCVersions == {left, right}
Symmetry   == Permutations(MCVersions)
=============================================================================
