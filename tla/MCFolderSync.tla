---------------------------- MODULE MCFolderSync ----------------------------
\* Two folders and two files.
EXTENDS FolderSync, TLC

CONSTANTS left, right, first, second

MCFolders == {left, right}
MCFiles   == {first, second}
Symmetry  == Permutations(MCFolders) \cup Permutations(MCFiles)
=============================================================================
