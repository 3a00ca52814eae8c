--------------------------- MODULE MCDurableFiles ---------------------------
\* A small instance of DurableFiles for TLC.
EXTENDS DurableFiles, TLC

\* Calls, files and contents are interchangeable.
Symmetry == Permutations(Process) \cup Permutations(Inode) \cup Permutations(Body)
=============================================================================
