--------------------------- MODULE MCDirectoryUnit ---------------------------
(* The directory tree of DirectoryUnit for TLC.                            *)
EXTENDS DirectoryUnit

CONSTANTS root, sub   \* directories

UnderRoot == [d \in Sub |-> root]
=============================================================================
