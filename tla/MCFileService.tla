--------------------------- MODULE MCFileService ---------------------------
(* Instances of FileService for TLC.                                       *)
EXTENDS ObservedFiles, TLC

CONSTANTS a, b, u1, u2, u3, d1, g1

\* Everything is about one file.
SameFile == [r \in Upload \cup Delete \cup Get |-> a]
=============================================================================
