--------------------------- MODULE MCFileProcessing ---------------------------
(* Small instances of FileProcessing for TLC. *)
EXTENDS FileProcessing, TLC

CONSTANTS s1, s2

MCServers == {s1, s2}
TwoFiles == {1, 2}
ThreeFiles == {1, 2, 3}
\* A file without documents, next to one with two.
MixedDocuments == [f \in {1, 2} |-> IF f = 1 THEN 2 ELSE 0]
MixedDocumentsThree == [f \in {1, 2, 3} |-> IF f = 2 THEN 0 ELSE 1]

ServerSymmetry == Permutations(MCServers)
===============================================================================
