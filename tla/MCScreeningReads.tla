--------------------------- MODULE MCScreeningReads ---------------------------
(* Small instances of ScreeningReads, and of ScreeningProcessing, for TLC. *)
EXTENDS ScreeningReads

CONSTANTS s1, s2

MCServers == {s1, s2}
TwoScreenings == {1, 2}
\* A screening with one question, and one with two.
MixedQuestions == [c \in {1, 2} |-> c]
===============================================================================
