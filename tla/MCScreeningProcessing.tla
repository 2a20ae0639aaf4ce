------------------------- MODULE MCScreeningProcessing -------------------------
(* Small instances of ScreeningProcessing for TLC. *)
EXTENDS ScreeningProcessing

CONSTANTS s1, s2

MCServers == {s1, s2}
TwoScreenings == {1, 2}
\* A screening with one question, and one with two.
MixedQuestions == [c \in {1, 2} |-> c]
===============================================================================
