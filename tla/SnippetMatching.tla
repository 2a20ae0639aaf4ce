---------------------------- MODULE SnippetMatching ----------------------------
(***************************************************************************)
(* MatchSnippetsToDocuments (document.go): which of the documents given to  *)
(* the language model become the evidence of an answer, told by the         *)
(* snippets the model says it has used.  One step per document, as the loop *)
(* goes.                                                                   *)
(*                                                                         *)
(* A snippet is the sequence of its lines, a document the set of the lines   *)
(* its content contains, both up to case and surrounding white space.        *)
(***************************************************************************)
EXTENDS Naturals, SequencesExt

CONSTANTS
  Lines,      \* the lines a snippet may be made of
  Blank,      \* the line of white space among them
  Snippets,   \* the possible snippets: sequences of lines, never empty
  MaxSnippets, MaxDocuments \* bounds: how many of each

ASSUME ConstantsAssumption ==
  /\ Blank \in Lines
  /\ Snippets \subseteq Seq(Lines) \ {<<>>}
  /\ MaxSnippets \in Nat /\ MaxDocuments \in Nat

VARIABLES
  possible,  \* possibleSnippets, as the model returned them
  documents, \* what SearchDocuments found, nearest first
  pc, next,  \* "sanitize", "match" or "done"; the document of this round
  snippets,  \* the lines still looked for
  matched    \* the indexes of matchedDocuments

matchVars == <<possible, documents, pc, next, snippets, matched>>

BlankKept(s) == FlattenSeq(s)

(* The lines that are kept, one after the other: blank ones are skipped. *)
NonBlank(lines) ==
  LET kept[n \in 0..Len(lines)] ==
        IF n = 0 THEN <<>>
        ELSE IF lines[n] = Blank THEN kept[n - 1]
        ELSE Append(kept[n - 1], lines[n])
  IN  kept[Len(lines)]

Sanitized(s) == NonBlank(FlattenSeq(s))

MatchTypeOK ==
  /\ possible \in Seq(Snippets)
  /\ documents \in Seq(SUBSET (Lines \ {Blank}))
  /\ pc \in {"sanitize", "match", "done"}
  /\ next \in 1..Len(documents) + 1
  /\ snippets \in Seq(Lines \ {Blank})
  /\ matched \in Seq(1..Len(documents))

MatchInit ==
  /\ possible = <<>> /\ documents = <<>>
  /\ pc = "done" /\ next = 1
  /\ snippets = <<>> /\ matched = <<>>

(* A call with the snippets p and the documents d. *)
MatchSnippetsToDocuments(p, d) ==
  /\ pc = "done"
  /\ possible' = p /\ documents' = d
  /\ pc' = "sanitize" /\ next' = 1
  /\ snippets' = <<>> /\ matched' = <<>>

Sanitize ==
  /\ pc = "sanitize"
  /\ snippets' = Sanitized(possible)
  /\ pc' = "match"
  /\ UNCHANGED <<possible, documents, next, matched>>

(* The first line still looked for that the document contains, 0 if none. *)
FirstFoundOnlyFirst(d) == IF snippets # <<>> /\ snippets[1] \in d THEN 1 ELSE 0

FirstFound(d) == SelectInSeq(snippets, LAMBDA line : line \in d)

RemoveFoundNone(s, i) == s

RemoveFound(s, i) == RemoveAt(s, i)

MatchDocumentAgain ==
  /\ pc = "match" /\ next <= Len(documents) /\ snippets # <<>>
  /\ LET i == FirstFound(documents[next]) IN
       IF i = 0 THEN next' = next + 1 /\ UNCHANGED <<snippets, matched>>
       ELSE /\ snippets' = RemoveFound(snippets, i)
            /\ matched' = Append(matched, next)
            /\ next' = next
  /\ UNCHANGED <<possible, documents, pc>>

MatchDocument ==
  /\ pc = "match" /\ next <= Len(documents) /\ snippets # <<>>
  /\ LET i == FirstFound(documents[next]) IN
       IF i = 0 THEN UNCHANGED <<snippets, matched>>
       ELSE /\ snippets' = RemoveFound(snippets, i)
            /\ matched' = Append(matched, next)
  /\ next' = next + 1
  /\ UNCHANGED <<possible, documents, pc>>

Return ==
  /\ pc = "match" /\ (next > Len(documents) \/ snippets = <<>>)
  /\ pc' = "done"
  /\ UNCHANGED <<possible, documents, next, snippets, matched>>

(* The caller has taken the result. *)
MatchReturned ==
  /\ pc = "done"
  /\ possible' = <<>> /\ documents' = <<>>
  /\ next' = 1 /\ snippets' = <<>> /\ matched' = <<>>
  /\ UNCHANGED pc

MatchStep == Sanitize \/ MatchDocument \/ Return

MatchNext ==
  \/ \E p \in BoundedSeq(Snippets, MaxSnippets),
        d \in BoundedSeq(SUBSET (Lines \ {Blank}), MaxDocuments) :
       MatchSnippetsToDocuments(p, d)
  \/ MatchStep \/ MatchReturned

MatchSpec == MatchInit /\ [][MatchNext]_matchVars

-------------------------------------------------------------------------------
(* Every matched document has used up one line of its own, which it contains: *)
(* as many lines have gone as documents were matched, and what is left of     *)
(* them is still there, as often as it was.                                  *)
Times(line, s) == Cardinality({i \in DOMAIN s : s[i] = line})

OneLineEach ==
  pc # "sanitize" =>
    /\ Len(matched) + Len(snippets) = Len(Sanitized(possible))
    /\ \A line \in Lines :
         Times(line, snippets) <= Times(line, Sanitized(possible))
    /\ \A line \in Lines :
         Times(line, Sanitized(possible)) - Times(line, snippets)
           <= Cardinality({k \in DOMAIN matched : line \in documents[matched[k]]})

(* The evidence keeps the order of the search, nearest first, and names no    *)
(* document twice.                                                          *)
OrderKept ==
  \A j, k \in DOMAIN matched : j < k => matched[j] < matched[k]

(* A line is reported as unmatched only if no document that was looked at and *)
(* left out of the evidence contains it: no evidence is lost.                 *)
NoEvidenceLost ==
  \A d \in 1..next - 1 :
    (\A k \in DOMAIN matched : matched[k] # d) =>
      \A i \in DOMAIN snippets : snippets[i] \notin documents[d]
===============================================================================
