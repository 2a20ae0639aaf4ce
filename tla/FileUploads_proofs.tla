-------------------------- MODULE FileUploads_proofs --------------------------
(***************************************************************************)
(* What holds of FileUploads for any number of requests, contents and       *)
(* pieces: the types, that no row is without a blob, and that blobs written *)
(* by several requests at once end up whole.                               *)
(***************************************************************************)
EXTENDS FileUploads, TLAPS

(* Types: each step of CreateFile, DeleteFile and the crash keeps them. *)
LEMMA TypeStep == TypeOK /\ [Next]_vars => TypeOK'
<1> USE ConstantsAssumption
<1> SUFFICES ASSUME TypeOK, [Next]_vars PROVE TypeOK'
  OBVIOUS
<1> USE DEF TypeOK, Active, Finished, Whole, blobVars, Goto, Fault
<1>1. ASSUME NEW u \in Uploads, OpenTemp(u) PROVE TypeOK'
  BY <1>1 DEF OpenTemp
<1>2. ASSUME NEW u \in Uploads, CheckAndHash(u) PROVE TypeOK'
  BY <1>2 DEF CheckAndHash
<1>3. ASSUME NEW u \in Uploads, CheckExists(u) PROVE TypeOK'
  BY <1>3 DEF CheckExists
<1>4. ASSUME NEW u \in Uploads, CreateBlob(u) PROVE TypeOK'
  BY <1>4 DEF CreateBlob
<1>5. ASSUME NEW u \in Uploads, WritePiece(u) PROVE TypeOK'
  <2>1. copied[u] + 1 \in 1..Pieces
    BY <1>5 DEF WritePiece
  <2>2. copied' \in [Uploads -> 0..Pieces] /\ written' \in [Contents -> SUBSET (1..Pieces)]
    BY <1>5, <2>1 DEF WritePiece
  <2> QED
    BY <1>5, <2>2 DEF WritePiece
<1>6. ASSUME NEW u \in Uploads, WriteEnds(u) PROVE TypeOK'
  BY <1>6 DEF WriteEnds
<1>7. ASSUME NEW u \in Uploads, CallFails(u) PROVE TypeOK'
  BY <1>7 DEF CallFails
<1>8. ASSUME NEW u \in Uploads, SaveRow(u) PROVE TypeOK'
  BY <1>8 DEF SaveRow
<1>9. ASSUME NEW u \in Uploads, Settle(u) PROVE TypeOK'
  BY <1>9 DEF Settle
<1>10. ASSUME NEW u \in Uploads, DeleteFile(u) PROVE TypeOK'
  BY <1>10 DEF DeleteFile, HashFilter, HashColumn
<1>11. ASSUME Crash PROVE TypeOK'
  BY <1>11 DEF Crash
<1>12. ASSUME UNCHANGED vars PROVE TypeOK'
  BY <1>12 DEF vars
<1> QED
  BY <1>1, <1>2, <1>3, <1>4, <1>5, <1>6, <1>7, <1>8, <1>9, <1>10, <1>11, <1>12 DEF Next

(* Type correctness, for any requests, contents and pieces. *)
THEOREM TypeCorrect == Spec => []TypeOK
<1>1. Init => TypeOK
  BY ConstantsAssumption DEF Init, TypeOK, Active, Finished, Whole
<1> QED
  BY <1>1, TypeStep, PTL DEF Spec

(* No step takes a blob away: a delete request goes no further than the     *)
(* listing that fails.                                                    *)
LEMMA BlobsKept == TypeOK /\ [Next]_vars => exists \subseteq exists'
<1> SUFFICES ASSUME TypeOK, [Next]_vars PROVE exists \subseteq exists'
  OBVIOUS
<1>1. ASSUME NEW u \in Uploads, DeleteFile(u) PROVE exists' = exists
  BY <1>1 DEF DeleteFile, HashFilter, HashColumn
<1>2. ASSUME NEW u \in Uploads, ~DeleteFile(u),
             \/ OpenTemp(u) \/ CheckAndHash(u) \/ CheckExists(u) \/ CreateBlob(u)
             \/ WritePiece(u) \/ WriteEnds(u) \/ CallFails(u) \/ SaveRow(u) \/ Settle(u)
      PROVE exists \subseteq exists'
  BY <1>2 DEF OpenTemp, CheckAndHash, CheckExists, CreateBlob, WritePiece, WriteEnds,
              CallFails, SaveRow, Settle, blobVars
<1> QED
  BY <1>1, <1>2 DEF Next, Crash, vars, blobVars

(* A request decides on the blob before it saves the row; what it decided on *)
(* is still there.                                                         *)
LEMMA RowsStep ==
  TypeOK /\ RowsHaveBlob /\ [Next]_vars => RowsHaveBlob'
<1> SUFFICES ASSUME TypeOK, RowsHaveBlob, [Next]_vars, NEW v \in Uploads,
                    row'[v] # "absent" \/ step'[v] \in {"writing", "stored"}
             PROVE ContentOf[v] \in exists'
  BY DEF RowsHaveBlob
<1>1. exists \subseteq exists'
  BY BlobsKept
<1>2. CASE row[v] # "absent" \/ step[v] \in {"writing", "stored"}
  BY <1>1, <1>2 DEF RowsHaveBlob
<1>3. CASE row[v] = "absent" /\ step[v] \notin {"writing", "stored"}
  <2> USE <1>3 DEF TypeOK, Goto, blobVars
  <2>1. ASSUME NEW u \in Uploads, CheckExists(u) PROVE ContentOf[v] \in exists'
    BY <2>1 DEF CheckExists
  <2>2. ASSUME NEW u \in Uploads, CreateBlob(u) PROVE ContentOf[v] \in exists'
    BY <2>2 DEF CreateBlob
  <2>3. ASSUME NEW u \in Uploads,
               \/ OpenTemp(u) \/ CheckAndHash(u) \/ WritePiece(u) \/ WriteEnds(u)
               \/ CallFails(u) \/ SaveRow(u) \/ Settle(u) \/ DeleteFile(u)
        PROVE FALSE
    BY <2>3 DEF OpenTemp, CheckAndHash, WritePiece, WriteEnds, CallFails, SaveRow,
                Settle, DeleteFile, HashFilter, HashColumn
  <2>4. ~Crash /\ ~UNCHANGED vars
    BY DEF Crash, vars
  <2> QED
    BY <2>1, <2>2, <2>3, <2>4 DEF Next
<1> QED
  BY <1>2, <1>3

(* A request that has not created its blob has copied nothing to it. *)
FreshCopies ==
  \A u \in Uploads : step[u] \in {"idle", "open", "hashed", "missing"} => copied[u] = 0

LEMMA FreshStep == TypeOK /\ FreshCopies /\ [Next]_vars => FreshCopies'
<1> SUFFICES ASSUME TypeOK, FreshCopies, [Next]_vars PROVE FreshCopies'
  OBVIOUS
<1> USE DEF TypeOK, FreshCopies, Goto
<1>1. ASSUME NEW u \in Uploads,
             \/ OpenTemp(u) \/ CheckAndHash(u) \/ CheckExists(u)
             \/ CreateBlob(u) \/ WriteEnds(u) \/ CallFails(u)
      PROVE FreshCopies'
  BY <1>1 DEF OpenTemp, CheckAndHash, CheckExists, CreateBlob, WriteEnds, CallFails
<1>2. ASSUME NEW u \in Uploads,
             WritePiece(u) \/ SaveRow(u) \/ Settle(u) \/ DeleteFile(u)
      PROVE FreshCopies'
  BY <1>2 DEF WritePiece, SaveRow, Settle, DeleteFile
<1> QED
  BY <1>1, <1>2 DEF Next, Crash, vars

(* Of the requests that write a blob, the one that emptied it last has all it *)
(* has copied in it.                                                        *)
Rewritten(c) ==
  \E u \in Uploads : /\ step[u] = "writing" /\ ContentOf[u] = c
                     /\ 1..copied[u] \subseteq written[c]

LastWriterWhole == \A c \in exists \ broken : written[c] = Whole \/ Rewritten(c)

LEMMA LastWriterStep ==
  TypeOK /\ FreshCopies /\ LastWriterWhole /\ [Next]_vars => LastWriterWhole'
<1> USE ConstantsAssumption
<1> SUFFICES ASSUME TypeOK, FreshCopies, LastWriterWhole, [Next]_vars,
                    NEW c \in exists' \ broken'
             PROVE (written[c] = Whole \/ Rewritten(c))'
  BY DEF LastWriterWhole
<1> USE DEF TypeOK, Goto, blobVars
<1>1. ASSUME NEW u \in Uploads, CreateBlob(u) PROVE (written[c] = Whole \/ Rewritten(c))'
  <2>1. CASE c = ContentOf[u]
    <3>1. copied'[u] = 0 /\ step'[u] = "writing"
      BY <1>1 DEF CreateBlob, FreshCopies
    <3> QED
      BY <2>1, <3>1 DEF Rewritten
  <2>2. CASE c # ContentOf[u]
    <3>1. c \in exists \ broken /\ written'[c] = written[c]
      BY <1>1, <2>2 DEF CreateBlob
    <3>2. ASSUME NEW v \in Uploads, step[v] = "writing" PROVE step'[v] = "writing"
      BY <1>1, <3>2 DEF CreateBlob
    <3> QED
      BY <1>1, <3>1, <3>2 DEF CreateBlob, LastWriterWhole, Rewritten
  <2> QED
    BY <2>1, <2>2
<1>2. ASSUME NEW u \in Uploads, WritePiece(u) PROVE (written[c] = Whole \/ Rewritten(c))'
  <2>1. c \in exists \ broken /\ step' = step
    BY <1>2 DEF WritePiece
  <2>2. copied[u] + 1 \in Whole
    BY <1>2 DEF WritePiece, Whole
  <2>3. written[c] \subseteq written'[c] /\ written'[c] \subseteq Whole
    BY <1>2, <2>1, <2>2 DEF WritePiece, Whole
  <2>4. ASSUME NEW v \in Uploads, ContentOf[v] = c, 1..copied[v] \subseteq written[c]
        PROVE 1..copied'[v] \subseteq written'[c]
    <3>1. CASE v = u
      <4>1. copied'[v] = copied[v] + 1 /\ written'[c] = written[c] \cup {copied[v] + 1}
        BY <1>2, <2>4, <3>1 DEF WritePiece
      <4>2. 1..(copied[v] + 1) = (1..copied[v]) \cup {copied[v] + 1}
        OBVIOUS
      <4> QED
        BY <2>4, <4>1, <4>2
    <3>2. CASE v # u
      BY <1>2, <2>3, <2>4, <3>2 DEF WritePiece
    <3> QED
      BY <3>1, <3>2
  <2>5. CASE written[c] = Whole
    BY <2>3, <2>5
  <2>6. CASE Rewritten(c)
    BY <2>1, <2>4, <2>6 DEF Rewritten
  <2> QED
    BY <2>1, <2>5, <2>6 DEF LastWriterWhole
<1>3. ASSUME NEW u \in Uploads, WriteEnds(u) PROVE (written[c] = Whole \/ Rewritten(c))'
  <2>1. c \in exists \ broken /\ written' = written /\ copied' = copied
    BY <1>3 DEF WriteEnds
  <2>2. CASE written[c] = Whole
    BY <2>1, <2>2
  <2>3. ASSUME NEW v \in Uploads, step[v] = "writing", ContentOf[v] = c,
               1..copied[v] \subseteq written[c]
        PROVE (written[c] = Whole \/ Rewritten(c))'
    <3>1. CASE v = u
      <4>1. copied[v] = Pieces
        BY <1>3, <3>1 DEF WriteEnds, AllCopied
      <4> QED
        BY <2>1, <2>3, <4>1 DEF Whole
    <3>2. CASE v # u
      <4>1. step'[v] = "writing"
        BY <1>3, <2>3, <3>2 DEF WriteEnds
      <4> QED
        BY <2>1, <2>3, <4>1 DEF Rewritten
    <3> QED
      BY <3>1, <3>2
  <2> QED
    BY <2>1, <2>2, <2>3 DEF LastWriterWhole, Rewritten
<1>4. ASSUME NEW u \in Uploads, CallFails(u) PROVE (written[c] = Whole \/ Rewritten(c))'
  <2>1. c \in exists \ broken /\ written' = written /\ copied' = copied
    BY <1>4 DEF CallFails
  <2>2. ASSUME NEW v \in Uploads, step[v] = "writing", ContentOf[v] = c
        PROVE step'[v] = "writing"
    BY <1>4, <2>2 DEF CallFails
  <2> QED
    BY <2>1, <2>2 DEF LastWriterWhole, Rewritten
<1>5. ASSUME Crash PROVE (written[c] = Whole \/ Rewritten(c))'
  <2>1. c \in exists \ broken /\ written' = written
    BY <1>5 DEF Crash
  <2>2. ~Rewritten(c)
    BY <1>5 DEF Crash, Rewritten
  <2> QED
    BY <2>1, <2>2 DEF LastWriterWhole
<1>6. ASSUME NEW u \in Uploads,
             \/ OpenTemp(u) \/ CheckAndHash(u) \/ CheckExists(u)
             \/ SaveRow(u) \/ Settle(u) \/ DeleteFile(u)
      PROVE (written[c] = Whole \/ Rewritten(c))'
  <2>1. c \in exists \ broken /\ written' = written /\ copied' = copied
    BY <1>6 DEF OpenTemp, CheckAndHash, CheckExists, SaveRow, Settle, DeleteFile,
                HashFilter, HashColumn
  <2>2. ASSUME NEW v \in Uploads, step[v] = "writing" PROVE step'[v] = "writing"
    BY <1>6, <2>2 DEF OpenTemp, CheckAndHash, CheckExists, SaveRow, Settle, DeleteFile
  <2> QED
    BY <2>1, <2>2 DEF LastWriterWhole, Rewritten
<1>7. ASSUME UNCHANGED vars PROVE (written[c] = Whole \/ Rewritten(c))'
  BY <1>7 DEF vars, LastWriterWhole, Rewritten
<1> QED
  BY <1>1, <1>2, <1>3, <1>4, <1>5, <1>6, <1>7 DEF Next

LEMMA InductiveInvariantParts ==
  InductiveInvariant <=> TypeOK /\ RowsHaveBlob /\ FreshCopies /\ LastWriterWhole
BY DEF InductiveInvariant, FreshCopies, LastWriterWhole, Rewritten

(* The strengthened invariant of the uploads. *)
THEOREM InductiveInvariantCorrect == Spec => []InductiveInvariant
<1>1. Init => InductiveInvariant
  BY ConstantsAssumption
     DEF Init, InductiveInvariant, TypeOK, RowsHaveBlob, Active, Finished, Whole
<1>2. InductiveInvariant /\ [Next]_vars => InductiveInvariant'
  <2> SUFFICES ASSUME InductiveInvariant, [Next]_vars PROVE InductiveInvariant'
    OBVIOUS
  <2>1. TypeOK /\ RowsHaveBlob /\ FreshCopies /\ LastWriterWhole
    BY InductiveInvariantParts
  <2>2. TypeOK' /\ RowsHaveBlob' /\ FreshCopies' /\ LastWriterWhole'
    BY <2>1, TypeStep, RowsStep, FreshStep, LastWriterStep
  <2> QED
    BY <2>2 DEF InductiveInvariant, FreshCopies, LastWriterWhole, Rewritten
<1> QED
  BY <1>1, <1>2, PTL DEF Spec

(* No file in the database is without a blob to be processed from. *)
THEOREM RowsCorrect == Spec => []RowsHaveBlob
<1>1. InductiveInvariant => RowsHaveBlob
  BY DEF InductiveInvariant
<1> QED
  BY <1>1, InductiveInvariantCorrect, PTL

(* A blob that nobody writes and no write of which was cut short is whole. *)
THEOREM BlobsCorrect == Spec => []BlobsHeal
<1>1. InductiveInvariant => BlobsHeal
  BY InductiveInvariantParts DEF LastWriterWhole, Rewritten, BlobsHeal
<1> QED
  BY <1>1, InductiveInvariantCorrect, PTL
===============================================================================
