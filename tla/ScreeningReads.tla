---------------------------- MODULE ScreeningReads ----------------------------
(***************************************************************************)
(* What a client is shown of a screening while the servers work on it:       *)
(* FindScreening and ListScreenings (screening.go, adapter/store), and the   *)
(* mapping of the result by the REST adapter.  A read is a transaction of    *)
(* several statements.  Its isolation is READ COMMITTED, so every statement   *)
(* sees what has been committed before it: first the row with its status,     *)
(* then its files, its questions and the answers to those.                  *)
(*                                                                         *)
(* Of a listing the model follows one screening: the others are read between *)
(* its statements, which takes time but changes nothing.                    *)
(***************************************************************************)
EXTENDS ScreeningProcessing

ASSUME ReadsAssumption == Screenings # {}

VARIABLES
  statement, \* the statement the read has come to, "idle" when there is none
  reading,   \* the screening that is read
  shown      \* what has been read of it

readVars == <<statement, reading, shown>>
allVars  == <<vars, readVars>>

Nothing == [status |-> ABSENT, files |-> FALSE, questions |-> FALSE, answers |-> 0]

ReadsTypeOK ==
  /\ TypeOK
  /\ statement \in {"idle", "files", "questions", "answers", "loaded"}
  /\ reading \in Screenings
  /\ shown \in [status : IF statement = "idle" THEN {ABSENT} ELSE ScreeningStatus,
                files : BOOLEAN, questions : BOOLEAN, answers : Nat]

ReadsInit ==
  /\ Init
  /\ statement = "idle"
  /\ reading = Min(Screenings)
  /\ shown = Nothing

-------------------------------------------------------------------------------
(* The rows that the inner joins let through, each with its status. *)
FoundByOuterJoin == Screenings

Found == {c \in Screenings : status[c] # ABSENT /\ status[c] \in events[c]}

SelectRow(c) ==
  /\ statement = "idle"
  /\ statement' = "files"
  /\ reading' = c
  /\ shown' = [Nothing EXCEPT !.status = status[c]]
  /\ UNCHANGED vars

(* An id that is not found is answered at once. *)
FindScreening == \E c \in Found : SelectRow(c)

ListScreenings == \E c \in Newest(Found, ListLimit) : SelectRow(c)

SelectFiles ==
  /\ statement = "files"
  /\ statement' = "questions"
  /\ shown' = [shown EXCEPT !.files = linked[reading]]
  /\ UNCHANGED <<vars, reading>>

(* Without questions there is no query for answers. *)
SelectQuestions ==
  /\ statement = "questions"
  /\ statement' = IF linked[reading] THEN "answers" ELSE "loaded"
  /\ shown' = [shown EXCEPT !.questions = linked[reading]]
  /\ UNCHANGED <<vars, reading>>

SelectAnswers ==
  /\ statement = "answers"
  /\ statement' = "loaded"
  /\ shown' = [shown EXCEPT !.answers = answers[reading]]
  /\ UNCHANGED <<vars, reading>>

EndRead ==
  /\ statement' = "idle"
  /\ reading' = Min(Screenings)
  /\ shown' = Nothing
  /\ UNCHANGED vars

Respond == statement = "loaded" /\ EndRead

(* The client hangs up, a statement errs, the server stops. *)
ReadFails == statement \in {"files", "questions", "answers"} /\ EndRead

(* The same statements with the row read last. *)
ReadStepRowLast ==
  \/ \E c \in Found :
       /\ statement = "idle"
       /\ statement' = "answers"
       /\ reading' = c
       /\ shown' = [status |-> status[c], files |-> linked[c], questions |-> linked[c],
                    answers |-> answers[c]]
       /\ UNCHANGED vars
  \/ /\ statement = "answers" /\ reading \in Found
     /\ statement' = "loaded"
     /\ shown' = [shown EXCEPT !.status = status[reading]]
     /\ UNCHANGED <<vars, reading>>
  \/ Respond \/ ReadFails

(* The same statements with the files read last. *)
ReadStepFilesLast ==
  \/ FindScreening \/ ListScreenings
  \/ /\ statement = "files"
     /\ statement' = "questions"
     /\ UNCHANGED <<vars, reading, shown>>
  \/ SelectQuestions
  \/ /\ statement = "answers"
     /\ statement' = "loaded"
     /\ shown' = [shown EXCEPT !.answers = answers[reading], !.files = linked[reading]]
     /\ UNCHANGED <<vars, reading>>
  \/ Respond \/ ReadFails

ReadStep ==
  \/ FindScreening \/ ListScreenings
  \/ SelectFiles \/ SelectQuestions \/ SelectAnswers
  \/ Respond \/ ReadFails

ReadsNext == (Next /\ UNCHANGED readVars) \/ ReadStep

ReadsSpec == ReadsInit /\ [][ReadsNext]_allVars

-------------------------------------------------------------------------------
(* A client that is shown COMPLETED is shown the files, the questions and all  *)
(* their answers with it.  Only a delete that commits between the statements, *)
(* or one before a late save that brought the row back, takes some of that    *)
(* away, and then from the end: of the answers all are missing or none, they  *)
(* are never shown without their questions, nor those without the files.     *)
ShownWholeOrDeleted ==
  statement = "loaded" /\ shown.status = COMPLETED =>
    /\ shown.answers = 0 => reading \in deleted
    /\ shown.answers # 0 => shown.questions /\ shown.answers = QuestionCount[reading]
    /\ shown.questions => shown.files
===============================================================================
