------------------------------ MODULE FileUploads ------------------------------
(***************************************************************************)
(* How a file enters the knowledge base and how it should leave it:         *)
(* CreateFile and DeleteFile (file.go) over the file storage adapter, which *)
(* keeps one blob per content, named by its hash, in a directory, beside    *)
(* the database rows.  The requests are goroutines of one server; nothing   *)
(* orders their calls to the directory.                                    *)
(*                                                                         *)
(* An upload and the file it makes have one name.  A blob is the set of the  *)
(* pieces io.Copy has written at their offsets.                             *)
(***************************************************************************)
EXTENDS Naturals, FiniteSets

CONSTANTS
  Uploads,    \* the upload requests
  Contents,   \* what can be uploaded, up to equality of the hash
  ContentOf,  \* the content each request carries
  Allowed,    \* the contents checkContentType lets pass
  Pieces,     \* how many pieces io.Copy writes
  MaxFaults   \* bound: crashes and failed calls in a behaviour

ASSUME ConstantsAssumption ==
  /\ ContentOf \in [Uploads -> Contents]
  /\ Allowed \subseteq Contents
  /\ Pieces \in Nat \ {0}
  /\ MaxFaults \in Nat

Whole == 1..Pieces

VARIABLES
  step,     \* where each request is in CreateFile
  temp,     \* the requests whose temporary file is on disk
  copied,   \* how many pieces a request has written to the blob
  exists,   \* the contents with a blob in the directory
  written,  \* the pieces each blob holds
  broken,   \* history: contents one of whose writes was cut short
  row,      \* the files' rows, as far as DeleteFile tells them apart
  reply,    \* the last answer of a delete request for each file
  faults

blobVars == <<exists, written, broken>>
vars     == <<step, temp, copied, blobVars, row, reply, faults>>

Active   == {"open", "hashed", "missing", "writing", "stored"}
Finished == {"accepted", "refused", "lost"}

TypeOK ==
  /\ step \in [Uploads -> {"idle"} \cup Active \cup Finished]
  /\ temp \in SUBSET Uploads
  /\ copied \in [Uploads -> 0..Pieces]
  /\ exists \in SUBSET Contents
  /\ written \in [Contents -> SUBSET Whole]
  /\ broken \in SUBSET Contents
  /\ row \in [Uploads -> {"absent", "unsettled", "settled"}]
  /\ reply \in [Uploads -> {"none", "refused", "failed", "deleted"}]
  /\ faults \in 0..MaxFaults

Init ==
  /\ step = [u \in Uploads |-> "idle"]
  /\ temp = {}
  /\ copied = [u \in Uploads |-> 0]
  /\ exists = {}
  /\ written = [c \in Contents |-> {}]
  /\ broken = {}
  /\ row = [u \in Uploads |-> "absent"]
  /\ reply = [u \in Uploads |-> "none"]
  /\ faults = 0

Fault == faults < MaxFaults /\ faults' = faults + 1

Goto(u, next) == step' = [step EXCEPT ![u] = next]

-------------------------------------------------------------------------------
(* CreateFile. *)

OpenTemp(u) ==
  /\ step[u] = "idle"
  /\ temp' = temp \cup {u}
  /\ Goto(u, "open")
  /\ UNCHANGED <<copied, blobVars, row, reply, faults>>

(* The content is sniffed, copied to the temporary file and hashed.  A return *)
(* from here on, up to the deferred DeleteTempFile, leaves that file behind.   *)
CheckAndHash(u) ==
  /\ step[u] = "open"
  /\ Goto(u, IF ContentOf[u] \in Allowed THEN "hashed" ELSE "refused")
  /\ UNCHANGED <<temp, copied, blobVars, row, reply, faults>>

CheckExists(u) ==
  /\ step[u] = "hashed"
  /\ Goto(u, IF ContentOf[u] \in exists THEN "stored" ELSE "missing")
  /\ UNCHANGED <<temp, copied, blobVars, row, reply, faults>>

(* os.Create empties a blob that another request has written meanwhile. *)
CreateBlob(u) ==
  /\ step[u] = "missing"
  /\ exists' = exists \cup {ContentOf[u]}
  /\ written' = [written EXCEPT ![ContentOf[u]] = {}]
  /\ Goto(u, "writing")
  /\ UNCHANGED <<temp, copied, broken, row, reply, faults>>

WritePieceOnAndOn(u) ==
  /\ step[u] = "writing"
  /\ copied' = [copied EXCEPT ![u] = @ + 1]
  /\ written' = [written EXCEPT ![ContentOf[u]] = @ \cup {copied[u] + 1}]
  /\ UNCHANGED <<step, temp, exists, broken, row, reply, faults>>

WritePiece(u) ==
  /\ step[u] = "writing" /\ copied[u] < Pieces
  /\ copied' = [copied EXCEPT ![u] = @ + 1]
  /\ written' = [written EXCEPT ![ContentOf[u]] = @ \cup {copied[u] + 1}]
  /\ UNCHANGED <<step, temp, exists, broken, row, reply, faults>>

AllButOneCopied(u) == copied[u] + 1 >= Pieces

AllCopied(u) == copied[u] = Pieces

WriteEnds(u) ==
  /\ step[u] = "writing"
  /\ AllCopied(u)
  /\ Goto(u, "stored")
  /\ UNCHANGED <<temp, copied, blobVars, row, reply, faults>>

(* An error before the blob is written; a write that fails leaves the blob   *)
(* as it is, and Exists finds it from then on.                              *)
CallFails(u) ==
  /\ step[u] \in {"open", "hashed", "missing", "writing"}
  /\ Fault
  /\ broken' = IF step[u] = "writing" THEN broken \cup {ContentOf[u]} ELSE broken
  /\ Goto(u, "refused")
  /\ UNCHANGED <<temp, copied, exists, written, row, reply>>

(* The transaction that saves the row, and the deferred DeleteTempFile. *)
SaveRow(u) ==
  /\ step[u] = "stored"
  /\ \/ /\ row' = [row EXCEPT ![u] = "unsettled"]
        /\ Goto(u, "accepted")
        /\ UNCHANGED faults
     \/ /\ Fault
        /\ Goto(u, "refused")
        /\ UNCHANGED row
  /\ temp' = temp \ {u}
  /\ UNCHANGED <<copied, blobVars, reply>>

(* The server stops: the requests are lost, the directory stays as it is. *)
Crash ==
  /\ \E u \in Uploads : step[u] \in Active
  /\ Fault
  /\ step' = [u \in Uploads |-> IF step[u] \in Active THEN "lost" ELSE step[u]]
  /\ broken' = broken \cup {ContentOf[u] : u \in {v \in Uploads : step[v] = "writing"}}
  /\ UNCHANGED <<temp, copied, exists, written, row, reply>>

-------------------------------------------------------------------------------
(* The file pipeline takes the file to an outcome. *)
Settle(u) ==
  /\ row[u] = "unsettled"
  /\ row' = [row EXCEPT ![u] = "settled"]
  /\ UNCHANGED <<step, temp, copied, blobVars, reply, faults>>

(* The column that holds the hash, and the one the filter of ListFiles names. *)
HashColumn == "file_hash"

HashColumnQueried == "file_hash"

HashFilter == "hash"

SameContent(u) == {v \in Uploads : row[v] # "absent" /\ ContentOf[v] = ContentOf[u]}

(* DeleteFile of a file that no screening uses.  An error of the listing by   *)
(* hash is not looked at, but it has aborted the transaction: the delete      *)
(* statements fail and nothing of the file is removed.  What a listing that   *)
(* works would lead to is one step: no behaviour gets there.                  *)
DeleteFile(u) ==
  /\ row[u] # "absent"
  /\ LET refused == row[u] = "unsettled"
         deleted == ~refused /\ HashFilter = HashColumn
         last    == deleted /\ Cardinality(SameContent(u)) = 1 IN
       /\ reply' = [reply EXCEPT ![u] = IF refused THEN "refused"
                                        ELSE IF deleted THEN "deleted" ELSE "failed"]
       /\ row' = IF deleted THEN [row EXCEPT ![u] = "absent"] ELSE row
       /\ exists' = IF last THEN exists \ {ContentOf[u]} ELSE exists
       /\ written' = IF last THEN [written EXCEPT ![ContentOf[u]] = {}] ELSE written
  /\ UNCHANGED <<step, temp, copied, broken, faults>>

Next ==
  \/ \E u \in Uploads :
       \/ OpenTemp(u) \/ CheckAndHash(u) \/ CheckExists(u)
       \/ CreateBlob(u) \/ WritePiece(u) \/ WriteEnds(u) \/ CallFails(u)
       \/ SaveRow(u) \/ Settle(u) \/ DeleteFile(u)
  \/ Crash

Spec == Init /\ [][Next]_vars

-------------------------------------------------------------------------------
(* Every file in the database, and every upload about to be saved, has a blob *)
(* to be processed from.  The requests decide on the blob long before they     *)
(* save the row, so this rests on no blob being deleted meanwhile: a DeleteFile *)
(* whose listing by hash worked would break it.                               *)
RowsHaveBlob ==
  \A u \in Uploads :
    row[u] # "absent" \/ step[u] \in {"writing", "stored"} => ContentOf[u] \in exists

(* However many uploads of one content write its blob at once, each emptying  *)
(* it for the others, it holds all of the content once they are through,       *)
(* unless one of the writes was cut short.                                    *)
BlobsHeal ==
  \A c \in exists \ broken :
    written[c] = Whole \/ \E u \in Uploads : step[u] = "writing" /\ ContentOf[u] = c

(* The strengthening under which the invariants above are inductive: of the   *)
(* requests that write a blob, the one that emptied it last has all it has     *)
(* copied in it.                                                            *)
InductiveInvariant ==
  /\ TypeOK
  /\ RowsHaveBlob
  /\ \A u \in Uploads : step[u] \in {"idle", "open", "hashed", "missing"} => copied[u] = 0
  /\ \A c \in exists \ broken :
       \/ written[c] = Whole
       \/ \E u \in Uploads : /\ step[u] = "writing" /\ ContentOf[u] = c
                            /\ 1..copied[u] \subseteq written[c]

(* "Upload a file and add documents extracted from it": when an upload is     *)
(* accepted, what is in storage for processing is the file.                  *)
AcceptedIsStored ==
  \A u \in Uploads : step[u] = "accepted" => written[ContentOf[u]] = Whole

(* "File deleted successfully": with no fault, deleting a processed file that *)
(* no screening uses succeeds.                                              *)
DeletesSucceed ==
  faults = 0 => \A u \in Uploads : reply[u] # "failed"
===============================================================================
