---------------------------- MODULE ExportFiles -----------------------------
(***************************************************************************)
(* The export of the businesses to a file, createExport of the API: the    *)
(* record is created PROCESSING, the file written beside its place, moved  *)
(* into it and measured, and the record COMPLETED.  An error before that   *)
(* last update removes both files and marks the record FAILED.  The last   *)
(* update is returned without await, so its error reaches the caller and   *)
(* never the catch.  Each export has a file of its own.                    *)
(*                                                                         *)
(* The businesses are only counted.  Caught is a faulty variant of the     *)
(* operator defined after it; no action uses it.                           *)
(***************************************************************************)
EXTENDS Integers

CONSTANTS
  Exports,   \* the identifiers of the exports
  MaxStock,  \* bound on the number of businesses
  MaxRows    \* the largest file: 2147483647 bytes, in rows

ASSUME ExportAssumption == MaxStock \in Nat /\ MaxRows \in Nat

VARIABLES
  stock,   \* the businesses that the filters keep
  record,  \* the status of each export's row, "none" before it exists
  rowCount,\* its rowCount
  writer,  \* where createExport is
  found,   \* the rows it read
  temp,    \* the rows of the file beside its place
  placed,  \* the rows of the file in its place
  served   \* the downloads: the export and the rows of the file that was sent

exportVars == <<stock, record, rowCount, writer, found, temp, placed, served>>

Absent == -1
Part   == -2  \* a file that is not whole

ExportInit ==
  /\ stock \in 0..MaxStock
  /\ record = [e \in Exports |-> "none"] /\ rowCount = [e \in Exports |-> 0]
  /\ writer = [e \in Exports |-> "idle"] /\ found = [e \in Exports |-> 0]
  /\ temp = [e \in Exports |-> Absent] /\ placed = [e \in Exports |-> Absent] /\ served = {}

-----------------------------------------------------------------------------
StockChanges ==
  /\ stock' \in 0..MaxStock
  /\ UNCHANGED <<record, rowCount, writer, found, temp, placed, served>>

CreateExport(e) ==
  /\ record[e] = "none" /\ record' = [record EXCEPT ![e] = "PROCESSING"]
  /\ writer' = [writer EXCEPT ![e] = "reading"]
  /\ UNCHANGED <<stock, rowCount, found, temp, placed, served>>

FindRows(e) ==
  /\ writer[e] = "reading" /\ writer' = [writer EXCEPT ![e] = "writing"]
  /\ found' = [found EXCEPT ![e] = stock]
  /\ UNCHANGED <<stock, record, rowCount, temp, placed, served>>

StartFile(e) ==
  /\ writer[e] = "writing" /\ temp[e] = Absent /\ temp' = [temp EXCEPT ![e] = Part]
  /\ UNCHANGED <<stock, record, rowCount, writer, found, placed, served>>

FinishFile(e) ==
  /\ writer[e] = "writing" /\ temp[e] = Part /\ temp' = [temp EXCEPT ![e] = found[e]]
  /\ writer' = [writer EXCEPT ![e] = "renaming"]
  /\ UNCHANGED <<stock, record, rowCount, found, placed, served>>

Rename(e) ==
  /\ writer[e] = "renaming" /\ writer' = [writer EXCEPT ![e] = "measuring"]
  /\ placed' = [placed EXCEPT ![e] = temp[e]] /\ temp' = [temp EXCEPT ![e] = Absent]
  /\ UNCHANGED <<stock, record, rowCount, found, served>>

StatFile(e) ==
  /\ writer[e] = "measuring"
  /\ writer' = [writer EXCEPT ![e] = IF placed[e] > MaxRows THEN "removing" ELSE "completing"]
  /\ UNCHANGED <<stock, record, rowCount, found, temp, placed, served>>

\* An error of the query or of the file system, inside the try.
Fault(e) ==
  /\ writer[e] \in {"reading", "writing", "renaming", "measuring"}
  /\ writer' = [writer EXCEPT ![e] = "removing"]
  /\ UNCHANGED <<stock, record, rowCount, found, temp, placed, served>>

Caught  == "removing"
Escapes == "idle"

\* The update is made or not, and its answer arrives or is an error.
Complete(e) ==
  /\ writer[e] = "completing"
  /\ \E made, answered \in BOOLEAN :
       /\ answered => made
       /\ record' = [record EXCEPT ![e] = IF made THEN "COMPLETED" ELSE @]
       /\ rowCount' = [rowCount EXCEPT ![e] = IF made THEN found[e] ELSE @]
       /\ writer' = [writer EXCEPT ![e] = IF answered THEN "idle" ELSE Escapes]
  /\ UNCHANGED <<stock, found, temp, placed, served>>

\* The errors of unlink are ignored: either file may stay.
RemoveFiles(e) ==
  /\ writer[e] = "removing" /\ writer' = [writer EXCEPT ![e] = "failing"]
  /\ \E t \in {temp[e], Absent}, f \in {placed[e], Absent} :
       temp' = [temp EXCEPT ![e] = t] /\ placed' = [placed EXCEPT ![e] = f]
  /\ UNCHANGED <<stock, record, rowCount, found, served>>

MarkFailed(e) ==
  /\ writer[e] = "failing" /\ record' = [record EXCEPT ![e] = "FAILED"]
  /\ writer' = [writer EXCEPT ![e] = "idle"]
  /\ UNCHANGED <<stock, rowCount, found, temp, placed, served>>

\* The process stops, or the update to FAILED fails.
Stop(e) ==
  /\ writer[e] # "idle" /\ writer' = [writer EXCEPT ![e] = "idle"]
  /\ UNCHANGED <<stock, record, rowCount, found, temp, placed, served>>

Download(e) ==
  /\ record[e] = "COMPLETED" /\ placed[e] # Absent /\ served' = served \union {<<e, placed[e]>>}
  /\ UNCHANGED <<stock, record, rowCount, writer, found, temp, placed>>

ExportNext ==
  \/ StockChanges
  \/ \E e \in Exports :
       \/ CreateExport(e) \/ FindRows(e) \/ StartFile(e) \/ FinishFile(e) \/ Rename(e)
       \/ StatFile(e) \/ Fault(e) \/ Complete(e) \/ RemoveFiles(e) \/ MarkFailed(e)
       \/ Stop(e) \/ Download(e)

ExportSpec == ExportInit /\ [][ExportNext]_exportVars

-----------------------------------------------------------------------------
(* Property.                                                               *)

\* An export shown as COMPLETED keeps its whole file in place, with the rows it counts,
\* whatever fails or stops and when; what was ever downloaded is such a file
\* (service.ts 285-294: the write beside the place, the rename, the catch).
CompletedHasFile ==
  /\ \A e \in Exports :
       record[e] = "COMPLETED" => placed[e] = rowCount[e] /\ rowCount[e] \in 0..MaxRows
  /\ \A d \in served : record[d[1]] = "COMPLETED" /\ d[2] = rowCount[d[1]]
=============================================================================
