--------------------------- MODULE ProjectCommands ---------------------------
(***************************************************************************)
(* What commands about a project and one quarantined upload of it lock, and  *)
(* what they append to the audit chains, in the order of their handlers.     *)
(* Reads without a lock and rows nobody else writes are left out.            *)
(***************************************************************************)
Lock(row) == [op |-> "lock", on |-> row]

Record(chain) == [op |-> "append", on |-> chain]

\* Commands on the project alone, like the confirmation of its document set.
ProjectCommand == <<Lock("project"), Record("project")>>

\* An administrator sends a dead-lettered upload back to the workers.
RequeueProcessing ==
    <<Lock("project"), Lock("upload"), Record("upload"), Record("project")>>

\* A worker records that processing failed.  It does not lock the project, nor
\* does the dead letter of an upload or the CLEAN verdict of a scanner, which
\* execute the same statements.
RecordFailure == <<Lock("upload"), Record("upload"), Record("project")>>

\* A worker registers the document revision and completes the upload.
CompleteProcessing ==
    <<Lock("upload"), Lock("project"), Record("project"),
      Record("upload"), Record("project")>>
=============================================================================
