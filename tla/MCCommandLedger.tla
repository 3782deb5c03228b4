--------------------------- MODULE MCCommandLedger ---------------------------
(***************************************************************************)
(* Instances of CommandLedger for TLC: a command of the API on a project,    *)
(* one on an upload, and the two shapes of worker commands.                  *)
(***************************************************************************)
EXTENDS CommandLedger, ProjectCommands

MCAggregate == {"project", "upload"}

MCWorkerCommand == {RecordFailure, CompleteProcessing}

MCApiCommand == {ProjectCommand, RequeueProcessing}
=============================================================================
