---------------------------- MODULE MCRecordFile ----------------------------
(* The instance of RecordFile for TLC is in RecordFile.cfg. *)
EXTENDS RecordFile
=============================================================================
