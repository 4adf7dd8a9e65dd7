---------------------------- MODULE MCReaderTimers ----------------------------
(* Instance of ReaderTimers for TLC; all its constants are in the .cfg files. *)
EXTENDS ReaderTimers
=============================================================================
