--------------------------- MODULE MCScanReceiver ---------------------------
(* Instances of ScanReceiver for TLC. *)
EXTENDS ScanReceiver
=============================================================================
