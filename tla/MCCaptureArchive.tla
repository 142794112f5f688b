--------------------------- MODULE MCCaptureArchive ---------------------------
(* Small instances of CaptureArchive for TLC. *)
EXTENDS CaptureArchive
============================================================================
