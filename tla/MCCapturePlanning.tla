---------------------------- MODULE MCCapturePlanning ----------------------------
(* Small instances of CapturePlanning for TLC.  The days have three hours. *)
EXTENDS CapturePlanning

SmallSchedules == {{}, {0}, {2}, {0, 1}}
==============================================================================
