---------------------------- MODULE MCCaptureQueue ----------------------------
(* Small instances of CaptureQueue for TLC. *)
EXTENDS CaptureQueue

Symmetry ==
  Permutations(RunIds) \cup Permutations(Callers)
============================================================================
