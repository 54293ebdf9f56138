-------------------------- MODULE MCEventRecording --------------------------
(* EventRecording on one camera with one or two detection keys: see the     *)
(* .cfg files.                                                              *)
EXTENDS EventRecording
=============================================================================
