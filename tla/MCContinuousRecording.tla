------------------------ MODULE MCContinuousRecording ------------------------
(* ContinuousRecording on a handful of segments: see the .cfg files.        *)
EXTENDS ContinuousRecording
=============================================================================
