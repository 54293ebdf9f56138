----------------------------- MODULE MCRetention -----------------------------
(* Retention on an older, remote recording and a newer, local one whose     *)
(* files cannot be removed.  While its target stays what it was, a remote   *)
(* recording takes the same steps as a local one that can be removed.       *)
EXTENDS Retention

Older == {1}
Newer == {2}
NoRecording == {}
=============================================================================
