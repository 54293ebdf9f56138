---------------------------- MODULE ClipRegister ----------------------------
(***************************************************************************)
(* What event recording promises to whoever reads the recordings table and *)
(* to the detection loop: per key one clip after the other, and per clip   *)
(* one life.  A clip begins when its key is free, and only while it holds  *)
(* its key does its row say something new: from recording to ready, naming *)
(* a whole set of stored files, or to failed, and from ready to failed     *)
(* when what follows the storing fails.  A failed clip, and one whose key  *)
(* was given back, is as it is until it is deleted.  Rows may go at any    *)
(* time, and a restart frees every key.  EventRecording implements this    *)
(* (its Implements).                                                       *)
(***************************************************************************)
CONSTANTS
    Keys,     \* what a recording is started for
    Clips,    \* the ids a row may get
    Nobody,   \* holds no key
    Whole     \* the sets of files a stored clip can consist of

VARIABLES
    holder,   \* the clip that keeps a key from being recorded again
    life,     \* what the clip's row says
    names     \* the files it names

vars == <<holder, life, names>>

Init ==
    /\ holder = [k \in Keys |-> Nobody]
    /\ life = [c \in Clips |-> "unborn"]
    /\ names = [c \in Clips |-> {}]

Begin(k, c) ==
    /\ holder[k] = Nobody
    /\ life[c] = "unborn"
    /\ holder' = [holder EXCEPT ![k] = c]
    /\ life' = [life EXCEPT ![c] = "recording"]
    /\ UNCHANGED names

\* The key goes back, now or after some more work.
MayRelease(k) == holder' \in {holder, [holder EXCEPT ![k] = Nobody]}

\* The clip is stored.
Store(k, c, whole) ==
    /\ holder[k] = c
    /\ life[c] = "recording"
    /\ life' = [life EXCEPT ![c] = "ready"]
    /\ names' = [names EXCEPT ![c] = whole]
    /\ MayRelease(k)

\* It is not; a clip whose last write failed half way may name its files.
Fail(k, c, named) ==
    /\ holder[k] = c
    /\ life[c] = "recording"
    /\ life' = [life EXCEPT ![c] = "failed"]
    /\ names' = [names EXCEPT ![c] = named]
    /\ holder' = [holder EXCEPT ![k] = Nobody]

\* What follows the storing fails, and so does the clip.
Spoil(k, c) ==
    /\ holder[k] = c
    /\ life[c] = "ready"
    /\ life' = [life EXCEPT ![c] = "failed"]
    /\ holder' = [holder EXCEPT ![k] = Nobody]
    /\ UNCHANGED names

\* The holder is done, or gone.
Release(k) ==
    /\ holder' = [holder EXCEPT ![k] = Nobody]
    /\ UNCHANGED <<life, names>>

\* Rows are deleted, one or all of a camera.
Delete(gone) ==
    /\ \A c \in gone : life[c] \in {"recording", "ready", "failed"}
    /\ life' = [c \in Clips |-> IF c \in gone THEN "deleted" ELSE life[c]]
    /\ names' = [c \in Clips |-> IF c \in gone THEN {} ELSE names[c]]
    /\ UNCHANGED holder

Restart ==
    /\ holder' = [k \in Keys |-> Nobody]
    /\ UNCHANGED <<life, names>>

Next ==
    \/ \E k \in Keys, c \in Clips : Begin(k, c) \/ Spoil(k, c)
    \/ \E k \in Keys, c \in Clips, whole \in Whole : Store(k, c, whole)
    \/ \E k \in Keys, c \in Clips, named \in Whole \cup {{}} : Fail(k, c, named)
    \/ \E k \in Keys : Release(k)
    \/ \E gone \in SUBSET Clips : Delete(gone)
    \/ Restart

Spec == Init /\ [][Next]_vars
=============================================================================
