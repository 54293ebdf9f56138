--------------------------- MODULE FirmwareUpdates ---------------------------
(***************************************************************************)
(* Firmware checks and updates of one camera channel (routers/cameras.py,  *)
(* main.py _run_firmware_update_task).  FIRMWARE_UPDATE_STATE is one       *)
(* dictionary entry that requests, the task of an update and its progress  *)
(* callback all write; an update goes on while requests come in.           *)
(***************************************************************************)
EXTENDS Naturals, FiniteSets

CONSTANTS
    Checks,     \* requests to check that may wait for the camera together
    Updates,    \* update tasks that may run together
    MaxStarts   \* bound: checks and updates ever started

VARIABLES
    entry,      \* FIRMWARE_UPDATE_STATE[key]
    checking,   \* the checks under way
    updating,   \* the update tasks under way
    starts

firmwareVars == <<entry, checking, updating, starts>>

\* offered: update_available is there, and true.
Entry(status, offered) == [status |-> status, offered |-> offered]

Init ==
    /\ entry = Entry("idle", FALSE)
    /\ checking = {}
    /\ updating = {}
    /\ starts = 0

Started == starts < MaxStarts /\ starts' = starts + 1

\* check_camera_firmware writes before it asks the camera ...
BeginCheck(c) ==
    /\ c \notin checking
    /\ Started
    /\ entry' = Entry("checking", FALSE)
    /\ checking' = checking \cup {c}
    /\ UNCHANGED updating

CheckForgetsFailure(c) ==                    \* mutant: a failure is not written
    /\ c \in checking
    /\ checking' = checking \ {c}
    /\ \/ entry' = Entry("available", TRUE)
       \/ entry' = Entry("up_to_date", FALSE)
       \/ UNCHANGED entry
    /\ UNCHANGED <<updating, starts>>

\* ... and when it answers, fails or times out.
EndCheck(c) ==
    /\ c \in checking
    /\ checking' = checking \ {c}
    /\ \/ entry' = Entry("available", TRUE)
       \/ entry' = Entry("up_to_date", FALSE)
       \/ entry' = Entry("failed", FALSE)
    /\ UNCHANGED <<updating, starts>>

\* start_camera_firmware_update: refused without an offer, or while updating.
StartUpdate(u) ==
    /\ u \notin updating
    /\ Started
    /\ entry.offered
    /\ entry.status # "updating"
    /\ entry' = [entry EXCEPT !.status = "updating"]
    /\ updating' = updating \cup {u}
    /\ UNCHANGED checking

\* on_progress takes the entry over from whoever wrote it last.
Progress(u) ==
    /\ u \in updating
    /\ entry' = [entry EXCEPT !.status = "updating"]
    /\ UNCHANGED <<checking, updating, starts>>

\* A failed update may be tried again; a finished one has nothing to offer.
EndUpdate(u) ==
    /\ u \in updating
    /\ updating' = updating \ {u}
    /\ \/ entry' = [entry EXCEPT !.status = "failed"]
       \/ entry' = Entry("done", FALSE)
    /\ UNCHANGED <<checking, starts>>

Next ==
    \/ \E c \in Checks : BeginCheck(c) \/ EndCheck(c)
    \/ \E u \in Updates : StartUpdate(u) \/ Progress(u) \/ EndUpdate(u)

\* The camera answers or the call times out; an update ends.
Fairness ==
    /\ \A c \in Checks : WF_firmwareVars(EndCheck(c))
    /\ \A u \in Updates : WF_firmwareVars(EndUpdate(u))

Spec == Init /\ [][Next]_firmwareVars
FairSpec == Spec /\ Fairness

-----------------------------------------------------------------------------
(* Properties.                                                             *)

TypeOK ==
    /\ entry \in [status : {"idle", "checking", "available", "up_to_date",
                            "updating", "failed", "done"},
                  offered : BOOLEAN]
    /\ checking \subseteq Checks
    /\ updating \subseteq Updates
    /\ starts \in 0 .. MaxStarts

\* Checks and updates that write over each other leave no page waiting: once
\* everything has ended the entry says how.
Told == entry.status \notin {"checking", "updating"}
PagesAreTold == <>[]Told

\* routers/cameras.py answers a second start with "An update is already
\* running": never two at once on one channel.
OneUpdate == Cardinality(updating) <= 1
=============================================================================
