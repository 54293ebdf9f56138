----------------------------- MODULE LiveManager -----------------------------
(***************************************************************************)
(* One live stream key of LiveManager (src/app/tbc/live.py): its ffmpeg    *)
(* processes, the thread that reads each one's stderr, and the callers of  *)
(* start, stop and status.                                                 *)
(*                                                                         *)
(* The manager has no lock.  Handlers call it on the event loop, and the   *)
(* live wall calls start in executor threads (_start_live_items_limited),  *)
(* so a start is a sequence of steps that the stderr readers and another   *)
(* start may come between.  stop does not wait for ffmpeg to end: a        *)
(* terminated process may still write its playlist.                        *)
(*                                                                         *)
(* An attempt is one call that gets as far as _launch.  A message is       *)
(* abstracted to the attempt it describes.  _stopping only chooses log     *)
(* levels and is left out, as is the twenty-message limit.                 *)
(***************************************************************************)
EXTENDS Integers, FiniteSets

CONSTANTS
    Starters,     \* threads that call start; "loop" is the event loop
    MaxAttempts,  \* bound: launches
    MaxStops      \* bound: stops asked for by a user

ASSUME ParamsAssumption ==
    /\ "loop" \in Starters
    /\ MaxAttempts \in Nat /\ MaxStops \in Nat

Attempts == 1 .. MaxAttempts
NoAttempt == 0

VARIABLES
    pc,          \* where a caller stands in start
    attempt,     \* the attempt it is launching
    ticket,      \* the generation it has computed
    nextAttempt,
    process,     \* _processes[key]: an attempt, or NoAttempt
    generation,  \* _generation[key]
    cooling,     \* RETRY_COOLDOWN_SECONDS have not passed since a launch
    playlist,    \* the playlist file exists
    messages,    \* attempts described in _messages[key]
    ffmpeg,      \* an attempt's process
    born,        \* the generation its reader was started with
    reader,      \* where its reader stands in _read_stderr
    overlapped,  \* ghost: two starts were under way at once
    stops

start == <<pc, attempt, ticket, nextAttempt>>
shared == <<process, generation, cooling, playlist>>
threads == <<ffmpeg, born, reader>>
vars == <<pc, attempt, ticket, nextAttempt, process, generation, cooling,
          playlist, messages, ffmpeg, born, reader, overlapped, stops>>

Running(a) == ffmpeg[a] = "running"
\* poll() is not None.
Exited(a) == ffmpeg[a] = "exited"

Status == CASE process = NoAttempt -> "stopped"
            [] process # NoAttempt /\ Exited(process) -> "failed"
            [] process # NoAttempt /\ ~Exited(process) /\ playlist -> "running"
            [] OTHER -> "starting"

Init ==
    /\ pc = [c \in Starters |-> "idle"]
    /\ attempt = [c \in Starters |-> NoAttempt]
    /\ ticket = [c \in Starters |-> 0]
    /\ nextAttempt = 1
    /\ process = NoAttempt /\ generation = 0
    /\ cooling = FALSE /\ playlist = FALSE
    /\ messages = {}
    /\ ffmpeg = [a \in Attempts |-> "none"]
    /\ born = [a \in Attempts |-> 0]
    /\ reader = [a \in Attempts |-> "none"]
    /\ overlapped = FALSE
    /\ stops = 0

-----------------------------------------------------------------------------
(* start and _launch.                                                      *)

\* The stream does not run yet, as far as the caller can see: it launches.
Launch(c) ==
    /\ pc[c] = "idle"
    /\ nextAttempt \in Attempts
    /\ pc' = [pc EXCEPT ![c] = "stop"]
    /\ attempt' = [attempt EXCEPT ![c] = nextAttempt]
    /\ nextAttempt' = nextAttempt + 1
    /\ overlapped' = (overlapped \/ \E d \in Starters : pc[d] # "idle")
    /\ UNCHANGED <<ticket, shared, messages, threads, stops>>

\* A caller asks for the stream.
Start(c) == Status # "running" /\ Launch(c)

\* A status poll of the wall finds the stream failed: should_retry.
RetryStopped == Status = "stopped" /\ Launch("loop") \* mutant: wrong status
Retry ==
    /\ Status = "failed"
    /\ ~cooling
    /\ Launch("loop")

\* stop pops the process and terminates it.
PopOnly == process' = NoAttempt /\ UNCHANGED ffmpeg \* mutant: no terminate
PopAndTerminate ==
    /\ process' = NoAttempt
    /\ ffmpeg' = [a \in Attempts |-> IF a = process /\ Running(a)
                                     THEN "terminated" ELSE ffmpeg[a]]

StopOld(c) ==
    /\ pc[c] = "stop"
    /\ PopAndTerminate
    /\ cooling' = TRUE
    /\ pc' = [pc EXCEPT ![c] = "read"]
    /\ UNCHANGED <<attempt, ticket, nextAttempt, generation, playlist, messages,
                   born, reader, overlapped, stops>>

ReadGenerationSame(c) ==                           \* mutant: no increment
    /\ pc[c] = "read"
    /\ ticket' = [ticket EXCEPT ![c] = generation]
    /\ pc' = [pc EXCEPT ![c] = "write"]
    /\ UNCHANGED <<attempt, nextAttempt, shared, messages, threads, overlapped,
                   stops>>
ReadGeneration(c) ==
    /\ pc[c] = "read"
    /\ ticket' = [ticket EXCEPT ![c] = generation + 1]
    /\ pc' = [pc EXCEPT ![c] = "write"]
    /\ UNCHANGED <<attempt, nextAttempt, shared, messages, threads, overlapped,
                   stops>>

WriteGeneration(c) ==
    /\ pc[c] = "write"
    /\ generation' = ticket[c]
    /\ pc' = [pc EXCEPT ![c] = "clear"]
    /\ UNCHANGED <<attempt, ticket, nextAttempt, process, cooling, playlist,
                   messages, threads, overlapped, stops>>

\* The directory is emptied, the messages start anew.
Clear(c) ==
    /\ pc[c] = "clear"
    /\ playlist' = FALSE
    /\ messages' = {attempt[c]}
    /\ pc' = [pc EXCEPT ![c] = "spawn"]
    /\ UNCHANGED <<attempt, ticket, nextAttempt, process, generation, cooling,
                   threads, overlapped, stops>>

Spawn(c) ==
    /\ pc[c] = "spawn"
    /\ ffmpeg' = [ffmpeg EXCEPT ![attempt[c]] = "running"]
    /\ pc' = [pc EXCEPT ![c] = "publish"]
    /\ UNCHANGED <<attempt, ticket, nextAttempt, shared, messages, born, reader,
                   overlapped, stops>>

SpawnFailsRollingBack(c) ==                        \* mutant: gives it back
    /\ pc[c] = "spawn"
    /\ pc' = [pc EXCEPT ![c] = "idle"]
    /\ generation' = generation - 1
    /\ UNCHANGED <<attempt, ticket, nextAttempt, process, cooling, playlist,
                   messages, threads, overlapped, stops>>

\* Popen raises: the caller logs it and notes it for the user.
SpawnFails(c) ==
    /\ pc[c] = "spawn"
    /\ pc' = [pc EXCEPT ![c] = "idle"]
    /\ messages' = messages \cup {attempt[c]}
    /\ UNCHANGED <<attempt, ticket, nextAttempt, shared, threads, overlapped,
                   stops>>

\* The process is entered and its reader started.
Publish(c) ==
    /\ pc[c] = "publish"
    /\ process' = attempt[c]
    /\ born' = [born EXCEPT ![attempt[c]] = ticket[c]]
    /\ reader' = [reader EXCEPT ![attempt[c]] = "line"]
    /\ pc' = [pc EXCEPT ![c] = "idle"]
    /\ UNCHANGED <<attempt, ticket, nextAttempt, generation, cooling, playlist,
                   messages, ffmpeg, overlapped, stops>>

-----------------------------------------------------------------------------
(* ffmpeg and the thread that reads its stderr.                            *)

Outside == UNCHANGED <<start, process, generation, cooling, messages, born,
                       reader, overlapped, stops>>

\* A process that has not exited writes its playlist.
WritePlaylist(a) ==
    /\ ffmpeg[a] \in {"running", "terminated"}
    /\ playlist' = TRUE
    /\ UNCHANGED ffmpeg
    /\ Outside

Exit(a) ==
    /\ ffmpeg[a] \in {"running", "terminated"}
    /\ ffmpeg' = [ffmpeg EXCEPT ![a] = "exited"]
    /\ UNCHANGED playlist
    /\ Outside

ReaderStep(a, from, to) ==
    /\ reader[a] = from
    /\ reader' = [reader EXCEPT ![a] = to]
    /\ UNCHANGED <<start, shared, ffmpeg, born, overlapped, stops>>

\* _append_message, first half: is the reader's generation still current?
Current(a) == generation = born[a]

\* A line, then the exit code, then the diagnosis.  Each is appended only
\* after the check, and the check of a line that fails skips that line; the
\* check of the others ends the thread.
CheckLine(a) ==
    /\ Current(a)
    /\ ReaderStep(a, "line", "appendLine")
    /\ UNCHANGED messages

CheckExit(a) ==
    /\ Exited(a)
    /\ ReaderStep(a, "line", IF Current(a) THEN "appendExit" ELSE "done")
    /\ UNCHANGED messages

\* Exit code 0 has nothing to say.
ExitClean(a) ==
    /\ Exited(a)
    /\ ReaderStep(a, "line", "done")
    /\ UNCHANGED messages

\* Only a stream that never wrote a playlist is diagnosed, which takes seconds.
CheckDiagnosis(a) ==
    /\ ReaderStep(a, "diagnose", IF Current(a) THEN "appendDiagnosis" ELSE "done")
    /\ UNCHANGED messages

\* _append_message, second half.
Append(a) ==
    /\ \/ ReaderStep(a, "appendLine", "line")
       \/ ReaderStep(a, "appendExit", IF playlist THEN "done" ELSE "diagnose")
       \/ ReaderStep(a, "appendDiagnosis", "done")
    /\ messages' = messages \cup {a}

-----------------------------------------------------------------------------
(* Users and time.                                                         *)

Stop ==
    /\ pc["loop"] = "idle"
    /\ stops < MaxStops
    /\ stops' = stops + 1
    /\ PopAndTerminate
    /\ UNCHANGED <<start, generation, cooling, playlist, messages, born, reader,
                   overlapped>>

CoolDown ==
    /\ cooling
    /\ cooling' = FALSE
    /\ UNCHANGED <<start, process, generation, playlist, messages, threads,
                   overlapped, stops>>

\* Every launch of the bound was used and nothing is under way.
Quiet ==
    /\ nextAttempt \notin Attempts
    /\ \A c \in Starters : pc[c] = "idle"
    /\ UNCHANGED vars

-----------------------------------------------------------------------------
CallerNext(c) ==
    \/ StopOld(c) \/ ReadGeneration(c) \/ WriteGeneration(c)
    \/ Clear(c) \/ Spawn(c) \/ SpawnFails(c) \/ Publish(c)

ReaderNext(a) ==
    \/ CheckLine(a) \/ CheckExit(a) \/ ExitClean(a)
    \/ CheckDiagnosis(a) \/ Append(a)

Next ==
    \/ \E c \in Starters : Start(c)
    \/ Retry
    \/ \E c \in Starters : CallerNext(c)
    \/ \E a \in Attempts : WritePlaylist(a)
    \/ \E a \in Attempts : Exit(a)
    \/ \E a \in Attempts : ReaderNext(a)
    \/ Stop
    \/ CoolDown
    \/ Quiet

Spec == Init /\ [][Next]_vars

\* A page that is open polls the status, a start that began runs to its end,
\* time passes, and a terminated process exits.  Nobody has to ask for a
\* stream, and a running ffmpeg need not fail.
Fairness ==
    /\ WF_vars(Retry)
    /\ WF_vars(CoolDown)
    /\ \A c \in Starters : WF_vars(CallerNext(c))

FairSpec == Spec /\ Fairness

-----------------------------------------------------------------------------
(* Properties.                                                             *)

TypeOK ==
    /\ pc \in [Starters -> {"idle", "stop", "read", "write", "clear", "spawn",
                           "publish"}]
    /\ attempt \in [Starters -> Attempts \cup {NoAttempt}]
    /\ ticket \in [Starters -> Nat]
    /\ nextAttempt \in 1 .. (MaxAttempts + 1)
    /\ process \in Attempts \cup {NoAttempt}
    /\ generation \in Nat
    /\ cooling \in BOOLEAN /\ playlist \in BOOLEAN
    /\ messages \subseteq Attempts
    /\ ffmpeg \in [Attempts -> {"none", "running", "terminated", "exited"}]
    /\ born \in [Attempts -> Nat]
    /\ reader \in [Attempts -> {"none", "line", "appendLine", "appendExit",
                                "diagnose", "appendDiagnosis", "done"}]
    /\ overlapped \in BOOLEAN
    /\ stops \in Nat

\* Every ffmpeg that was not told to end is the one stop would terminate, or
\* is about to be: as long as two starts never overlapped there is no stray.
NoStray ==
    ~overlapped =>
        \A a \in Attempts : Running(a) =>
            a = process \/ \E c \in Starters : pc[c] = "publish" /\ attempt[c] = a

\* Generations tell attempts apart, which is what the readers' check rests on:
\* two published attempts of one generation come only from overlapping starts.
GenerationsDistinct ==
    ~overlapped =>
        \A a, b \in Attempts :
            reader[a] # "none" /\ reader[b] # "none" /\ born[a] = born[b] => a = b

\* The change log says only the current generation's messages are ever
\* recorded: a step that records a message is the current generation's.
OnlyCurrentRecorded ==
    [][\A a \in Attempts :
          reader[a] # "none" /\ a \in messages' /\ a \notin messages =>
              born[a] = generation]_vars

\* A stream whose ffmpeg died is launched again while a page polls it.
Dead == Status = "failed" /\ nextAttempt \in Attempts
Alive == Status # "failed" \/ nextAttempt \notin Attempts
FailedIsRetried == Dead ~> Alive
=============================================================================
