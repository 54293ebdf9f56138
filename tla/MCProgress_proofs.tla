--------------------------- MODULE MCProgress_proofs --------------------------
(***************************************************************************)
(* Proofs about live streams, camera workers and the MQTT listener, for    *)
(* any number of callers, launches, edits and brokers, and about the other *)
(* machines of MCProgress, for any bounds but those it gives to packages,  *)
(* whose general proof is in MCServices_proofs. The inductive invariant of *)
(* LiveManager says that a start that runs alone has the entry and the     *)
(* generation to itself (StartInv), and that no reader is ahead of the     *)
(* generation (BornInv); those of the others are in their modules, or are  *)
(* their type invariants with what a step has in hand (ControlTyped,       *)
(* PackageTyped).                                                          *)
(***************************************************************************)
EXTENDS MCProgress, TLAPS, FiniteSetTheorems

\* A caller in start has an attempt.
HandInv == \A c \in Starters : pc[c] # "idle" => attempt[c] \in Attempts

\* Until two starts overlap, only one is under way.
AloneInv ==
    ~overlapped =>
        \A c, d \in Starters : pc[c] # "idle" /\ pc[d] # "idle" => c = d

\* What is true of that one: it has popped the process and nobody entered
\* another; its generation is the next, and then the current one, which no
\* reader has.
StartInv ==
    ~overlapped => \A c \in Starters :
        /\ pc[c] \in {"read", "write", "clear", "spawn", "publish"} =>
              process = NoAttempt
        /\ pc[c] = "write" => ticket[c] = generation + 1
        /\ pc[c] \in {"clear", "spawn", "publish"} =>
              /\ ticket[c] = generation
              /\ \A a \in Attempts : reader[a] # "none" => born[a] < generation

BornInv ==
    ~overlapped => \A a \in Attempts : reader[a] # "none" => born[a] <= generation

IInv ==
    /\ TypeOK /\ HandInv
    /\ AloneInv /\ StartInv /\ BornInv
    /\ NoStray
    /\ GenerationsDistinct

LEMMA InitIInv == Init => IInv
<1> SUFFICES ASSUME Init PROVE IInv
  OBVIOUS
<1> USE ParamsAssumption DEF Init
<1>1. TypeOK
  <2>1. nextAttempt \in 1 .. (MaxAttempts + 1)
    OBVIOUS
  <2>2. /\ pc \in [Starters -> {"idle"}]
        /\ attempt \in [Starters -> {NoAttempt}] /\ ticket \in [Starters -> {0}]
        /\ ffmpeg \in [Attempts -> {"none"}] /\ reader \in [Attempts -> {"none"}]
        /\ born \in [Attempts -> {0}]
    OBVIOUS
  <2> QED BY <2>1, <2>2 DEF TypeOK
<1>2. HandInv /\ AloneInv /\ StartInv /\ BornInv
  BY DEF HandInv, AloneInv, StartInv, BornInv
<1>3. NoStray /\ GenerationsDistinct
  BY DEF NoStray, GenerationsDistinct, Running
<1> QED BY <1>1, <1>2, <1>3 DEF IInv

\* A start begins: if it is to be alone, everybody else is idle.
LEMMA LaunchKeepsIInv ==
    ASSUME IInv, NEW c \in Starters, Launch(c)
    PROVE  IInv'
<1> USE DEF IInv, Launch, shared, threads
<1>1. TypeOK'
  BY ParamsAssumption DEF TypeOK, Attempts
<1>2. \A d \in Starters : d # c => pc'[d] = pc[d] /\ attempt'[d] = attempt[d]
  BY DEF TypeOK
<1>3. pc'[c] = "stop" /\ attempt'[c] = nextAttempt
  BY DEF TypeOK
<1>4. HandInv'
  BY <1>2, <1>3 DEF HandInv
<1>5. ~overlapped' => ~overlapped /\ \A d \in Starters : pc[d] = "idle"
  OBVIOUS
<1>6. AloneInv'
  BY <1>2, <1>5 DEF AloneInv
<1>7. StartInv' /\ BornInv'
  BY <1>2, <1>3, <1>5 DEF StartInv, BornInv
<1>8. NoStray'
  BY <1>2, <1>5 DEF NoStray, Running
<1>9. GenerationsDistinct'
  BY <1>5 DEF GenerationsDistinct
<1> QED BY <1>1, <1>4, <1>6, <1>7, <1>8, <1>9

\* The old process is popped, by a start or by a user.
LEMMA PopKeepsNoStray ==
    ASSUME TypeOK, NoStray, PopAndTerminate, overlapped' = overlapped,
           \A d \in Starters : pc[d] = "publish" =>
               pc'[d] = "publish" /\ attempt'[d] = attempt[d]
    PROVE  NoStray'
<1> SUFFICES ASSUME ~overlapped, NEW a \in Attempts, ffmpeg'[a] = "running"
             PROVE  \E d \in Starters : pc'[d] = "publish" /\ attempt'[d] = a
  BY DEF NoStray, Running
<1>1. Running(a) /\ a # process
  BY DEF PopAndTerminate, Running
<1> QED BY <1>1 DEF NoStray

LEMMA StopOldKeepsIInv ==
    ASSUME IInv, NEW c \in Starters, StopOld(c)
    PROVE  IInv'
<1> USE DEF IInv, StopOld
<1>1. TypeOK'
  BY DEF TypeOK, PopAndTerminate, Running
<1>2. \A d \in Starters : d # c => pc'[d] = pc[d]
  BY DEF TypeOK
<1>3. pc'[c] = "read" /\ process' = NoAttempt
  BY DEF TypeOK, PopAndTerminate
<1>4. HandInv' /\ AloneInv'
  BY <1>2, <1>3 DEF HandInv, AloneInv
<1>5. StartInv' /\ BornInv'
  BY <1>2, <1>3 DEF StartInv, BornInv
<1>6. NoStray'
  BY <1>2, PopKeepsNoStray
<1>7. GenerationsDistinct'
  BY DEF GenerationsDistinct
<1> QED BY <1>1, <1>4, <1>5, <1>6, <1>7

\* The generation is read, written, and the directory emptied.
LEMMA PrepareKeepsIInv ==
    ASSUME IInv, NEW c \in Starters,
           ReadGeneration(c) \/ WriteGeneration(c) \/ Clear(c)
    PROVE  IInv'
<1> USE DEF IInv, ReadGeneration, WriteGeneration, Clear, shared, threads
<1>1. TypeOK'
  <2>1. CASE ReadGeneration(c)
    BY <2>1 DEF TypeOK
  <2>2. CASE WriteGeneration(c)
    BY <2>2 DEF TypeOK
  <2>3. CASE Clear(c)
    BY <2>3 DEF TypeOK, HandInv
  <2> QED BY <2>1, <2>2, <2>3
<1>2. /\ overlapped' = overlapped /\ process' = process /\ attempt' = attempt
      /\ ffmpeg' = ffmpeg /\ born' = born /\ reader' = reader
  OBVIOUS
<1>3. \A d \in Starters : d # c => pc'[d] = pc[d] /\ ticket'[d] = ticket[d]
  BY DEF TypeOK
<1>4. pc[c] \in {"read", "write", "clear"} /\ pc'[c] \in {"write", "clear", "spawn"}
  BY DEF TypeOK
<1>5. HandInv' /\ AloneInv'
  BY <1>2, <1>3, <1>4 DEF HandInv, AloneInv
<1>6. NoStray'
  BY <1>2, <1>3, <1>4 DEF NoStray, Running
<1>7. GenerationsDistinct'
  BY <1>2 DEF GenerationsDistinct
<1>8. ~overlapped => \A d \in Starters : d # c => pc'[d] = "idle"
  BY <1>3, <1>4 DEF AloneInv
<1>9. StartInv' /\ BornInv'
  <2>1. CASE ReadGeneration(c)
    <3>1. pc'[c] = "write" /\ ticket'[c] = generation + 1 /\ generation' = generation
      BY <2>1 DEF TypeOK
    <3> QED BY <1>2, <1>4, <1>8, <3>1 DEF StartInv, BornInv
  <2>2. CASE WriteGeneration(c)
    <3>1. pc[c] = "write" /\ pc'[c] = "clear" /\ generation' = ticket[c] /\ ticket' = ticket
      BY <2>2 DEF TypeOK
    <3>2. generation \in Nat /\ \A a \in Attempts : born[a] \in Nat
      BY DEF TypeOK
    <3>3. ~overlapped => generation' = generation + 1
      BY <3>1 DEF StartInv
    <3>4. ~overlapped => \A a \in Attempts : reader[a] # "none" => born[a] < generation'
      BY <3>2, <3>3 DEF BornInv
    <3>5. BornInv'
      BY <1>2, <1>1, <3>2, <3>4 DEF BornInv, TypeOK
    <3> QED BY <1>2, <1>4, <1>8, <3>1, <3>4, <3>5 DEF StartInv
  <2>3. CASE Clear(c)
    <3>1. pc[c] = "clear" /\ pc'[c] = "spawn" /\ generation' = generation /\ ticket' = ticket
      BY <2>3 DEF TypeOK
    <3> QED BY <1>2, <1>8, <3>1 DEF StartInv, BornInv
  <2> QED BY <2>1, <2>2, <2>3
<1> QED BY <1>1, <1>5, <1>6, <1>7, <1>9

LEMMA SpawnKeepsIInv ==
    ASSUME IInv, NEW c \in Starters, Spawn(c) \/ SpawnFails(c)
    PROVE  IInv'
<1> USE DEF IInv, Spawn, SpawnFails, shared, threads
<1>1. attempt[c] \in Attempts
  BY DEF HandInv
<1>2. TypeOK'
  <2>1. CASE Spawn(c)
    BY <2>1 DEF TypeOK
  <2>2. CASE SpawnFails(c)
    BY <1>1, <2>2 DEF TypeOK
  <2> QED BY <2>1, <2>2
<1>3. /\ overlapped' = overlapped /\ process' = process /\ attempt' = attempt
      /\ ticket' = ticket /\ generation' = generation /\ born' = born /\ reader' = reader
  OBVIOUS
<1>4. \A d \in Starters : d # c => pc'[d] = pc[d]
  BY DEF TypeOK
<1>5. pc[c] = "spawn" /\ pc'[c] \in {"publish", "idle"}
  BY DEF TypeOK
<1>6. HandInv' /\ AloneInv'
  BY <1>3, <1>4, <1>5 DEF HandInv, AloneInv
<1>7. StartInv' /\ BornInv'
  BY <1>3, <1>4, <1>5 DEF StartInv, BornInv
<1>8. GenerationsDistinct'
  BY <1>3 DEF GenerationsDistinct
<1>9. NoStray'
  <2>1. CASE Spawn(c)
    <3>1. pc'[c] = "publish"
      BY <2>1 DEF TypeOK
    <3>2. \A a \in Attempts : a # attempt[c] => ffmpeg'[a] = ffmpeg[a]
      BY <2>1 DEF TypeOK
    <3> QED BY <1>3, <1>4, <1>5, <3>1, <3>2 DEF NoStray, Running
  <2>2. CASE SpawnFails(c)
    BY <1>3, <1>4, <1>5, <2>2 DEF NoStray, Running
  <2> QED BY <2>1, <2>2
<1> QED BY <1>2, <1>6, <1>7, <1>8, <1>9

\* The new process is entered; its reader has a generation of its own.
LEMMA PublishKeepsIInv ==
    ASSUME IInv, NEW c \in Starters, Publish(c)
    PROVE  IInv'
<1> USE DEF IInv, Publish
<1>1. attempt[c] \in Attempts
  BY DEF HandInv
<1>2. TypeOK'
  BY <1>1 DEF TypeOK
<1>3. /\ pc'[c] = "idle" /\ born'[attempt[c]] = ticket[c]
      /\ \A d \in Starters : d # c => pc'[d] = pc[d]
      /\ \A a \in Attempts : a # attempt[c] => born'[a] = born[a] /\ reader'[a] = reader[a]
  BY <1>1 DEF TypeOK
<1>4. HandInv' /\ AloneInv'
  BY <1>3 DEF HandInv, AloneInv
<1>5. ~overlapped => \A d \in Starters : pc'[d] = "idle"
  BY <1>3 DEF AloneInv
<1>6. ~overlapped => /\ process = NoAttempt /\ ticket[c] = generation
                     /\ \A a \in Attempts : reader[a] # "none" => born[a] < generation
  BY DEF StartInv
<1>7. StartInv'
  BY <1>5 DEF StartInv
<1>8. BornInv'
  BY <1>3, <1>6 DEF BornInv, TypeOK
<1>9. NoStray'
  <2> SUFFICES ASSUME ~overlapped, NEW a \in Attempts, Running(a)
               PROVE  a = attempt[c]
    BY DEF NoStray, Running
  <2>1. a # process
    BY <1>6, ParamsAssumption DEF Attempts, NoAttempt
  <2>2. PICK d \in Starters : pc[d] = "publish" /\ attempt[d] = a
    BY <2>1 DEF NoStray
  <2> QED BY <2>2 DEF AloneInv
<1>10. GenerationsDistinct'
  <2> SUFFICES ASSUME ~overlapped, NEW a \in Attempts, NEW b \in Attempts,
                      reader'[a] # "none", reader'[b] # "none", born'[a] = born'[b],
                      a # b
               PROVE  FALSE
    BY DEF GenerationsDistinct
  <2>1. \A e \in Attempts : born[e] \in Nat
    BY DEF TypeOK
  <2>2. CASE a = attempt[c] \/ b = attempt[c]
    BY <1>3, <1>6, <2>1, <2>2 DEF TypeOK
  <2>3. CASE a # attempt[c] /\ b # attempt[c]
    BY <1>3, <2>3 DEF GenerationsDistinct
  <2> QED BY <2>2, <2>3
<1> QED BY <1>2, <1>4, <1>7, <1>8, <1>9, <1>10

\* ffmpeg, readers, users and time: no process begins to run, no reader
\* begins, and no caller moves.
OutsideStep ==
    /\ pc' = pc /\ attempt' = attempt /\ ticket' = ticket
    /\ generation' = generation /\ born' = born /\ overlapped' = overlapped
    /\ process' \in {process, NoAttempt}
    /\ \A a \in Attempts : reader'[a] # "none" => reader[a] # "none"
    /\ \A a \in Attempts :
          ffmpeg'[a] = "running" => ffmpeg[a] = "running" /\ (a = process => a = process')

LEMMA OutsideStepKeepsIInv ==
    ASSUME IInv, TypeOK', OutsideStep
    PROVE  IInv'
<1> USE DEF IInv, OutsideStep
<1>1. HandInv' /\ AloneInv'
  BY DEF HandInv, AloneInv
<1>2. StartInv' /\ BornInv'
  BY DEF StartInv, BornInv
<1>3. NoStray'
  BY DEF NoStray, Running
<1>4. GenerationsDistinct'
  BY DEF GenerationsDistinct
<1> QED BY <1>1, <1>2, <1>3, <1>4

LEMMA ReaderStepIsOutside ==
    ASSUME IInv, NEW a \in Attempts,
           CheckLine(a) \/ CheckExit(a) \/ ExitClean(a) \/ CheckDiagnosis(a) \/ Append(a)
    PROVE  TypeOK' /\ OutsideStep
<1> USE DEF IInv, ReaderStep, start, shared
<1>1. \E from \in {"line", "appendLine", "appendExit", "diagnose", "appendDiagnosis"},
         to \in {"line", "appendLine", "appendExit", "diagnose", "appendDiagnosis",
                 "done"} : ReaderStep(a, from, to)
  BY DEF CheckLine, CheckExit, ExitClean, CheckDiagnosis, Append
<1>2. messages' \in {messages, messages \cup {a}}
  BY DEF CheckLine, CheckExit, ExitClean, CheckDiagnosis, Append
<1>3. TypeOK'
  BY <1>1, <1>2 DEF TypeOK
<1>4. OutsideStep
  BY <1>1 DEF OutsideStep, TypeOK
<1> QED BY <1>3, <1>4

LEMMA StepKeepsIInv ==
    ASSUME IInv, [Next]_vars
    PROVE  IInv'
<1>1. ASSUME NEW c \in Starters, Start(c)
      PROVE  IInv'
  BY <1>1, LaunchKeepsIInv DEF Start
<1>2. CASE Retry
  BY <1>2, ParamsAssumption, LaunchKeepsIInv DEF Retry
<1>3. ASSUME NEW c \in Starters, CallerNext(c)
      PROVE  IInv'
  BY <1>3, StopOldKeepsIInv, PrepareKeepsIInv, SpawnKeepsIInv, PublishKeepsIInv
     DEF CallerNext
<1>4. ASSUME NEW a \in Attempts, WritePlaylist(a) \/ Exit(a)
      PROVE  TypeOK' /\ OutsideStep
  <2> USE DEF IInv, Outside, start, WritePlaylist, Exit
  <2>1. CASE WritePlaylist(a)
    BY <2>1 DEF TypeOK, OutsideStep
  <2>2. CASE Exit(a)
    <3>1. TypeOK'
      BY <2>2 DEF TypeOK
    <3>2. OutsideStep
      BY <2>2 DEF TypeOK, OutsideStep
    <3> QED BY <3>1, <3>2
  <2> QED BY <1>4, <2>1, <2>2
<1>5. ASSUME NEW a \in Attempts, ReaderNext(a)
      PROVE  TypeOK' /\ OutsideStep
  BY <1>5, ReaderStepIsOutside DEF ReaderNext
<1>6. ASSUME Stop
      PROVE  TypeOK' /\ OutsideStep
  <2> USE <1>6 DEF IInv, Stop, PopAndTerminate, Running, start
  <2>1. TypeOK'
    BY DEF TypeOK
  <2>2. OutsideStep
    BY DEF OutsideStep, TypeOK
  <2> QED BY <2>1, <2>2
<1>7. ASSUME CoolDown \/ Quiet \/ UNCHANGED vars
      PROVE  TypeOK' /\ OutsideStep
  <2>1. CASE CoolDown
    BY <2>1 DEF CoolDown, IInv, TypeOK, OutsideStep, start, threads
  <2>2. CASE Quiet \/ UNCHANGED vars
    BY <2>2 DEF Quiet, vars, IInv, TypeOK, OutsideStep
  <2> QED BY <1>7, <2>1, <2>2
<1> QED BY <1>1, <1>2, <1>3, <1>4, <1>5, <1>6, <1>7, OutsideStepKeepsIInv DEF Next

-----------------------------------------------------------------------------
(* Camera workers.                                                         *)

LEMMA EditBounds ==
    /\ MaxEdits \in Nat /\ 0 \in 0 .. MaxEdits /\ 1 \in 1 .. MaxEdits + 1
    /\ \A n \in 0 .. MaxEdits : n < MaxEdits => n + 1 \in 0 .. MaxEdits
    /\ \A n \in 0 .. MaxEdits : \A m \in 1 .. n + 1 :
           /\ m \in 1 .. (n + 1) + 1 /\ m + 1 \in 1 .. (n + 1) + 1
           /\ m \in Nat
    /\ \A n \in 0 .. MaxEdits : 1 .. n + 1 \subseteq 1 .. MaxEdits + 1
    /\ MaxTroubles \in Nat /\ 0 \in 0 .. MaxTroubles
    /\ \A n \in 0 .. MaxTroubles : n < MaxTroubles => n + 1 \in 0 .. MaxTroubles
BY WorkersAssumption

Works == [at : {"read", "prepare", "run", "backoff", "ending", "ended"},
          main : Nat, port : Nat, zones : Nat]

LEMMA WorkersInit == W!Init => W!IInv
<1> SUFFICES ASSUME W!Init PROVE W!IInv
  OBVIOUS
<1>1. v2 = [wanted |-> TRUE, main |-> 1, port |-> 1, zones |-> 1] /\ v2 \in W!Settings
  BY EditBounds DEF W!Init, W!Settings
<1>2. W!Ended \in Works /\ W!Ended.at = "ended"
  BY DEF W!Ended, Works
<1>3. v6 \in [{1, 2} -> Works] /\ \A t \in {1, 2} : v6[t].at = "ended"
  BY <1>2 DEF W!Init
<1>4. v1 \in Kinds /\ v3 = 0 /\ v4.at = "asleep" /\ v5.task = W!NoTask /\ v7 = 0
  BY DEF W!Init
<1>5. {v2.main, v2.port, v2.zones} \subseteq 1 .. v3 + 1
  BY <1>1, <1>4
<1> QED BY <1>1, <1>3, <1>4, <1>5, EditBounds DEF W!IInv, W!TypeOK, W!Ordered, Works

\* An edit of one field of the settings.
LEMMA EditKeeps ==
    ASSUME W!IInv, NEW new \in [wanted : BOOLEAN, main : Nat, port : Nat, zones : Nat],
           {new.main, new.port, new.zones} \subseteq 1 .. (v3 + 1) + 1, W!Edit(new)
    PROVE  W!IInv'
<1>1. v3' = v3 + 1 /\ v3' \in 0 .. MaxEdits /\ v2' = new
      /\ UNCHANGED <<v1, v4, v5, v6, v7>>
  BY EditBounds DEF W!Edit, W!IInv, W!TypeOK
<1>2. new \in W!Settings
  BY <1>1, EditBounds DEF W!Settings
<1> QED BY <1>1, <1>2 DEF W!IInv, W!TypeOK, W!Ordered

LEMMA EditsKeep ==
    ASSUME W!IInv, W!EditConnection \/ W!EditPort \/ W!EditZones \/ W!Switch
    PROVE  W!IInv'
<1> DEFINE All == [wanted : BOOLEAN, main : Nat, port : Nat, zones : Nat]
<1>1. v2 \in W!Settings /\ v3 \in 0 .. MaxEdits
      /\ {v2.main, v2.port, v2.zones} \subseteq 1 .. v3 + 1
  BY DEF W!IInv, W!TypeOK, W!Ordered
<1>2. v2 \in All /\ v2.main + 1 \in Nat /\ v2.port + 1 \in Nat /\ v2.zones + 1 \in Nat
      /\ {v2.main, v2.port, v2.zones, v2.main + 1, v2.port + 1, v2.zones + 1}
            \subseteq 1 .. (v3 + 1) + 1
  BY <1>1, EditBounds DEF W!Settings
<1>3. CASE W!EditConnection
  <2>1. [v2 EXCEPT !.main = @ + 1] \in All
    BY <1>2
  <2> QED BY <1>2, <1>3, <2>1, EditKeeps DEF W!EditConnection
<1>4. CASE W!EditPort
  <2>1. [v2 EXCEPT !.port = @ + 1] \in All
    BY <1>2
  <2> QED BY <1>2, <1>4, <2>1, EditKeeps DEF W!EditPort
<1>5. CASE W!EditZones
  <2>1. [v2 EXCEPT !.zones = @ + 1] \in All
    BY <1>2
  <2> QED BY <1>2, <1>5, <2>1, EditKeeps DEF W!EditZones
<1>6. CASE W!Switch
  <2>1. [v2 EXCEPT !.wanted = ~@] \in All
    BY <1>2
  <2> QED BY <1>2, <1>6, <2>1, EditKeeps DEF W!Switch
<1> QED BY <1>3, <1>4, <1>5, <1>6

\* A worker that is written whole.
LEMMA WorkWritten ==
    ASSUME NEW w \in Works, NEW n \in Nat
    PROVE  /\ \A at \in {"read", "prepare", "run", "backoff", "ending", "ended"} :
                  [w EXCEPT !.at = at] \in Works /\ [w EXCEPT !.at = at].at = at
           /\ [w EXCEPT !.at = "run", !.zones = n] \in Works
           /\ W!Ended \in Works /\ W!Ended.at = "ended"
           /\ [W!Ended EXCEPT !.at = "read"] \in Works
           /\ [W!Ended EXCEPT !.at = "backoff"] \in Works
<1>1. \A x \in Works : \A at \in {"read", "prepare", "run", "backoff", "ending", "ended"} :
          [x EXCEPT !.at = at] \in Works /\ [x EXCEPT !.at = at].at = at
  BY DEF Works
<1>2. W!Ended \in Works /\ W!Ended.at = "ended"
  BY DEF W!Ended, Works
<1> DEFINE half == [w EXCEPT !.at = "run"]
<1>3. [w EXCEPT !.at = "run", !.zones = n] = [half EXCEPT !.zones = n] /\ half \in Works
  BY <1>1 DEF Works
<1> HIDE DEF half
<1>4. [half EXCEPT !.zones = n] \in Works
  BY <1>3 DEF Works
<1> QED BY <1>1, <1>2, <1>3, <1>4

LEMMA StartedKeeps ==
    ASSUME W!IInv, \A t \in {1, 2} : v6[t].at = "ended", NEW fp, W!Started(fp),
           v4'.at = "asleep", UNCHANGED <<v1, v2, v3, v7>>
    PROVE  W!IInv'
<1>1. PICK t \in {1, 2} : /\ v6' = [v6 EXCEPT ![t].at = "read"]
                          /\ v5' = [task |-> t, of |-> fp]
  BY DEF W!Started
<1>2. v6 \in [{1, 2} -> Works]
  BY DEF W!IInv, W!TypeOK, Works
<1>3. v6' \in [{1, 2} -> Works]
      /\ \A u \in {1, 2} : v6'[u].at = IF u = t THEN "read" ELSE v6[u].at
  BY <1>1, <1>2 DEF Works
<1>4. v5'.task = t
  BY <1>1
<1> QED BY <1>3, <1>4 DEF W!IInv, W!TypeOK, W!Ordered, Works

LEMMA SupervisorKeeps == ASSUME W!IInv, W!SupervisorRuns PROVE W!IInv'
<1> USE DEF W!IInv, W!TypeOK, W!Ordered, W!NoTask
<1>1. v6 \in [{1, 2} -> Works]
  BY DEF Works
<1>2. W!Reconcile \/ W!Replace
  BY DEF W!SupervisorRuns, W!CameraEventSupervisor, W!DetectionSupervisor,
         W!AudioDetectionSupervisor, W!SupervisorOf
<1>3. CASE W!Reconcile
  <2> DEFINE fp == W!Fingerprint(v2)
  <2>1. UNCHANGED <<v1, v2, v3, v7>> /\ v4.at = "asleep"
    BY <1>3 DEF W!Reconcile
  <2>2. CASE W!Outdated(fp)
    <3>1. v5' = v5 /\ v4'.at = "joining" /\ v5.task \in {1, 2}
          /\ v6' = [v6 EXCEPT ![v5.task] = W!Cancelled(v5.task)]
      BY <1>3, <2>2 DEF W!Reconcile, W!Outdated
    <3>2. W!Cancelled(v5.task) \in Works
      BY <1>1, <3>1, WorkWritten DEF W!Cancelled
    <3>3. v6' \in [{1, 2} -> Works] /\ \A t \in {1, 2} : t # v5.task => v6'[t] = v6[t]
      BY <1>1, <3>1, <3>2
    <3> QED BY <2>1, <3>1, <3>3 DEF Works
  <2>3. CASE ~W!Outdated(fp) /\ v2.wanted /\ v5.task = W!NoTask
    <3>1. \A t \in {1, 2} : v6[t].at = "ended"
      BY <2>3
    <3>2. W!Started(fp) /\ v4' = v4
      BY <1>3, <2>3 DEF W!Reconcile
    <3> HIDE DEF fp, W!IInv
    <3> QED BY <2>1, <3>1, <3>2, StartedKeeps
  <2>4. CASE ~W!Outdated(fp) /\ ~(v2.wanted /\ v5.task = W!NoTask)
    BY <1>3, <2>4 DEF W!Reconcile
  <2> QED BY <2>2, <2>3, <2>4
<1>4. CASE W!Replace
  <2>1. UNCHANGED <<v1, v2, v3, v7>> /\ v4'.at = "asleep"
        /\ \A t \in {1, 2} : v6[t].at = "ended"
    BY <1>4 DEF W!Replace
  <2>2. CASE W!Started(v4.seen)
    <3> HIDE DEF W!IInv
    <3> QED BY <2>1, <2>2, StartedKeeps
  <2>3. CASE v5' = [task |-> W!NoTask, of |-> <<W!NoCamera>>] /\ v6' = v6
    BY <2>1, <2>3
  <2> QED BY <1>4, <2>2, <2>3 DEF W!Replace
<1> QED BY <1>2, <1>3, <1>4

LEMMA TaskKeeps ==
    ASSUME W!IInv, NEW t \in {1, 2}, NEW from, NEW new \in Works, W!TaskStep(t, from, new),
           from # "ended", v7' \in 0 .. MaxTroubles
    PROVE  W!IInv'
<1>1. v6 \in [{1, 2} -> Works]
  BY DEF W!IInv, W!TypeOK, Works
<1>2. v6' \in [{1, 2} -> Works] /\ \A u \in {1, 2} : u # t => v6'[u] = v6[u]
  BY <1>1 DEF W!TaskStep
<1> QED BY <1>2 DEF W!TaskStep, W!IInv, W!TypeOK, W!Ordered, Works

LEMMA TasksKeep ==
    ASSUME W!IInv, NEW t \in {1, 2}, W!TaskRuns(t) \/ W!Fails(t)
    PROVE  W!IInv'
<1>1. /\ v6[t] \in Works /\ v7 \in 0 .. MaxTroubles
      /\ {v2.main, v2.port, v2.zones} \subseteq Nat
  BY EditBounds DEF W!IInv, W!TypeOK, W!Ordered, Works, W!Settings
<1>2. CASE W!ReadSettings(t)
  <2> DEFINE new == IF v2.wanted THEN [at |-> "prepare", main |-> v2.main,
                                       port |-> v2.port, zones |-> 0]
                    ELSE W!Ended
  <2>1. new \in Works
    BY <1>1, WorkWritten DEF Works
  <2>2. W!TaskStep(t, "read", new) /\ v7' = v7
    BY <1>2 DEF W!ReadSettings
  <2> HIDE DEF new
  <2> QED BY <1>1, <2>1, <2>2, TaskKeeps
<1>3. CASE W!Prepared(t)
  <2> DEFINE n == IF v1 = "video" THEN v2.zones ELSE 0
  <2>1. n \in Nat
    BY <1>1
  <2>2. W!TaskStep(t, "prepare", [v6[t] EXCEPT !.at = "run", !.zones = n]) /\ v7' = v7
    BY <1>3 DEF W!Prepared
  <2> HIDE DEF n
  <2> QED BY <1>1, <2>1, <2>2, TaskKeeps, WorkWritten
<1>4. CASE W!Retry(t) \/ W!Unsubscribe(t)
  BY <1>1, <1>4, TaskKeeps, WorkWritten DEF W!Retry, W!Unsubscribe
<1>5. CASE W!Fails(t)
  <2>1. v7' \in 0 .. MaxTroubles /\ v6[t].at # "ended"
        /\ W!TaskStep(t, v6[t].at, [W!Ended EXCEPT !.at = "backoff"])
    BY <1>1, <1>5, EditBounds DEF W!Fails
  <2> QED BY <1>1, <2>1, TaskKeeps, WorkWritten
<1> QED BY <1>2, <1>3, <1>4, <1>5 DEF W!TaskRuns, W!MonitorCameraEvents,
    W!RunCameraDetectionWorker, W!RunCameraAudioDetectionWorker, W!WorkerOf

LEMMA WorkersStep == W!IInv /\ [W!Next]_W!workerVars => W!IInv'
<1> SUFFICES ASSUME W!IInv, [W!Next]_W!workerVars PROVE W!IInv'
  OBVIOUS
<1>1. CASE UNCHANGED W!workerVars
  BY <1>1 DEF W!workerVars, W!IInv, W!TypeOK, W!Ordered
<1> QED BY <1>1, EditsKeep, SupervisorKeeps, TasksKeep DEF W!Next

LEMMA OneWorkerAtMost == W!IInv => W!OneWorker
<1> SUFFICES ASSUME W!IInv PROVE W!OneWorker
  OBVIOUS
<1> DEFINE set == {t \in {1, 2} : v6[t].at # "ended"}
<1>1. set \subseteq {v5.task}
  BY DEF W!IInv, W!Ordered
<1>2. IsFiniteSet({v5.task}) /\ Cardinality({v5.task}) = 1
  BY FS_Singleton
<1>3. Cardinality(set) <= 1
  <2> HIDE DEF set
  <2> QED BY <1>1, <1>2, FS_Subset
<1>4. W!Cardinality(set) = Cardinality(set)
  BY DEF W!Cardinality, Cardinality
<1> QED BY <1>3, <1>4 DEF W!OneWorker

-----------------------------------------------------------------------------
(* The MQTT listener.                                                      *)

LEMMA SaveBounds ==
    /\ "none" \notin Brokers
    /\ MaxSaves \in Nat /\ 0 \in 0 .. MaxSaves
    /\ \A n \in 0 .. MaxSaves : n < MaxSaves => n + 1 \in 0 .. MaxSaves
BY ListenerAssumption

LEMMA ListenerInit == L!Init => L!IInv
BY SaveBounds, EditBounds DEF L!Init, L!IInv, L!TypeOK, L!OneClient, L!Ordered, L!NoBroker,
   L!SwitchedOff, L!Configs

LEMMA ListenerStep == L!IInv /\ [L!Next]_L!listenerVars => L!IInv'
<1> SUFFICES ASSUME L!IInv, [L!Next]_L!listenerVars PROVE L!IInv'
  OBVIOUS
<1> USE SaveBounds, EditBounds
    DEF L!IInv, L!TypeOK, L!OneClient, L!Ordered, L!NoBroker, L!Trouble
<1>1. CASE L!UpdateMqttSettings
  BY <1>1 DEF L!UpdateMqttSettings, L!Configs
<1>2. CASE L!BrokerGoes
  BY <1>2 DEF L!BrokerGoes
<1>3. CASE L!BrokerReturns
  BY <1>3 DEF L!BrokerReturns
<1>4. CASE L!Compare
  BY <1>4 DEF L!Compare
<1>5. CASE L!StopClient
  BY <1>5 DEF L!StopClient
<1>6. CASE L!StartControlClient
  <2>1. v7 = 0 /\ v6 = "none" /\ v4' = "asleep" /\ UNCHANGED <<v1, v2, v3, v9>>
    BY <1>6 DEF L!StartControlClient
  <2>2. CASE v5.host \in v3
    <3>1. v6' = v5.host /\ v7' = 1 /\ v8' = v8 /\ v6' \in Brokers
      <4>1. v6' = v5.host /\ v7' = v7 + 1 /\ v8' = v8
        BY <1>6, <2>2 DEF L!StartControlClient
      <4>2. v6' \in Brokers
        BY <2>2, <4>1
      <4> QED BY <2>1, <4>1, <4>2
    <3> QED BY <2>1, <3>1
  <2>3. CASE v5.host \notin v3
    BY <1>6, <2>1, <2>3 DEF L!StartControlClient
  <2> QED BY <2>2, <2>3
<1>7. CASE L!ReadFails
  BY <1>7 DEF L!ReadFails
<1>8. CASE L!Restart
  BY <1>8 DEF L!Restart
<1>9. CASE UNCHANGED L!listenerVars
  BY <1>9 DEF L!listenerVars
<1> QED BY <1>1, <1>2, <1>3, <1>4, <1>5, <1>6, <1>7, <1>8, <1>9 DEF L!Next, L!ListenerRuns

-----------------------------------------------------------------------------
(* Preview images, firmware and the pre-roll.                              *)

LEMMA CameraBounds ==
    /\ MaxTroubles \in Nat /\ 0 \in 0 .. MaxTroubles
    /\ \A n \in 0 .. MaxTroubles : n < MaxTroubles => n + 1 \in 0 .. MaxTroubles
    /\ MaxVersions \in Nat /\ 0 \in 0 .. MaxVersions + 1 /\ 1 \in 1 .. MaxVersions + 1
    /\ \A n \in 1 .. MaxVersions + 1 :
           n \in 0 .. MaxVersions + 1 /\ (n <= MaxVersions => n + 1 \in 1 .. MaxVersions + 1)
    /\ 0 \in 0 .. MaxStarts /\ \A n \in 0 .. MaxStarts : n < MaxStarts => n + 1 \in 0 .. MaxStarts
    /\ 0 \in 0 .. MaxMoves /\ \A n \in 0 .. MaxMoves : n < MaxMoves => n + 1 \in 0 .. MaxMoves
    /\ 0 \in 0 .. MaxLosses /\ \A n \in 0 .. MaxLosses : n < MaxLosses => n + 1 \in 0 .. MaxLosses
    /\ 0 \in 0 .. MaxCommands
    /\ \A n \in 0 .. MaxCommands : n < MaxCommands => n + 1 \in 0 .. MaxCommands
    /\ 0 \in 0 .. MaxConn /\ 1 \in 1 .. MaxConn
    /\ \A n \in 1 .. MaxConn : n \in 0 .. MaxConn /\ (n < MaxConn => n + 1 \in 1 .. MaxConn)
BY EditBounds, CameraAssumption, NetworkAssumption

LEMMA ImagesInit == I!Init => I!IInv
<1> SUFFICES ASSUME I!Init PROVE I!IInv
  OBVIOUS
<1>1. v5 \in [{"loop", "mcp"} -> [at : {"idle", "queued", "thread", "capture"}, uri : 0 .. MaxVersions + 1]]
  BY CameraBounds DEF I!Init, I!Idle, I!NoUri
<1> QED BY <1>1, CameraBounds DEF I!Init, I!IInv, I!TypeOK, I!TakenWhenDue, I!OldImageExplained,
   I!Ordered, I!At, I!Idle, I!NoUri, I!NoImage

LEMMA ImagesStep == I!IInv /\ [I!Next]_I!snapshotVars => I!IInv'
<1> SUFFICES ASSUME I!IInv, [I!Next]_I!snapshotVars PROVE I!IInv'
  OBVIOUS
<1> USE CameraBounds DEF I!IInv, I!TypeOK, I!TakenWhenDue, I!OldImageExplained,
        I!Ordered, I!At, I!IsDue, I!NoUri, I!NoImage
<1>1. ASSUME NEW c \in {"loop", "mcp"}, I!Ask(c) PROVE I!IInv'
  BY <1>1 DEF I!Ask
<1>2. CASE I!AskAny
  BY <1>1, <1>2 DEF I!AskAny, I!AskSnapshotLoop, I!AskDashboardCameraSnapshot,
     I!AskApiV1CameraSnapshot, I!AskGetCameraSnapshot
<1>3. ASSUME NEW c \in {"loop", "mcp"}, I!Enter(c) PROVE I!IInv'
  BY <1>3 DEF I!Enter, I!Goes
<1>4. ASSUME NEW c \in {"loop", "mcp"}, I!RefreshIfDue(c) PROVE I!IInv'
  BY <1>4 DEF I!RefreshIfDue, I!Goes, I!Done, I!Idle
<1>5. ASSUME NEW c \in {"loop", "mcp"}, I!Capture(c) PROVE I!IInv'
  <2>1. \A d \in {"loop", "mcp"} : v5'[d].at # "capture"
    BY <1>5 DEF I!Capture, I!Done, I!Idle
  <2>2. I!TypeOK'
    BY <1>5 DEF I!Capture, I!Done, I!Idle
  <2>3. I!TakenWhenDue' /\ I!OldImageExplained'
    BY <1>5, <2>1 DEF I!Capture
  <2>4. I!Ordered'
    BY <1>5, <2>1 DEF I!Capture, I!Done, I!Idle
  <2> QED BY <2>2, <2>3, <2>4
<1>6. ASSUME NEW c \in {"loop", "mcp"}, I!CaptureFails(c) PROVE I!IInv'
  BY <1>6 DEF I!CaptureFails, I!Done, I!Idle, I!Trouble
<1>7. CASE I!Ages
  BY <1>7 DEF I!Ages
<1>8. CASE I!UpdateCameraConnection \/ I!RemoveCamera
  <2>1. \A c \in {"loop", "mcp"} : v5[c].at # "idle" => I!AtWork
    BY DEF I!AtWork, I!Idle
  <2> QED BY <1>8, <2>1 DEF I!UpdateCameraConnection, I!RemoveCamera
<1>9. CASE I!Delete
  BY <1>9 DEF I!Delete
<1>10. CASE I!RefreshCamera
  BY <1>10 DEF I!RefreshCamera
<1>11. CASE I!Restart
  BY <1>11 DEF I!Restart, I!Trouble, I!Idle
<1>12. CASE UNCHANGED I!snapshotVars
  BY <1>12 DEF I!snapshotVars
<1> QED BY <1>2, <1>3, <1>4, <1>5, <1>6, <1>7, <1>8, <1>9, <1>10, <1>11, <1>12
    DEF I!Next, I!Served

LEMMA FirmwareInit == F!Init => F!TypeOK
BY CameraBounds DEF F!Init, F!TypeOK, F!Entry

LEMMA FirmwareStep == F!TypeOK /\ [F!Next]_F!firmwareVars => F!TypeOK'
<1> SUFFICES ASSUME F!TypeOK, [F!Next]_F!firmwareVars PROVE F!TypeOK'
  OBVIOUS
<1> DEFINE Entries == [status : {"idle", "checking", "available", "up_to_date",
                                 "updating", "failed", "done"},
                       offered : BOOLEAN]
<1> USE CameraBounds DEF F!TypeOK, F!Entry, F!Started
<1>1. ASSUME NEW c \in {1, 2}, F!BeginCheck(c) PROVE F!TypeOK'
  BY <1>1 DEF F!BeginCheck
<1>2. ASSUME NEW c \in {1, 2}, F!EndCheck(c) PROVE F!TypeOK'
  <2>1. \A offered \in BOOLEAN :
           \A status \in {"available", "up_to_date", "failed"} :
               [status |-> status, offered |-> offered] \in Entries
    OBVIOUS
  <2>2. v1' \in Entries
    BY <1>2, <2>1 DEF F!EndCheck
  <2> QED BY <1>2, <2>2 DEF F!EndCheck
<1>3. ASSUME NEW u \in {1, 2}, F!StartUpdate(u) PROVE F!TypeOK'
  BY <1>3 DEF F!StartUpdate
<1>4. ASSUME NEW u \in {1, 2}, F!Progress(u) PROVE F!TypeOK'
  BY <1>4 DEF F!Progress
<1>5. ASSUME NEW u \in {1, 2}, F!EndUpdate(u) PROVE F!TypeOK'
  <2>1. [v1 EXCEPT !.status = "failed"] \in Entries
        /\ [status |-> "done", offered |-> FALSE] \in Entries
    OBVIOUS
  <2>2. v1' \in Entries
    BY <1>5, <2>1 DEF F!EndUpdate
  <2> QED BY <1>5, <2>2 DEF F!EndUpdate
<1>6. CASE UNCHANGED F!firmwareVars
  BY <1>6 DEF F!firmwareVars
<1> QED BY <1>1, <1>2, <1>3, <1>4, <1>5, <1>6 DEF F!Next

LEMMA StreamBounds ==
    /\ 0 \in 0 .. MaxStreams /\ 1 \in 1 .. MaxStreams + 1 /\ 0 \notin 1 .. MaxStreams + 1
    /\ 0 \in 0 .. MaxDeaths
    /\ \A n \in 0 .. MaxDeaths : n < MaxDeaths => n + 1 \in 0 .. MaxDeaths
    /\ \A n \in 0 .. MaxStreams : n < MaxStreams => n + 1 \in 0 .. MaxStreams
    /\ \A n \in 0 .. MaxStreams : \A m \in 1 .. MaxStreams + 1 : m <= n + 1 =>
           /\ m <= (n + 1) + 1
           /\ n < MaxStreams => m + 1 \in 1 .. MaxStreams + 1 /\ m + 1 <= (n + 1) + 1
BY CameraAssumption

Clips == [begun : BOOLEAN, pre : SUBSET (1 .. MaxStreams + 1),
          sources : SUBSET (0 .. MaxStreams + 1)]

LEMMA PrerollInit == E!Init => E!IInv
<1> SUFFICES ASSUME E!Init PROVE E!IInv
  OBVIOUS
<1>1. v1 \in [polled : BOOLEAN, enabled : BOOLEAN, pre : BOOLEAN]
  BY DEF E!Init
<1>2. /\ v8 = [begun |-> FALSE, pre |-> {}, sources |-> {}]
      /\ v2 = 1 /\ v3 = 0 /\ v4 = 0 /\ v6 = {} /\ v7 = {} /\ v9 = {} /\ v10 = 0
  BY DEF E!Init, E!NoClip, E!NoStream
<1>3. ~v5
  BY DEF E!Init
<1> QED BY <1>1, <1>2, <1>3, StreamBounds DEF E!IInv, E!TypeOK, E!PrerollExplained, E!Ordered,
   E!NoStream, E!Streams

\* What a poll makes of the process and the buffer.
LEMMA BufferKept ==
    ASSUME E!IInv, E!Start \/ E!StopPrebuffer \/ E!StartFails
    PROVE  /\ v4' \in 0 .. MaxStreams + 1 /\ (v5' => v4' # 0)
           /\ v6' \subseteq 1 .. MaxStreams + 1 /\ v7' \subseteq 1 .. MaxStreams + 1
           /\ v9' \subseteq 1 .. MaxStreams + 1
           /\ v4' # 0 => v7' \subseteq {v4'} \cup v9' /\ v6' \subseteq v9'
           /\ v7' \subseteq v7 /\ v6' \subseteq v6 \cup ({v4} \ {0})
           /\ v9' # v9 => v7' = {} /\ v9' = v6'
<1>a. v4 \in 0 .. MaxStreams + 1 /\ v2 \in 0 .. MaxStreams + 1 /\ 0 \in 0 .. MaxStreams + 1
  BY CameraAssumption DEF E!IInv, E!TypeOK, E!NoStream, E!Streams
<1>b. v4 # 0 => v4 \in 1 .. MaxStreams + 1
  BY DEF E!IInv, E!TypeOK, E!NoStream, E!Streams
<1> USE StreamBounds DEF E!IInv, E!TypeOK, E!Ordered, E!NoStream, E!Streams
<1>1. CASE E!Start
  BY <1>a, <1>1 DEF E!Start
<1>2. CASE E!StopPrebuffer
  <2>1. v4' = 0 /\ ~v5' /\ v7' = v7 /\ v9' = v9 /\ v6' \in {v6, v6 \cup {v4}} /\ (v6' # v6 => v5)
    BY <1>2 DEF E!StopPrebuffer
  <2> QED BY <1>a, <1>b, <2>1
<1>3. CASE E!StartFails
  BY <1>a, <1>3 DEF E!StartFails
<1> QED BY <1>1, <1>2, <1>3

LEMMA PrerollStep == E!IInv /\ [E!Next]_E!prebufferVars => E!IInv'
<1> SUFFICES ASSUME E!IInv, [E!Next]_E!prebufferVars PROVE E!IInv'
  OBVIOUS
<1>c. /\ v8 \in Clips
      /\ \A x \in Clips, n \in 0 .. MaxStreams + 1 :
             [x EXCEPT !.sources = @ \cup {n}] \in Clips
      /\ \A x \in Clips, n \in 1 .. MaxStreams + 1 :
             [x EXCEPT !.pre = @ \cup {n}] \in Clips
  BY CameraAssumption DEF E!IInv, E!TypeOK, E!Streams, E!NoStream, Clips
<1> USE StreamBounds DEF E!IInv, E!TypeOK, E!PrerollExplained, E!Ordered, E!NoStream, E!Streams
<1>1. CASE E!EditStream
  BY <1>1 DEF E!EditStream
<1>2. CASE E!EditCamera
  <2>1. DOMAIN v1 = {"polled", "enabled", "pre"}
    OBVIOUS
  <2>2. PICK field \in {"polled", "enabled", "pre"} : v1' = [v1 EXCEPT ![field] = ~@]
    BY <1>2, <2>1 DEF E!EditCamera
  <2>3. v1' \in [polled : BOOLEAN, enabled : BOOLEAN, pre : BOOLEAN]
    BY <2>2
  <2> QED BY <1>2, <2>3, StreamBounds DEF E!EditCamera
<1>3. CASE E!Poll
  <2>1. E!Start \/ E!StopPrebuffer \/ E!StartFails
    BY <1>3 DEF E!Poll, E!EnsurePrebuffer
  <2>2. /\ v8' = [v8 EXCEPT !.sources = @ \cup {v4'}]
        /\ v1' = v1 /\ v2' = v2 /\ v3' = v3 /\ v10' = v10
    BY <1>3 DEF E!Poll
  <2>3. v8' \in Clips
    BY <1>c, <2>1, <2>2, BufferKept
  <2>4. v8'.begun = v8.begun /\ v8'.pre = v8.pre /\ v8'.sources = v8.sources \cup {v4'}
    BY <1>c, <2>2 DEF Clips
  <2> QED BY <2>1, <2>2, <2>3, <2>4, BufferKept DEF Clips
<1>4. CASE E!PollFails
  <2>1. E!StartFails /\ v1' = v1 /\ v2' = v2 /\ v3' = v3 /\ v8' = v8
    BY <1>4 DEF E!PollFails
  <2>2. v10' \in 0 .. MaxDeaths /\ v4' = v4 /\ v5' = v5 /\ v6' = v6
    BY <2>1 DEF E!StartFails, E!Trouble
  <2> QED BY <2>1, <2>2, BufferKept
<1>12. CASE E!BeginClip
  <2>1. /\ v8' = [begun |-> TRUE, pre |-> {}, sources |-> {v4'} \cup v9']
        /\ v1' = v1 /\ v2' = v2 /\ v3' = v3
    BY <1>12 DEF E!BeginClip
  <2>2. CASE UNCHANGED <<v4, v5, v6, v7, v9, v10>> /\ v5
    <3>1. v8' \in Clips
      BY <2>1, <2>2, CameraAssumption DEF Clips
    <3> QED BY <2>1, <2>2, <3>1 DEF Clips
  <2>3. CASE (E!Start /\ v10' = v10) \/ E!StartFails
    <3>2. v7' = {} /\ v9' = v6' /\ v10' \in 0 .. MaxDeaths
      BY <2>3 DEF E!Start, E!StartFails, E!Trouble
    <3>3. v8' \in Clips
      BY <2>1, <2>3, BufferKept, CameraAssumption DEF Clips
    <3> QED BY <2>1, <2>3, <3>2, <3>3, BufferKept DEF Clips
  <2> QED BY <1>12, <2>2, <2>3 DEF E!BeginClip, E!EnsurePrebuffer
<1>5. CASE E!CopyPrebufferSegments
  <2>1. PICK n \in v7 : v8' = [v8 EXCEPT !.pre = @ \cup {n}]
    BY <1>5 DEF E!CopyPrebufferSegments
  <2>2. v8' \in Clips
    BY <1>c, <2>1
  <2>3. v8'.begun = v8.begun /\ v8'.sources = v8.sources /\ v8'.pre = v8.pre \cup {n}
    BY <1>c, <2>1 DEF Clips
  <2> QED BY <1>5, <2>2, <2>3 DEF E!CopyPrebufferSegments, Clips
<1>6. CASE E!Write
  BY <1>6 DEF E!Write
<1>7. CASE E!Ends
  BY <1>7 DEF E!Ends
<1>11. CASE E!Dies
  BY <1>11 DEF E!Dies, E!Trouble
<1>8. CASE E!Fade
  BY <1>8 DEF E!Fade
<1>9. CASE E!Restart
  BY <1>9 DEF E!Restart, E!Trouble, E!NoClip
<1>10. CASE UNCHANGED E!prebufferVars
  BY <1>10 DEF E!prebufferVars
<1> QED BY <1>1, <1>2, <1>3, <1>4, <1>5, <1>6, <1>7, <1>8, <1>9, <1>10, <1>11, <1>12 DEF E!Next

-----------------------------------------------------------------------------
(* Network accounts.                                                       *)

NetworkProbes == [at : {"none", "ask", "answered"}, saw : Uplinks \cup {"offline", "unknown"}]
NetworkPlaces == [online : BOOLEAN, uplink : Uplinks \cup {"unknown"}]

LEMMA NetworkTyped ==
    N!IInv <=>
        /\ v1 \in BOOLEAN /\ v2 \in BOOLEAN /\ v5 \in BOOLEAN /\ v6 \in BOOLEAN
        /\ v3 \in Uplinks \cup {"offline"}
        /\ v4 \in [N!Callers -> NetworkProbes]
        /\ \A c \in N!Callers : v4[c].at = "answered" => v4[c].saw \in Uplinks \cup {"offline"}
        /\ v7 \in Uplinks \cup {"offline", "unknown"}
        /\ v8 \in NetworkPlaces /\ v9 \in NetworkPlaces
        /\ v10 \in 0 .. MaxMoves /\ v11 \in 0 .. MaxTroubles
<1>1. /\ Uplinks \cup {N!Offline, N!Unknown} = Uplinks \cup {"offline", "unknown"}
      /\ Uplinks \cup {N!Offline} = Uplinks \cup {"offline"}
      /\ Uplinks \cup {N!Unknown} = Uplinks \cup {"unknown"}
      /\ "unknown" \notin Uplinks
  BY NetworkAssumption DEF N!Offline, N!Unknown
<1>2. v4 \in [N!Callers -> NetworkProbes] =>
      ((\A c \in N!Callers : v4[c].at = "answered" => v4[c].saw # "unknown") <=>
       (\A c \in N!Callers : v4[c].at = "answered" => v4[c].saw \in Uplinks \cup {"offline"}))
  BY <1>1 DEF NetworkProbes
<1> QED BY <1>1, <1>2 DEF N!IInv, N!TypeOK, N!Ordered, N!Places, N!Unknown, NetworkProbes, NetworkPlaces

LEMMA NetworkTypedNext ==
    ASSUME v1' \in BOOLEAN, v2' \in BOOLEAN, v5' \in BOOLEAN, v6' \in BOOLEAN,
           v3' \in Uplinks \cup {"offline"},
           v4' \in [N!Callers -> NetworkProbes],
           \A c \in N!Callers : v4'[c].at = "answered" => v4'[c].saw \in Uplinks \cup {"offline"},
           v7' \in Uplinks \cup {"offline", "unknown"},
           v8' \in NetworkPlaces, v9' \in NetworkPlaces,
           v10' \in 0 .. MaxMoves, v11' \in 0 .. MaxTroubles
    PROVE  N!IInv'
<1>1. /\ Uplinks \cup {N!Offline, N!Unknown} = Uplinks \cup {"offline", "unknown"}
      /\ Uplinks \cup {N!Offline} = Uplinks \cup {"offline"}
      /\ Uplinks \cup {N!Unknown} = Uplinks \cup {"unknown"}
      /\ "unknown" \notin Uplinks
  BY NetworkAssumption DEF N!Offline, N!Unknown
<1> QED BY <1>1 DEF N!IInv, N!TypeOK, N!Ordered, N!Places, N!Unknown, NetworkProbes, NetworkPlaces

LEMMA NetworkInit == N!Init => N!IInv
<1> SUFFICES ASSUME N!Init PROVE N!IInv
  OBVIOUS
<1>1. v4 \in [N!Callers -> NetworkProbes] /\ \A c \in N!Callers : v4[c].at = "none"
  BY DEF N!Init, N!NoProbe, N!Unknown, NetworkProbes
<1>2. v8 \in NetworkPlaces /\ v9 \in NetworkPlaces
  BY DEF N!Init, N!None, N!Unknown, NetworkPlaces
<1> QED BY <1>1, <1>2, NetworkTyped, CameraBounds DEF N!Init, N!Unknown

LEMMA NetworkStep == N!IInv /\ [N!Next]_N!networkVars => N!IInv'
<1> SUFFICES ASSUME N!IInv, [N!Next]_N!networkVars PROVE N!IInv'
  OBVIOUS
<1> USE NetworkTyped, NetworkTypedNext, CameraBounds
    DEF N!NoProbe, N!Unknown, N!Offline, N!Quiet, N!Idle
<1>1. ASSUME NEW c \in N!Callers, N!Asks(c), v5' \in BOOLEAN, v6' \in BOOLEAN PROVE N!IInv'
  <2>1. v4'[c].at = "ask" /\ v4' \in [N!Callers -> NetworkProbes]
    BY <1>1 DEF N!Asks, NetworkProbes
  <2> QED BY <1>1, <2>1 DEF N!Asks
<1>2. N!PollAsks \/ N!PageAsks \/ N!TestAsks \/ N!PickerAsks => N!IInv'
  BY <1>1 DEF N!PollAsks, N!PageAsks, N!TestAsks, N!PickerAsks, N!ButtonAsks, N!Callers, N!Marking
<1>3. ASSUME NEW c \in N!Callers, N!Answered(c) PROVE N!IInv'
  <2>1. [at |-> "answered", saw |-> v3] \in NetworkProbes
    BY DEF NetworkProbes
  <2>2. v4' \in [N!Callers -> NetworkProbes]
        /\ \A d \in N!Callers : v4'[d] = IF d = c THEN [at |-> "answered", saw |-> v3] ELSE v4[d]
    BY <1>3, <2>1 DEF N!Answered
  <2> QED BY <1>3, <2>2 DEF N!Answered
<1>4. ASSUME NEW c \in N!Callers, N!Done(c)
      PROVE  /\ v4' \in [N!Callers -> NetworkProbes] /\ v5' \in BOOLEAN
             /\ \A d \in N!Callers : v4'[d].at = "answered" => v4'[d] = v4[d]
  <2>1. N!NoProbe \in NetworkProbes
    BY DEF NetworkProbes
  <2> QED BY <1>4, <2>1 DEF N!Done
<1>5. ASSUME NEW c \in N!Callers, N!ProbeFails(c) PROVE N!IInv'
  <2>1. N!Done(c)
    BY <1>5 DEF N!ProbeFails
  <2> QED BY <1>4, <1>5, <2>1 DEF N!ProbeFails
<1>6. ASSUME NEW c \in N!Callers, N!Records(c) PROVE N!IInv'
  <2>1. N!Done(c) /\ v4[c].saw \in Uplinks \cup {"offline"}
    BY <1>6 DEF N!Records
  <2>2. N!Found(v4[c].saw) \in NetworkPlaces
    BY <2>1 DEF N!Found, NetworkPlaces
  <2>3. N!Logged(N!Found(v4[c].saw)) \in NetworkPlaces
    BY <2>2 DEF N!Logged
  <2>4. v8' \in NetworkPlaces /\ v9' \in NetworkPlaces
    BY <1>6, <2>2, <2>3 DEF N!Records
  <2>5. v6' \in BOOLEAN /\ v7' \in Uplinks \cup {"offline", "unknown"}
        /\ UNCHANGED <<v1, v2, v3, v10, v11>>
    BY <1>6, <2>1 DEF N!Records
  <2>6. \A d \in N!Callers : v4'[d].at = "answered" => v4'[d].saw \in Uplinks \cup {"offline"}
    BY <1>4, <2>1
  <2> QED BY <1>4, <2>1, <2>4, <2>5, <2>6
<1>7. CASE N!MapCamera
  <2>1. ASSUME N!MayKick
        PROVE  /\ v4' \in [N!Callers -> NetworkProbes]
               /\ \A d \in N!Callers : v4'[d].at = "answered" => v4'[d] = v4[d]
    <3>1. PICK c \in N!Callers : v4' = [v4 EXCEPT ![c].at = "ask"]
      BY <1>7, <2>1 DEF N!MapCamera, N!Callers, N!Marking
    <3> QED BY <3>1 DEF NetworkProbes
  <2>2. v4' \in [N!Callers -> NetworkProbes]
        /\ \A d \in N!Callers : v4'[d].at = "answered" => v4'[d] = v4[d]
    BY <1>7, <2>1 DEF N!MapCamera
  <2>3. v5' \in BOOLEAN
    BY <1>7 DEF N!MapCamera
  <2> QED BY <1>7, <2>2, <2>3 DEF N!MapCamera
<1>8. CASE N!UnmapCamera \/ N!DeleteAccount \/ N!CoolingEnds
  BY <1>8 DEF N!UnmapCamera, N!DeleteAccount, N!CoolingEnds
<1>9. CASE N!Moves
  BY <1>9 DEF N!Moves
<1>10. CASE UNCHANGED N!networkVars
  BY <1>10 DEF N!networkVars
<1> QED BY <1>2, <1>3, <1>5, <1>6, <1>7, <1>8, <1>9, <1>10 DEF N!Next

-----------------------------------------------------------------------------
(* The refresh of a camera.                                                *)

RefreshTyped ==
    /\ v1 \in {"catalog", "ai"}
    /\ v2 \in BOOLEAN /\ v3 \in BOOLEAN /\ v7 \in BOOLEAN /\ v8 \in BOOLEAN
    /\ v9 \in BOOLEAN /\ v10 \in BOOLEAN /\ v12 \in BOOLEAN
    /\ v4 \in 1 .. MaxConn /\ v5 \in 0 .. MaxConn
    /\ v6 \in [{"poll", "page", "edit"} -> 0 .. MaxConn]
    /\ v11 \subseteq BOOLEAN
    /\ v13 \in 0 .. MaxLosses

LEMMA RefreshIsTyped == R!TypeOK <=> RefreshTyped
BY DEF R!TypeOK, RefreshTyped, R!Callers

LEMMA RefreshInit == R!Init => RefreshTyped
<1> SUFFICES ASSUME R!Init PROVE RefreshTyped
  OBVIOUS
<1>1. v6 \in [{"poll", "page", "edit"} -> 0 .. MaxConn]
  BY CameraBounds DEF R!Init, R!Callers, R!NotProbing
<1>2. v1 \in {"catalog", "ai"} /\ v4 = 1 /\ v5 = 0 /\ v11 = {} /\ v13 = 0
  BY DEF R!Init, R!NoStream
<1>3. v2 \in BOOLEAN /\ v3 \in BOOLEAN /\ v7 \in BOOLEAN /\ v8 \in BOOLEAN
      /\ v9 \in BOOLEAN /\ v10 \in BOOLEAN /\ v12 \in BOOLEAN
  BY DEF R!Init
<1> QED BY <1>1, <1>2, <1>3, CameraBounds DEF RefreshTyped

LEMMA RefreshStep == RefreshTyped /\ [R!Next]_R!refreshVars => RefreshTyped'
<1> SUFFICES ASSUME RefreshTyped, [R!Next]_R!refreshVars PROVE RefreshTyped'
  OBVIOUS
<1> USE CameraBounds DEF RefreshTyped
<1>1. ASSUME NEW active \in BOOLEAN, R!Report(active) PROVE v8' \in BOOLEAN /\ v11' \subseteq BOOLEAN
  <2>1. R!Filtered(active) \in BOOLEAN
    BY DEF R!Filtered
  <2> QED BY <1>1, <2>1 DEF R!Report
<1>2. ASSUME NEW value \in BOOLEAN, R!Publish(value) PROVE RefreshTyped'
  BY <1>2 DEF R!Publish
<1>3. ASSUME NEW c \in R!Callers, R!Begin(c) PROVE RefreshTyped'
  BY <1>3 DEF R!Begin, R!Callers
<1>4. ASSUME NEW c \in R!Callers, R!ProbeEnds(c) PROVE RefreshTyped'
  <2>1. v8' \in BOOLEAN /\ v11' \subseteq BOOLEAN
    BY <1>1, <1>4 DEF R!ProbeEnds
  <2>2. R!Learned(v6[c]) \in 0 .. MaxConn
    BY DEF R!Learned, R!Callers
  <2>3. v5' \in 0 .. MaxConn
    BY <1>4, <2>2 DEF R!ProbeEnds
  <2>4. v6' \in [{"poll", "page", "edit"} -> 0 .. MaxConn]
    <3>1. v6' = [v6 EXCEPT ![c] = 0] /\ c \in {"poll", "page", "edit"}
      BY <1>4 DEF R!ProbeEnds, R!NotProbing, R!Callers
    <3> QED BY <3>1
  <2> QED BY <1>4, <2>1, <2>3, <2>4 DEF R!ProbeEnds
<1>5. CASE R!EditConnection
  BY <1>5 DEF R!EditConnection, R!NoStream
<1>6. CASE R!Appears \/ R!Leaves
  <2>1. v8' \in BOOLEAN /\ v11' \subseteq BOOLEAN
    BY <1>1, <1>6 DEF R!Appears, R!Leaves
  <2> QED BY <1>6, <2>1 DEF R!Appears, R!Leaves, R!Quiet
<1>7. CASE R!LeavesUnreported
  BY <1>7 DEF R!LeavesUnreported, R!Quiet
<1>8. CASE R!Frame \/ R!FrameLingers
  <2>1. v8' \in BOOLEAN /\ v11' \subseteq BOOLEAN
    BY <1>1, <1>8 DEF R!Frame, R!FrameLingers
  <2> QED BY <1>8, <2>1 DEF R!Frame, R!FrameLingers, R!Quiet
<1>9. CASE R!WorkerBreaks \/ R!WorkerReturns
  BY <1>9 DEF R!WorkerBreaks, R!WorkerReturns, R!Quiet
<1>10. CASE R!SwitchChannel \/ R!DeleteCamera \/ R!SwitchOffLocal
  <2>1. v2' \in BOOLEAN /\ v3' \in BOOLEAN /\ v8' \in BOOLEAN /\ v9' \in BOOLEAN
    BY <1>10 DEF R!SwitchChannel, R!DeleteCamera, R!SwitchOffLocal
  <2> QED BY <1>10, <2>1 DEF R!SwitchChannel, R!DeleteCamera, R!SwitchOffLocal, R!NoStream
<1>11. CASE UNCHANGED R!refreshVars
  BY <1>11 DEF R!refreshVars
<1> QED BY <1>2, <1>3, <1>4, <1>5, <1>6, <1>7, <1>8, <1>9, <1>10, <1>11
    DEF R!Next, R!Poll, R!RefreshButton, R!Callers

-----------------------------------------------------------------------------
(* The control of a camera.                                                *)

HeldStates == C!Configurations \cup {C!Unknown}
ControlCommands ==
    [at : {"none", "fetch", "apply", "start", "pulse", "answer", "publish"},
     of : {"web", "mqtt", "nobody"}, part : Parts \cup {"move", "none"}, held : HeldStates]
ControlProbes == [at : {"none", "ask", "answered", "publish"}, held : HeldStates]

\* What a command, and the probe, may be.
RightCommand(command) ==
    /\ command \in ControlCommands
    /\ command.at \in {"fetch", "apply"} => command.part \in Parts
    /\ command.at \in {"apply", "publish"} => command.held \in C!Configurations
RightProbe(probe) ==
    /\ probe \in ControlProbes
    /\ probe.at \in {"answered", "publish"} => probe.held \in C!Configurations

ControlTyped ==
    /\ v1 \in C!Configurations
    /\ v2 \in BOOLEAN /\ v6 \in BOOLEAN /\ v9 \in BOOLEAN
    /\ DOMAIN v3 = {1, 2} /\ v3 = [c \in {1, 2} |-> v3[c]]
    /\ RightCommand(v3[1]) /\ RightCommand(v3[2])
    /\ v4 \in 0 .. MaxCommands
    /\ RightProbe(v5)
    /\ v7 \in HeldStates /\ v8 \in HeldStates
    /\ v10 \in 0 .. MaxTroubles

LEMMA ControlIsTyped == ControlTyped => C!TypeOK
<1> SUFFICES ASSUME ControlTyped PROVE C!TypeOK
  OBVIOUS
<1>1. v3 \in [{1, 2} -> ControlCommands]
  BY DEF ControlTyped, RightCommand
<1> QED BY <1>1 DEF ControlTyped, RightProbe, C!TypeOK, HeldStates, ControlCommands, ControlProbes

LEMMA ControlInit == C!Init => ControlTyped
<1> SUFFICES ASSUME C!Init PROVE ControlTyped
  OBVIOUS
<1>1. RightCommand(C!Nothing) /\ RightProbe(C!NoProbe)
  BY DEF RightCommand, RightProbe, C!Nothing, C!NoProbe, ControlCommands, ControlProbes, HeldStates
<1>2. DOMAIN v3 = {1, 2} /\ v3 = [c \in {1, 2} |-> v3[c]] /\ v3[1] = C!Nothing /\ v3[2] = C!Nothing
  BY DEF C!Init
<1>3. v2 \in BOOLEAN /\ v6 \in BOOLEAN /\ v9 \in BOOLEAN
  BY DEF C!Init
<1>4. v1 = {} /\ v4 = 0 /\ v5 = C!NoProbe /\ v7 = C!Unknown /\ v8 = C!Unknown /\ v10 = 0
  BY DEF C!Init
<1> QED BY <1>1, <1>2, <1>3, <1>4, CameraBounds DEF ControlTyped, HeldStates, C!Configurations

LEMMA ProbesWritten ==
    ASSUME ControlTyped
    PROVE  /\ RightProbe(C!NoProbe) /\ RightProbe(C!Kicked)
           /\ RightProbe([at |-> "answered", held |-> v1])
           /\ v5.at = "answered" => RightProbe([v5 EXCEPT !.at = "publish"])
BY DEF ControlTyped, RightProbe, ControlProbes, HeldStates, C!NoProbe, C!Kicked

LEMMA ProbeMoves ==
    ASSUME ControlTyped,
           C!KickOff \/ C!CameraAnswers \/ C!ProbeFails \/ C!CoolingEnds
           \/ C!StateCached \/ C!StatePublished
    PROVE  ControlTyped'
<1> USE DEF ControlTyped
<1>1. UNCHANGED <<v1, v2, v3, v4, v9>>
  BY DEF C!KickOff, C!CameraAnswers, C!ProbeFails, C!CoolingEnds, C!StateCached, C!StatePublished
<1>2. v6' \in BOOLEAN /\ v10' \in 0 .. MaxTroubles
  BY CameraBounds DEF C!KickOff, C!CameraAnswers, C!ProbeFails, C!CoolingEnds, C!StateCached,
     C!StatePublished, C!Trouble
<1>3. RightProbe(v5')
  BY ProbesWritten DEF C!KickOff, C!CameraAnswers, C!ProbeFails, C!CoolingEnds, C!StateCached,
     C!StatePublished
<1>4. v7' \in HeldStates /\ v8' \in HeldStates
  BY DEF C!KickOff, C!CameraAnswers, C!ProbeFails, C!CoolingEnds, C!StateCached,
     C!StatePublished, RightProbe, HeldStates
<1> QED BY <1>1, <1>2, <1>3, <1>4

\* A step of one command.
LEMMA OneCommand ==
    ASSUME ControlTyped, NEW c \in {1, 2}, NEW new, RightCommand(new),
           v3' = [v3 EXCEPT ![c] = new]
    PROVE  /\ DOMAIN v3' = {1, 2} /\ v3' = [d \in {1, 2} |-> v3'[d]]
           /\ RightCommand(v3'[1]) /\ RightCommand(v3'[2])
BY DEF ControlTyped

LEMMA CommandsWritten ==
    ASSUME ControlTyped, NEW c \in {1, 2}
    PROVE  /\ RightCommand(v3[c]) /\ RightCommand(C!Nothing)
           /\ \A of \in {"web", "mqtt"}, part \in Parts \cup {"move"} :
                  RightCommand([at |-> IF part = "move" THEN "start" ELSE "fetch",
                                of |-> of, part |-> part, held |-> C!Unknown])
           /\ RightCommand([v3[c] EXCEPT !.of = "nobody"])
           /\ v3[c].at = "fetch" => RightCommand([v3[c] EXCEPT !.held = v1, !.at = "apply"])
           /\ v3[c].at = "answer" => RightCommand([v3[c] EXCEPT !.held = v1, !.at = "publish"])
           /\ \A at \in {"pulse", "answer"} : RightCommand([v3[c] EXCEPT !.at = at])
<1> DEFINE command == v3[c]
<1>1. RightCommand(command)
  BY DEF ControlTyped
<1>2. command \in ControlCommands
  BY <1>1 DEF RightCommand
<1>3. v1 \in C!Configurations
  BY DEF ControlTyped
<1> HIDE DEF command
<1>10. \A at : [command EXCEPT !.held = v1, !.at = at]
                   = [at |-> at, of |-> command.of, part |-> command.part, held |-> v1]
  <2> DEFINE half == [command EXCEPT !.held = v1]
  <2>1. half = [at |-> command.at, of |-> command.of, part |-> command.part, held |-> v1]
    BY <1>2 DEF ControlCommands
  <2>2. \A at : [command EXCEPT !.held = v1, !.at = at] = [half EXCEPT !.at = at]
    OBVIOUS
  <2> HIDE DEF half
  <2>3. \A at : [half EXCEPT !.at = at]
                   = [at |-> at, of |-> command.of, part |-> command.part, held |-> v1]
    BY <2>1
  <2> QED BY <2>2, <2>3
<1> USE DEF RightCommand, ControlCommands, HeldStates
<1>4. RightCommand(C!Nothing)
  BY DEF C!Nothing
<1>5. \A of \in {"web", "mqtt"}, part \in Parts \cup {"move"} :
          RightCommand([at |-> IF part = "move" THEN "start" ELSE "fetch",
                        of |-> of, part |-> part, held |-> C!Unknown])
  OBVIOUS
<1>6. RightCommand([command EXCEPT !.of = "nobody"])
  BY <1>1, <1>2
<1>7. command.at = "fetch" => RightCommand([command EXCEPT !.held = v1, !.at = "apply"])
  <2>1. [command EXCEPT !.held = v1, !.at = "apply"]
          = [at |-> "apply", of |-> command.of, part |-> command.part, held |-> v1]
    BY <1>10
  <2> QED BY <1>1, <1>2, <1>3, <2>1
<1>8. command.at = "answer" => RightCommand([command EXCEPT !.held = v1, !.at = "publish"])
  <2>1. [command EXCEPT !.held = v1, !.at = "publish"]
          = [at |-> "publish", of |-> command.of, part |-> command.part, held |-> v1]
    BY <1>10
  <2> QED BY <1>1, <1>2, <1>3, <2>1
<1>9. \A at \in {"pulse", "answer"} : RightCommand([command EXCEPT !.at = at])
  BY <1>1, <1>2
<1> QED BY <1>1, <1>4, <1>5, <1>6, <1>7, <1>8, <1>9 DEF command

LEMMA CommandMoves ==
    ASSUME ControlTyped, NEW c \in {1, 2},
           \/ \E of \in {"web", "mqtt"}, part \in Parts \cup {"move"} : C!Give(c, of, part)
           \/ C!TimesOut(c) \/ C!Fetch(c) \/ C!Apply(c) \/ C!StartMove(c)
           \/ C!StopMove(c) \/ C!StopFails(c) \/ C!Answer(c) \/ C!Reread(c) \/ C!Republish(c)
           \/ C!CallFails(c) \/ C!ApplyUnanswered(c) \/ C!MoveUnanswered(c)
    PROVE  ControlTyped'
<1>1. /\ v1 \in C!Configurations /\ v2 \in BOOLEAN /\ v6 \in BOOLEAN /\ v9 \in BOOLEAN
      /\ v4 \in 0 .. MaxCommands /\ RightProbe(v5) /\ v7 \in HeldStates /\ v8 \in HeldStates
      /\ v10 \in 0 .. MaxTroubles
  BY DEF ControlTyped
<1>2. PICK new : RightCommand(new) /\ v3' = [v3 EXCEPT ![c] = new]
  <2>1. ASSUME NEW of \in {"web", "mqtt"}, NEW part \in Parts \cup {"move"}, C!Give(c, of, part)
        PROVE  \E new : RightCommand(new) /\ v3' = [v3 EXCEPT ![c] = new]
    BY <2>1, CommandsWritten DEF C!Give
  <2>2. CASE C!TimesOut(c)
    <3>1. v3' = [v3 EXCEPT ![c] = [v3[c] EXCEPT !.of = "nobody"]]
      BY <2>2 DEF C!TimesOut
    <3> QED BY <3>1, CommandsWritten
  <2>3. CASE C!Fetch(c)
    <3>1. v3[c].at = "fetch" /\ v3' = [v3 EXCEPT ![c] = [v3[c] EXCEPT !.held = v1, !.at = "apply"]]
      BY <2>3 DEF C!Fetch
    <3> QED BY <3>1, CommandsWritten
  <2>4. CASE C!Reread(c)
    <3>1. v3[c].at = "answer" /\ v3' = [v3 EXCEPT ![c] = [v3[c] EXCEPT !.held = v1, !.at = "publish"]]
      BY <2>4 DEF C!Reread
    <3> QED BY <3>1, CommandsWritten
  <2>5. CASE C!Apply(c) \/ C!StartMove(c) \/ C!StopMove(c) \/ C!StopFails(c)
    <3>1. \E at \in {"pulse", "answer"} : v3' = [v3 EXCEPT ![c] = [v3[c] EXCEPT !.at = at]]
      BY <2>5 DEF C!Apply, C!StartMove, C!StopMove, C!StopFails, C!Goes
    <3> QED BY <3>1, CommandsWritten
  <2>6. CASE \/ C!Answer(c) \/ C!Republish(c)
             \/ C!CallFails(c) \/ C!ApplyUnanswered(c) \/ C!MoveUnanswered(c)
    <3>1. v3' = [v3 EXCEPT ![c] = C!Nothing]
      BY <2>6 DEF C!Answer, C!Republish, C!CallFails, C!ApplyUnanswered, C!MoveUnanswered, C!Raises
    <3> QED BY <3>1, CommandsWritten
  <2> QED BY <2>1, <2>2, <2>3, <2>4, <2>5, <2>6
<1>3. /\ DOMAIN v3' = {1, 2} /\ v3' = [d \in {1, 2} |-> v3'[d]]
      /\ RightCommand(v3'[1]) /\ RightCommand(v3'[2])
  BY <1>2, OneCommand
<1>4. v1' \in C!Configurations
  <2>1. CASE C!Apply(c) \/ C!ApplyUnanswered(c)
    <3>1. v3[c].held \in SUBSET Parts /\ v3[c].part \in Parts
      BY <2>1 DEF ControlTyped, RightCommand, C!Apply, C!ApplyUnanswered, C!Configurations
    <3> QED BY <2>1, <3>1 DEF C!Apply, C!ApplyUnanswered, C!Configurations
  <2>2. CASE v1' = v1
    BY <1>1, <2>2
  <2> QED BY <2>1, <2>2 DEF C!Give, C!TimesOut, C!Fetch, C!StartMove, C!StopMove,
          C!StopFails, C!Answer, C!Reread, C!Republish, C!CallFails, C!MoveUnanswered
<1>5. RightProbe(v5')
  BY <1>1, ProbesWritten DEF C!Give, C!TimesOut, C!Fetch, C!Apply, C!StartMove, C!StopMove,
     C!StopFails, C!Answer, C!Reread, C!Republish, C!CallFails, C!ApplyUnanswered,
     C!MoveUnanswered, C!Raises
<1>6. v2' \in BOOLEAN /\ v6' \in BOOLEAN /\ v9' \in BOOLEAN
  BY <1>1 DEF C!Give, C!TimesOut, C!Fetch, C!Apply, C!StartMove, C!StopMove,
     C!StopFails, C!Answer, C!Reread, C!Republish, C!CallFails, C!ApplyUnanswered,
     C!MoveUnanswered, C!Raises
<1>7. v4' \in 0 .. MaxCommands /\ v10' \in 0 .. MaxTroubles /\ v7' \in HeldStates
  BY <1>1, CameraBounds DEF C!Give, C!TimesOut, C!Fetch, C!Apply, C!StartMove, C!StopMove,
     C!StopFails, C!Answer, C!Reread, C!Republish, C!CallFails, C!ApplyUnanswered,
     C!MoveUnanswered, C!Raises, C!Trouble
<1>8. v8' \in HeldStates
  <2>1. CASE C!Republish(c)
    BY <2>1 DEF C!Republish, ControlTyped, RightCommand, ControlCommands
  <2>2. CASE v8' = v8
    BY <1>1, <2>2
  <2> QED BY <2>1, <2>2 DEF C!Give, C!TimesOut, C!Fetch, C!Apply, C!StartMove, C!StopMove,
          C!StopFails, C!Answer, C!Reread, C!CallFails, C!ApplyUnanswered, C!MoveUnanswered,
          C!Raises
<1> QED BY <1>3, <1>4, <1>5, <1>6, <1>7, <1>8 DEF ControlTyped

LEMMA ControlStep == ControlTyped /\ [C!Next]_C!controlVars => ControlTyped'
<1> SUFFICES ASSUME ControlTyped, [C!Next]_C!controlVars PROVE ControlTyped'
  OBVIOUS
<1>1. CASE UNCHANGED C!controlVars
  BY <1>1 DEF C!controlVars, ControlTyped
<1> QED BY <1>1, ProbeMoves, CommandMoves DEF C!Next

-----------------------------------------------------------------------------
(* Plugin packages.  Here nothing fails, and the one synchronisation is 1. *)

PackageDirs == [version : {0, 1, 2, 3}, form : P!Forms]
PackageRows == [is : {"none", "there", "gone"}, sha : {0, 1, 2}, update : BOOLEAN]
PackageSyncs == [at : {"idle", "pip", "resolve", "fetch", "fetched"}, sha : {0, 1, 2}]
PackageChecks == [at : {"idle", "ask", "answered"}, installed : {0, 1, 2}, sha : {0, 1, 2}]

PackageTyped ==
    /\ v1 \in {"cloud", "network"} /\ v2 \in PackageDirs /\ v3 \in PackageDirs
    /\ v4 \in {0, 1, 2, 3, 4}
    /\ v5 \in {"idle", "clear", "aside", "move", "cleanup", "done"}
    /\ v6 \in {0, 1, 2, 3} /\ v7 \in {0, 1}
    /\ v8 \in {1, 2} /\ v9 \in PackageRows /\ v10 \in [{1} -> PackageSyncs]
    /\ v11 \in PackageChecks /\ v12 \in BOOLEAN /\ v13 \in BOOLEAN
    /\ v14 = 0
    /\ v7 = 1 => v6 \in {1, 2}
    /\ v10[1].at \in {"fetch", "fetched"} => v10[1].sha \in {1, 2}

LEMMA PackageValues ==
    /\ P!Shas = {1, 2} /\ P!NoSha = 0 /\ P!Uploaded = 3 /\ P!Versions = {1, 2, 3}
    /\ P!NoSync = 0 /\ P!Unset = 4 /\ P!Nothing = 0
    /\ P!Absent \in PackageDirs /\ P!NoRow \in PackageRows
    /\ P!Idle \in PackageSyncs /\ P!Idle.at = "idle" /\ P!NoCheck \in PackageChecks
    /\ \A v \in {0, 1, 2, 3} : P!Dir(v, "whole") \in PackageDirs
BY DEF P!Shas, P!NoSha, P!Uploaded, P!Versions, P!NoSync, P!Unset, P!Nothing, P!Absent, P!Dir,
   P!NoRow, P!Idle, P!NoCheck, P!Forms, PackageDirs, PackageRows, PackageSyncs, PackageChecks

LEMMA PackageIsTyped == PackageTyped => P!TypeOK
<1> SUFFICES ASSUME PackageTyped PROVE P!TypeOK
  OBVIOUS
<1>1. /\ {1, 2, 3} \cup {0} = {0, 1, 2, 3} /\ {1, 2, 3} \cup {4, 0} = {0, 1, 2, 3, 4}
      /\ {1} \cup {0} = {0, 1} /\ {1, 2} \cup {0} = {0, 1, 2} /\ 0 \in 0 .. 0
  OBVIOUS
<1> QED BY <1>1, PackageValues DEF PackageTyped, P!TypeOK, PackageDirs, PackageRows,
        PackageSyncs, PackageChecks

LEMMA PackageInit == P!Init => PackageTyped
<1> SUFFICES ASSUME P!Init PROVE PackageTyped
  OBVIOUS
<1> USE PackageValues DEF P!Init
<1>1. v10 \in [{1} -> PackageSyncs] /\ v10[1].at = "idle"
  OBVIOUS
<1>2. v12 \in BOOLEAN /\ v13 \in BOOLEAN /\ v9 \in PackageRows /\ v11 \in PackageChecks
  OBVIOUS
<1>3. v2 \in PackageDirs /\ v3 \in PackageDirs /\ v4 = 4 /\ v6 = 0 /\ v7 = 0 /\ v14 = 0 /\ v8 = 1
      /\ v1 \in {"cloud", "network"} /\ v5 = "idle"
  OBVIOUS
<1> QED BY <1>1, <1>2, <1>3 DEF PackageTyped

\* Nothing fails: there is no trouble to be had.
LEMMA NoTrouble == PackageTyped => ~P!Trouble
BY DEF PackageTyped, P!Trouble

\* What a step of a source or a synchronisation writes.
LEMMA RowsWritten ==
    ASSUME PackageTyped
    PROVE  /\ [P!NoRow EXCEPT !.is = "there"] \in PackageRows
           /\ [P!NoRow EXCEPT !.is = "gone"] \in PackageRows
           /\ \A sha \in {1, 2} : P!Recorded(sha) \in PackageRows
           /\ \A flag \in BOOLEAN : P!Flagged(flag) \in PackageRows
<1>1. v9 \in PackageRows
  BY DEF PackageTyped
<1>2. \A sha \in {1, 2} : [v9 EXCEPT !.sha = sha, !.update = FALSE] \in PackageRows
  <2>1. \A sha \in {1, 2} : [v9 EXCEPT !.sha = sha] \in PackageRows
    BY <1>1 DEF PackageRows
  <2>2. \A row \in PackageRows : [row EXCEPT !.update = FALSE] \in PackageRows
    BY DEF PackageRows
  <2>3. \A sha : [v9 EXCEPT !.sha = sha, !.update = FALSE]
                     = [[v9 EXCEPT !.sha = sha] EXCEPT !.update = FALSE]
    OBVIOUS
  <2> QED BY <2>1, <2>2, <2>3
<1>3. \A sha \in {1, 2} : P!Recorded(sha) \in PackageRows
  BY <1>1, <1>2 DEF P!Recorded
<1> QED BY <1>1, <1>3, PackageValues DEF P!NoRow, P!Flagged, PackageRows

LEMMA SyncWritten ==
    ASSUME PackageTyped, NEW new \in PackageSyncs, v10' = [v10 EXCEPT ![1] = new],
           new.at \in {"fetch", "fetched"} => new.sha \in {1, 2}
    PROVE  /\ v10' \in [{1} -> PackageSyncs]
           /\ v10'[1].at \in {"fetch", "fetched"} => v10'[1].sha \in {1, 2}
BY DEF PackageTyped

\* Steps that leave the directories and the install alone.
LEMMA SourcesKeep ==
    ASSUME PackageTyped, UNCHANGED <<v1, v2, v3, v4, v5, v6, v7, v14>>,
           v12' \in BOOLEAN, v13' \in BOOLEAN, v8' \in {1, 2}, v9' \in PackageRows,
           v11' \in PackageChecks,
           \/ v10' = v10
           \/ \E new \in PackageSyncs :
                  /\ v10' = [v10 EXCEPT ![1] = new]
                  /\ new.at \in {"fetch", "fetched"} => new.sha \in {1, 2}
    PROVE  PackageTyped'
<1>1. /\ v10' \in [{1} -> PackageSyncs]
      /\ v10'[1].at \in {"fetch", "fetched"} => v10'[1].sha \in {1, 2}
  BY SyncWritten DEF PackageTyped
<1> QED BY <1>1 DEF PackageTyped

LEMMA SourceKeeps ==
    ASSUME PackageTyped,
           \/ P!Push \/ P!CreateSource \/ P!DeleteSource \/ P!BeginCheck \/ P!Answer
           \/ P!CheckFails \/ P!RecordCheck \/ P!StartUse \/ P!StopUse
    PROVE  PackageTyped'
<1>1. /\ v8 \in {1, 2} /\ v9 \in PackageRows /\ v11 \in PackageChecks
      /\ v12 \in BOOLEAN /\ v13 \in BOOLEAN
  BY DEF PackageTyped
<1> USE DEF P!SourceStep, P!installVars, P!sourceVars
<1>2. CASE P!Push
  <2>1. v8' \in {1, 2}
    BY <1>1, <1>2 DEF P!Push
  <2> QED BY <1>1, <1>2, <2>1, SourcesKeep DEF P!Push
<1>3. CASE P!CreateSource \/ P!DeleteSource
  BY <1>1, <1>3, SourcesKeep, RowsWritten DEF P!CreateSource, P!DeleteSource
<1>4. CASE P!BeginCheck \/ P!Answer
  <2>1. v11' \in PackageChecks
    <3>1. CASE P!BeginCheck
      BY <1>1, <3>1, PackageValues DEF P!BeginCheck, PackageChecks, PackageRows
    <3>2. CASE P!Answer
      <4>1. v11' = [at |-> "answered", installed |-> v11.installed, sha |-> v8]
        BY <1>1, <3>2 DEF P!Answer, PackageChecks
      <4> QED BY <1>1, <4>1 DEF PackageChecks
    <3> QED BY <1>4, <3>1, <3>2
  <2> QED BY <1>1, <1>4, <2>1, SourcesKeep DEF P!BeginCheck, P!Answer
<1>5. CASE P!RecordCheck
  <2>1. P!UpdateAvailable \in BOOLEAN
    BY DEF P!UpdateAvailable
  <2> QED BY <1>1, <1>5, <2>1, SourcesKeep, RowsWritten, PackageValues DEF P!RecordCheck
<1>6. CASE P!StartUse \/ P!StopUse
  BY <1>1, <1>6, SourcesKeep DEF P!StartUse, P!StopUse
<1>7. ~P!CheckFails
  BY NoTrouble DEF P!CheckFails
<1> QED BY <1>2, <1>3, <1>4, <1>5, <1>6, <1>7

LEMMA SyncKeeps ==
    ASSUME PackageTyped,
           \/ P!InstallStandardSource(1) \/ P!BeginSync(1) \/ P!ResolveSha(1)
           \/ P!FetchArchive(1) \/ P!FetchFails(1) \/ P!RefuseFetched(1)
           \/ P!BeginPip(1) \/ P!PipEnds(1)
    PROVE  PackageTyped'
<1>1. /\ v8 \in {1, 2} /\ v9 \in PackageRows /\ v11 \in PackageChecks
      /\ v12 \in BOOLEAN /\ v13 \in BOOLEAN
      /\ v10 \in [{1} -> PackageSyncs] /\ v10[1] \in PackageSyncs
      /\ v10[1].at \in {"fetch", "fetched"} => v10[1].sha \in {1, 2}
  BY DEF PackageTyped
<1>2. \E new \in PackageSyncs :
          /\ v10' = [v10 EXCEPT ![1] = new]
          /\ new.at \in {"fetch", "fetched"} => new.sha \in {1, 2}
  <2>1. CASE P!InstallStandardSource(1) \/ P!BeginSync(1)
    BY <1>1, <2>1, PackageValues DEF P!InstallStandardSource, P!BeginSync, PackageSyncs
  <2>2. CASE P!ResolveSha(1)
    <3>1. v10' = [v10 EXCEPT ![1] = [at |-> "fetch", sha |-> v8]]
      BY <2>2 DEF P!ResolveSha
    <3>2. [at |-> "fetch", sha |-> v8] \in PackageSyncs
      BY <1>1 DEF PackageSyncs
    <3> QED BY <1>1, <3>1, <3>2
  <2>3. CASE P!FetchArchive(1)
    <3> DEFINE new == [v10[1] EXCEPT !.at = "fetched"]
    <3>1. new \in PackageSyncs /\ new.sha \in {1, 2}
      BY <1>1, <2>3 DEF P!FetchArchive, PackageSyncs
    <3>2. v10' = [v10 EXCEPT ![1] = new]
      BY <1>1, <2>3 DEF P!FetchArchive
    <3> QED BY <3>1, <3>2
  <2>4. CASE P!FetchFails(1) \/ P!RefuseFetched(1)
    BY <1>1, <2>4, PackageValues DEF P!FetchFails, P!RefuseFetched, P!SyncOver
  <2>5. CASE P!BeginPip(1) \/ P!PipEnds(1)
    <3>1. PICK next \in {"pip", "resolve", "idle"} : v10' = [v10 EXCEPT ![1].at = next]
      BY <2>5 DEF P!BeginPip, P!PipEnds
    <3> DEFINE new == [v10[1] EXCEPT !.at = next]
    <3>2. new \in PackageSyncs /\ new.at = next
      BY <1>1 DEF PackageSyncs
    <3>3. v10' = [v10 EXCEPT ![1] = new]
      BY <1>1, <3>1
    <3> QED BY <3>2, <3>3
  <2> QED BY <2>1, <2>2, <2>3, <2>4, <2>5
<1>3. UNCHANGED <<v1, v2, v3, v4, v5, v6, v7, v8, v11, v12, v14>>
      /\ v9' \in PackageRows /\ v13' \in BOOLEAN
  BY <1>1, NoTrouble, RowsWritten DEF P!InstallStandardSource, P!BeginSync, P!ResolveSha,
     P!FetchArchive, P!FetchFails, P!RefuseFetched, P!BeginPip, P!PipEnds, P!SourceStep, P!installVars
<1> QED BY <1>1, <1>2, <1>3, SourcesKeep

\* Discovery, removal and the beginning of an install.
LEMMA DirectoriesKeep ==
    ASSUME PackageTyped,
           P!ListModules \/ P!DeletePackage \/ P!Import \/ P!InstallFetched(1)
    PROVE  PackageTyped'
<1> USE PackageValues DEF PackageTyped, P!sourceVars
<1>1. CASE P!ListModules
  <2>1. P!Discovered \in PackageDirs
    BY DEF P!Discovered
  <2>2. P!Loaded \in {0, 1, 2, 3}
    BY <2>1 DEF P!Loaded, PackageDirs
  <2>3. v4' \in {0, 1, 2, 3, 4}
    BY <1>1, <2>2 DEF P!ListModules
  <2> QED BY <1>1, <2>3 DEF P!ListModules
<1>2. CASE P!DeletePackage
  <2>1. PICK k : P!Delete(k)
    BY <1>2 DEF P!DeletePackage, P!DeleteCameraModule, P!DeleteCloudModule, P!DeleteNetworkModule,
       P!DeleteDesignTheme
  <2> QED BY <2>1 DEF P!Delete
<1>3. CASE P!Import
  <2>1. PICK k : P!Upload(k)
    BY <1>3 DEF P!Import, P!ImportCameraModule, P!ImportCloudModule, P!ImportNetworkModule,
       P!ImportDesignTheme
  <2> QED BY <2>1 DEF P!Upload, P!Enter
<1>4. CASE P!InstallFetched(1)
  BY <1>4 DEF P!InstallFetched, P!Enter
<1> QED BY <1>1, <1>2, <1>3, <1>4

LEMMA InstallKeeps == ASSUME PackageTyped, P!InstallStep PROVE PackageTyped'
<1> USE PackageValues DEF PackageTyped, P!sourceVars, P!StepTo
<1>1. ASSUME NEW k, P!ArchiveStep(k) PROVE PackageTyped'
  <2>1. CASE P!ClearBackup
    BY <2>1 DEF P!ClearBackup
  <2>2. CASE P!SetAside
    BY <2>2 DEF P!SetAside
  <2>3. CASE P!MoveIn
    <3>1. v2' \in PackageDirs
      BY <2>3 DEF P!MoveIn
    <3> QED BY <2>3, <3>1 DEF P!MoveIn
  <2>4. CASE P!RemoveBackup
    BY <2>4 DEF P!RemoveBackup
  <2> QED BY <1>1, <2>1, <2>2, <2>3, <2>4 DEF P!ArchiveStep
<1>2. CASE P!FinishInstall
  <2>1. /\ v10' \in [{1} -> PackageSyncs]
        /\ v10'[1].at \in {"fetch", "fetched"} => v10'[1].sha \in {1, 2}
        /\ v9' \in PackageRows
    <3>1. CASE v7 = 0
      BY <1>2, <3>1 DEF P!FinishInstall
    <3>2. CASE v7 = 1
      <4>1. v9' = P!Recorded(v6) /\ v10' = [v10 EXCEPT ![1] = P!Idle]
        BY <1>2, <3>2 DEF P!FinishInstall, P!SyncOver
      <4> QED BY <3>2, <4>1, RowsWritten, SyncWritten
    <3> QED BY <3>1, <3>2
  <2> QED BY <1>2, <2>1 DEF P!FinishInstall, P!LeaveInstall
<1> QED BY <1>1, <1>2 DEF P!InstallStep, P!InstallCameraArchive, P!InstallCloudArchive,
    P!InstallNetworkArchive, P!InstallThemeArchive

LEMMA PackageStep == PackageTyped /\ [P!Next]_P!vars => PackageTyped'
<1> SUFFICES ASSUME PackageTyped, [P!Next]_P!vars PROVE PackageTyped'
  OBVIOUS
<1>1. CASE UNCHANGED P!vars
  BY <1>1 DEF P!vars, P!installVars, P!sourceVars, PackageTyped
<1>2. ~P!InstallRaises /\ ~P!DeleteRaises /\ ~P!CrashRestart
  BY NoTrouble DEF P!InstallRaises, P!DeleteRaises, P!CrashRestart
<1> QED BY <1>1, <1>2, SourceKeeps, SyncKeeps, DirectoriesKeep, InstallKeeps DEF P!Next

-----------------------------------------------------------------------------
(* The theorems.                                                           *)

\* Reachable states satisfy the inductive invariant.
THEOREM Inductive == Spec => []IInv
<1>1. Init => IInv
  BY InitIInv
<1>2. IInv /\ [Next]_vars => IInv'
  BY StepKeepsIInv
<1> QED BY <1>1, <1>2, PTL DEF Spec

\* The manager's dictionaries and threads keep every variable in its type.
THEOREM TypeCorrect == Spec => []TypeOK
<1>1. IInv => TypeOK
  BY DEF IInv
<1> QED BY <1>1, Inductive, PTL

\* Until two starts overlap, every running ffmpeg is the entry of _processes
\* or about to be: stop finds it (LiveManager.start, _launch and stop).
THEOREM NobodyStrays == Spec => []NoStray
<1>1. IInv => NoStray
  BY DEF IInv
<1> QED BY <1>1, Inductive, PTL

\* Until two starts overlap, no two readers have one generation, so that the
\* check of _append_message tells them apart.
THEOREM GenerationsTell == Spec => []GenerationsDistinct
<1>1. IInv => GenerationsDistinct
  BY DEF IInv
<1> QED BY <1>1, Inductive, PTL

\* Nothing but its own steps changes the variables of the machine chosen.
LEMMA Alone ==
    ASSUME [ProgressNext]_progressVars
    PROVE  /\ which' = which
           /\ which = "live" => [Next]_vars
           /\ which = "packages" => [P!Next]_P!vars
           /\ which = "workers" => [W!Next]_W!workerVars
           /\ which = "refresh" => [R!Next]_R!refreshVars
           /\ which = "control" => [C!Next]_C!controlVars
           /\ which = "firmware" => [F!Next]_F!firmwareVars
           /\ which = "network" => [N!Next]_N!networkVars
           /\ which = "images" => [I!Next]_I!snapshotVars
           /\ which = "listener" => [L!Next]_L!listenerVars
           /\ which = "preroll" => [E!Next]_E!prebufferVars
<1> USE DEF ProgressNext, progressVars, Watch, Install, Work, Refresh, Control, Update, Locate,
    TakeImages, Listen, Buffer, InWatch, InInstall, InWork, InRefresh, InControl, InUpdate,
    InLocate, InImages, InListen, InBuffer
<1>1. which' = which
  OBVIOUS
<1>2. which = "live" => [Next]_vars
  OBVIOUS
<1>3. which = "packages" => [P!Next]_P!vars
  BY DEF P!vars, machine, P!installVars, P!sourceVars
<1>4. which = "workers" => [W!Next]_W!workerVars
  BY DEF W!workerVars, machine
<1>5. which = "refresh" => [R!Next]_R!refreshVars
  BY DEF R!refreshVars, machine
<1>6. which = "control" => [C!Next]_C!controlVars
  BY DEF C!controlVars, machine
<1>7. which = "firmware" => [F!Next]_F!firmwareVars
  BY DEF F!firmwareVars, machine
<1>8. which = "network" => [N!Next]_N!networkVars
  BY DEF N!networkVars, machine
<1>9. which = "images" => [I!Next]_I!snapshotVars
  BY DEF I!snapshotVars, machine
<1>10. which = "listener" => [L!Next]_L!listenerVars
  BY DEF L!listenerVars, machine
<1>11. which = "preroll" => [E!Next]_E!prebufferVars
  BY DEF E!prebufferVars, machine
<1> QED BY <1>1, <1>2, <1>3, <1>4, <1>5, <1>6, <1>7, <1>8, <1>9, <1>10, <1>11

\* A machine that is chosen satisfies its inductive invariant.
ProgressInv ==
    /\ which = "live" => IInv
    /\ which = "packages" => PackageTyped
    /\ which = "workers" => W!IInv
    /\ which = "refresh" => RefreshTyped
    /\ which = "control" => ControlTyped
    /\ which = "firmware" => F!TypeOK
    /\ which = "network" => N!IInv
    /\ which = "images" => I!IInv
    /\ which = "listener" => L!IInv
    /\ which = "preroll" => E!IInv

LEMMA ProgressReached == ProgressSpec => []ProgressInv
<1>1. ProgressInit => ProgressInv
  BY InitIInv, PackageInit, WorkersInit, RefreshInit, ControlInit, FirmwareInit, NetworkInit,
     ImagesInit, ListenerInit, PrerollInit DEF ProgressInit, ProgressInv
<1>2. ProgressInv /\ [ProgressNext]_progressVars => ProgressInv'
  BY Alone, StepKeepsIInv, PackageStep, WorkersStep, RefreshStep, ControlStep, FirmwareStep,
     NetworkStep, ImagesStep, ListenerStep, PrerollStep DEF ProgressInv
<1> QED BY <1>1, <1>2, PTL DEF ProgressSpec

\* The machine chosen keeps its variables in their types: what a refresh,
\* a command, a firmware update, a probe or a synchronisation has in hand is
\* always something it has read (main.py, live.py, recording.py, mqtt.py).
THEOREM ProgressIsTyped == ProgressSpec => []ProgressTypeOK
<1>1. ProgressInv => ProgressTypeOK
  BY PackageIsTyped, RefreshIsTyped, ControlIsTyped DEF ProgressInv, ProgressTypeOK, IInv,
     W!IInv, N!IInv, I!IInv, L!IInv, E!IInv
<1> QED BY <1>1, ProgressReached, PTL

\* No stray ffmpeg and no generation twice until two starts overlap, never two
\* workers of a camera and never two MQTT clients, whatever the kinds of
\* workers, the edits, saves and brokers (live.py, supervisor.py, mqtt.py).
THEOREM NothingRunsTwice == ProgressSpec => []NothingTwice
<1>1. ProgressInv => NothingTwice
  BY OneWorkerAtMost DEF ProgressInv, NothingTwice, IInv, L!IInv
<1> QED BY <1>1, ProgressReached, PTL

\* The pre-roll of a clip holds no stream but its own and the one its process
\* reads, as long as no process was started while its predecessor was ending:
\* the safety half of WorkReturns (recording.py, _ensure_prebuffer and
\* _copy_prebuffer_segments).
THEOREM PrerollsAreExplained ==
    ProgressSpec => [](which = "preroll" => E!PrerollExplained)
<1>1. ProgressInv => (which = "preroll" => E!PrerollExplained)
  BY DEF ProgressInv, E!IInv
<1> QED BY <1>1, ProgressReached, PTL
=============================================================================
