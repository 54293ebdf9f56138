----------------------- MODULE EventRecording_proofs -----------------------
(***************************************************************************)
(* Proofs about EventRecording for every value of its constants.  The      *)
(* inductive invariant is TypeOK, what a job's stage says of its row and   *)
(* files (StageInv), and who holds a key (HolderInv).                      *)
(***************************************************************************)
EXTENDS EventRecording, TLAPS

\* Stages in which the job has not yet written its result to the row.
Unsettled == {"queued", "body", "build", "upload", "uploadSnapshot", "returned",
              "error"}

\* What the thread may do: from which stage to which, leaving which files.
ThreadMove(r, from, to, made) ==
    /\ from \in {"queued"} \cup InThread
    /\ to \in InThread \cup {"returned", "error"}
    /\ made \in SUBSET Artefacts
    /\ to = "upload" => made \in {{"local"}, {"local", "snapshot"}}
    /\ to = "returned" => made \in StoredSets

\* A step of the thread is a ThreadStep along a ThreadMove.
LEMMA ThreadShape ==
    ASSUME TypeOK, NEW r \in Rows, ThreadNext(r),
           stage[r] = "upload" => files[r] \in {{"local"}, {"local", "snapshot"}}
    PROVE  \E from, to \in Stages, made \in SUBSET Artefacts :
              ThreadStep(r, from, to, made) /\ ThreadMove(r, from, to, made)
<1> USE DEF TypeOK, ThreadMove, Artefacts, Stages, InFlightStages, InThread, OnLoop,
            StoredSets
<1>1. CASE BeginBody(r)
  BY <1>1 DEF BeginBody
<1>2. CASE BeginFails(r)
  BY <1>2 DEF BeginFails
<1>3. CASE EndBody(r)
  BY <1>3 DEF EndBody
<1>4. CASE BodyEmpty(r)
  BY <1>4 DEF BodyEmpty
<1>5. ASSUME NEW thumb \in {{}, {"snapshot"}}, BuildClip(r, thumb)
      PROVE  \E from, to \in Stages, made \in SUBSET Artefacts :
                ThreadStep(r, from, to, made) /\ ThreadMove(r, from, to, made)
  <2>1. {"local"} \cup thumb \in {{"local"}, {"local", "snapshot"}}
    OBVIOUS
  <2>2. CASE target[r] = "local"
    <3>1. ThreadStep(r, "build", "returned", {"local"} \cup thumb)
      BY <1>5, <2>2 DEF BuildClip
    <3> QED BY <2>1, <3>1
  <2>3. CASE target[r] # "local"
    <3>1. ThreadStep(r, "build", "upload", {"local"} \cup thumb)
      BY <1>5, <2>3 DEF BuildClip
    <3> QED BY <2>1, <3>1
  <2> QED BY <2>2, <2>3
<1>6. ASSUME NEW left \in {{}, {"local"}}, BuildFails(r, left)
      PROVE  \E from, to \in Stages, made \in SUBSET Artefacts :
                ThreadStep(r, from, to, made) /\ ThreadMove(r, from, to, made)
  BY <1>6 DEF BuildFails
<1>7. CASE UploadClip(r)
  <2>1. CASE "snapshot" \in files[r]
    <3>1. ThreadStep(r, "upload", "uploadSnapshot", files[r] \cup {"remote"})
      BY <1>7, <2>1 DEF UploadClip
    <3>2. files[r] \cup {"remote"} \in SUBSET Artefacts
      OBVIOUS
    <3> QED BY <3>1, <3>2
  <2>2. CASE "snapshot" \notin files[r]
    <3>1. ThreadStep(r, "upload", "returned", {"remote"})
      BY <1>7, <2>2 DEF UploadClip
    <3> QED BY <3>1
  <2> QED BY <2>1, <2>2
<1>8. CASE UploadSnapshot(r)
  BY <1>8 DEF UploadSnapshot
<1>9. CASE UploadFails(r)
  BY <1>9 DEF UploadFails
<1>10. CASE UnlinkFails(r)
  <2>1. CASE ThreadStep(r, "upload", "error", files[r] \cup {"remote"})
    <3>1. files[r] \cup {"remote"} \in SUBSET Artefacts
      OBVIOUS
    <3> QED BY <2>1, <3>1
  <2>2. ASSUME NEW gone \in {{}, {"snapshot"}},
               ThreadStep(r, "uploadSnapshot", "error", (files[r] \cup {"remoteSnapshot"}) \ gone)
        PROVE  \E from, to \in Stages, made \in SUBSET Artefacts :
                  ThreadStep(r, from, to, made) /\ ThreadMove(r, from, to, made)
    <3>1. (files[r] \cup {"remoteSnapshot"}) \ gone \in SUBSET Artefacts
      OBVIOUS
    <3> QED BY <2>2, <3>1
  <2> QED BY <1>10, <2>1, <2>2 DEF UnlinkFails
<1> QED
  BY <1>1, <1>2, <1>3, <1>4, <1>5, <1>6, <1>7, <1>8, <1>9, <1>10 DEF ThreadNext

-----------------------------------------------------------------------------
(* The inductive invariant.                                                *)

\* What a row's stage says: unborn rows are empty, an unsettled job's row
\* names nothing and is not settled, and a ready row names what is stored.
RowInv(r) ==
    /\ stage[r] = "none" => status[r] = "unborn" /\ refs[r] = {} /\ files[r] = {}
    /\ r >= nextRow => stage[r] = "none"
    /\ stage[r] # "none" => keyOf[r] \in Keys
    /\ stage[r] \in Unsettled \cup {"wedged"} =>
          status[r] \in {"recording", "deleted"} /\ refs[r] = {}
    /\ stage[r] = "upload" => files[r] \in {{"local"}, {"local", "snapshot"}}
    /\ stage[r] = "returned" => files[r] \in StoredSets
    /\ stage[r] = "post" => status[r] \in {"ready", "deleted"}
    /\ status[r] = "ready" => files[r] = refs[r] /\ refs[r] \in StoredSets

StageInv == \A r \in Rows : RowInv(r)

\* A job in flight holds its key, and a held key has its job or was wedged.
HolderInv ==
    /\ \A r \in Rows : InFlight(r) => active[keyOf[r]] = r
    /\ ActiveKeyHeld

FaultInv == FailedRowNamesNothing /\ RecordingRowHasJob

\* While the process lives, _last_started bounds every start of its key.
SpacedInv ==
    crashes = 0 =>
        /\ ClipsSpaced
        /\ \A r \in 1 .. (nextRow - 1) :
              /\ keyOf[r] \in Keys
              /\ lastStarted[keyOf[r]] # Never
              /\ startedAt[r] <= lastStarted[keyOf[r]]

IInv == TypeOK /\ StageInv /\ HolderInv /\ FaultInv /\ SpacedInv

LEMMA InitIInv == ASSUME Init PROVE IInv
<1> USE ParamsAssumption
<1> USE DEF Init, Rows, NoRow, Never
<1>1. TypeOK
  BY DEF TypeOK, Stages, InFlightStages, OnLoop, InThread, Targets, Artefacts
<1>2. StageInv
  BY DEF StageInv, RowInv, Unsettled
<1>3. HolderInv
  BY DEF HolderInv, ActiveKeyHeld, InFlight, InFlightStages, OnLoop, InThread
<1>4. FaultInv
  BY DEF FaultInv, FailedRowNamesNothing, RecordingRowHasJob
<1>5. SpacedInv
  BY DEF SpacedInv, ClipsSpaced
<1> QED BY <1>1, <1>2, <1>3, <1>4, <1>5 DEF IInv

\* An iteration that starts a recording, whether its task is created or not.
LEMMA BeginKeepsIInv ==
    ASSUME IInv, NEW k \in Keys, NEW kind \in Targets, NEW outcome \in {"queued", "wedged"},
           BeginRecording(k, kind, outcome),
           dbErrors' \in Nat,
           outcome = "wedged" => dbErrors' > 0,
           dbErrors' = 0 => dbErrors = 0
    PROVE  IInv'
<1> USE ParamsAssumption
<1> USE DEF IInv, BeginRecording, KeyFree
<1>0. nextRow \in Rows /\ nextRow # NoRow /\ nextRow + 1 \in 1 .. (MaxRows + 1)
  BY DEF TypeOK, Rows, NoRow
<1>1. TypeOK'
  <2>1. /\ stage' \in [Rows -> Stages]
        /\ status' \in [Rows -> {"unborn", "recording", "ready", "failed", "deleted"}]
        /\ active' \in [Keys -> Rows \cup {NoRow}]
        /\ keyOf' \in [Rows -> Keys \cup {NoKey}]
        /\ target' \in [Rows -> Targets]
    BY <1>0 DEF TypeOK, Stages, InFlightStages, OnLoop
  <2>2. now + Post \in Nat
    BY DEF TypeOK
  <2>3. /\ startedAt' \in [Rows -> Nat]
        /\ until' \in [Rows -> Nat]
        /\ lastStarted' \in [Keys -> Nat \cup {Never}]
    BY <1>0, <2>2 DEF TypeOK
  <2> QED BY <1>0, <2>1, <2>3 DEF TypeOK
<1>2. stage[nextRow] = "none" /\ \A q \in Rows : ~(InFlight(q) /\ keyOf[q] = k)
  BY <1>0 DEF TypeOK, StageInv, RowInv, HolderInv, Rows, NoRow
<1>3. StageInv'
  <2>1. /\ status[nextRow] = "unborn" /\ refs[nextRow] = {} /\ files[nextRow] = {}
    BY <1>0, <1>2 DEF StageInv, RowInv
  <2>2. ASSUME NEW r \in Rows, r # nextRow
        PROVE  /\ stage'[r] = stage[r] /\ status'[r] = status[r] /\ keyOf'[r] = keyOf[r]
               /\ refs'[r] = refs[r] /\ files'[r] = files[r]
    BY <2>2 DEF TypeOK
  <2>3. /\ stage'[nextRow] = outcome /\ status'[nextRow] = "recording"
        /\ keyOf'[nextRow] = k /\ refs'[nextRow] = {} /\ files'[nextRow] = {}
        /\ nextRow' = nextRow + 1
    BY <1>0, <2>1 DEF TypeOK
  <2> SUFFICES ASSUME NEW r \in Rows PROVE RowInv(r)'
    BY DEF StageInv
  <2>4. CASE r = nextRow
    BY <1>0, <2>3, <2>4 DEF Rows, RowInv, Unsettled
  <2>5. CASE r # nextRow
    <3>1. r >= nextRow' => r >= nextRow
      BY <1>0, <2>3 DEF Rows
    <3> QED BY <2>2, <2>5, <3>1 DEF StageInv, RowInv
  <2> QED BY <2>4, <2>5
<1>4. HolderInv'
  <2>1. ASSUME NEW q \in Rows, InFlight(q)'
        PROVE  active'[keyOf'[q]] = q
    <3>1. CASE q = nextRow
      BY <1>0, <3>1 DEF TypeOK
    <3>2. CASE q # nextRow
      BY <1>0, <1>2, <2>1, <3>2 DEF TypeOK, HolderInv, InFlight, StageInv, RowInv
    <3> QED BY <3>1, <3>2
  <2>2. ASSUME NEW j \in Keys, active'[j] # NoRow
        PROVE  /\ keyOf'[active'[j]] = j
               /\ \/ stage'[active'[j]] \in InFlightStages
                  \/ (stage'[active'[j]] = "wedged" /\ dbErrors' > 0)
    <3>1. CASE j = k
      BY <1>0, <3>1 DEF TypeOK, InFlight, InFlightStages, OnLoop
    <3>2. CASE j # k
      <4>1. active'[j] = active[j] /\ active[j] # NoRow /\ active[j] \in Rows
        BY <2>2, <3>2 DEF TypeOK
      <4>2. active[j] # nextRow
        BY <1>2, <4>1 DEF HolderInv, ActiveKeyHeld, InFlight, InFlightStages, OnLoop, InThread
      <4> QED BY <1>0, <4>1, <4>2 DEF HolderInv, ActiveKeyHeld, TypeOK, InFlight
    <3> QED BY <3>1, <3>2
  <2> QED BY <2>1, <2>2 DEF HolderInv, ActiveKeyHeld, InFlight
<1>5. FaultInv'
  <2>1. FailedRowNamesNothing'
    BY <1>0 DEF FaultInv, FailedRowNamesNothing, TypeOK
  <2>2. RecordingRowHasJob'
    BY <1>0 DEF FaultInv, RecordingRowHasJob, TypeOK, InFlight, InFlightStages, OnLoop
  <2> QED BY <2>1, <2>2 DEF FaultInv
<1>6. SpacedInv'
  <2> SUFFICES ASSUME crashes = 0
               PROVE  /\ ClipsSpaced'
                      /\ \A r \in 1 .. (nextRow' - 1) :
                            /\ keyOf'[r] \in Keys
                            /\ lastStarted'[keyOf'[r]] # Never
                            /\ startedAt'[r] <= lastStarted'[keyOf'[r]]
    BY DEF SpacedInv
  <2>1. \A r \in 1 .. (nextRow - 1) :
           /\ r \in Rows /\ r # nextRow
           /\ keyOf'[r] = keyOf[r] /\ startedAt'[r] = startedAt[r]
           /\ keyOf[r] \in Keys /\ lastStarted[keyOf[r]] # Never
           /\ startedAt[r] <= lastStarted[keyOf[r]]
           /\ startedAt[r] \in Nat
    BY <1>0 DEF SpacedInv, TypeOK, Rows
  <2>2. \A r \in 1 .. (nextRow' - 1) : r = nextRow \/ r \in 1 .. (nextRow - 1)
    BY <1>0 DEF Rows
  <2>3. keyOf'[nextRow] = k /\ startedAt'[nextRow] = now /\ now \in Nat
    BY <1>0 DEF TypeOK
  <2>4. lastStarted[k] = Never \/ (lastStarted[k] \in Nat /\ now >= lastStarted[k] + Cooldown)
    BY DEF CooldownOver, TypeOK
  <2>5. \A j \in Keys : lastStarted'[j] = IF j = k THEN now ELSE lastStarted[j]
    BY DEF TypeOK
  <2>6. ASSUME NEW r \in 1 .. (nextRow' - 1)
        PROVE  /\ keyOf'[r] \in Keys
               /\ lastStarted'[keyOf'[r]] # Never
               /\ startedAt'[r] <= lastStarted'[keyOf'[r]]
    <3>1. CASE r = nextRow
      BY <2>3, <2>5, <3>1 DEF Never
    <3>2. CASE r \in 1 .. (nextRow - 1)
      <4>1. CASE keyOf[r] = k
        BY <2>1, <2>3, <2>4, <2>5, <3>2, <4>1 DEF Never
      <4>2. CASE keyOf[r] # k
        BY <2>1, <2>5, <3>2, <4>2
      <4> QED BY <4>1, <4>2
    <3> QED BY <2>2, <3>1, <3>2
  <2>7. ASSUME NEW q \in 1 .. (nextRow' - 1), NEW r \in 1 .. (nextRow' - 1),
               q < r, keyOf'[q] = keyOf'[r]
        PROVE  startedAt'[r] >= startedAt'[q] + Cooldown
    <3>1. CASE r = nextRow
      <4>1. q \in 1 .. (nextRow - 1)
        BY <2>2, <2>7, <3>1
      <4>2. keyOf[q] = k
        BY <2>1, <2>3, <2>7, <3>1, <4>1
      <4> QED BY <2>1, <2>3, <2>4, <3>1, <4>1, <4>2
    <3>2. CASE r \in 1 .. (nextRow - 1)
      <4>1. q \in 1 .. (nextRow - 1)
        BY <1>0, <2>2, <2>7, <3>2 DEF Rows
      <4> QED BY <2>1, <2>7, <3>2, <4>1 DEF SpacedInv, ClipsSpaced
    <3> QED BY <2>2, <3>1, <3>2
  <2> QED BY <2>6, <2>7 DEF ClipsSpaced
<1> QED BY <1>1, <1>3, <1>4, <1>5, <1>6

\* What IInv reads: it is unchanged when only the clock, the cameras or a
\* deadline move.
LEMMA FrameKeepsIInv ==
    ASSUME IInv, now' \in Nat, cameras' \subseteq Cameras, until' \in [Rows -> Nat],
           UNCHANGED <<active, lastStarted, nextRow, status, refs, jobVars, stage,
                       files, crashes, dbErrors>>
    PROVE  IInv'
<1> USE DEF IInv, jobVars
<1>1. TypeOK'
  BY DEF TypeOK
<1>2. StageInv'
  BY DEF StageInv, RowInv
<1>3. HolderInv'
  BY DEF HolderInv, ActiveKeyHeld, InFlight
<1>4. FaultInv'
  BY DEF FaultInv, FailedRowNamesNothing, RecordingRowHasJob, InFlight
<1>5. SpacedInv'
  BY DEF SpacedInv, ClipsSpaced
<1> QED BY <1>1, <1>2, <1>3, <1>4, <1>5

LEMMA ExtendKeepsIInv ==
    ASSUME IInv, NEW k \in Keys, ExtendRecording(k)
    PROVE  IInv'
<1>1. until' \in [Rows -> Nat]
  BY ParamsAssumption DEF IInv, TypeOK, ExtendRecording, KeyFree
<1>2. /\ now' \in Nat /\ cameras' \subseteq Cameras
      /\ UNCHANGED <<active, lastStarted, nextRow, status, refs, jobVars, stage,
                     files, crashes, dbErrors>>
  BY DEF IInv, TypeOK, ExtendRecording, KeyFree
<1> QED BY <1>1, <1>2, FrameKeepsIInv

LEMMA TickKeepsIInv ==
    ASSUME IInv, Tick
    PROVE  IInv'
<1>1. /\ now' \in Nat /\ cameras' \subseteq Cameras /\ until' \in [Rows -> Nat]
      /\ UNCHANGED <<active, lastStarted, nextRow, status, refs, jobVars, stage,
                     files, crashes, dbErrors>>
  BY DEF IInv, TypeOK, Tick, memory
<1> QED BY <1>1, FrameKeepsIInv

\* A step of the thread moves one job along a ThreadMove.
LEMMA ThreadKeepsIInv ==
    ASSUME IInv, NEW r \in Rows, ThreadNext(r)
    PROVE  IInv'
<1>1. PICK from \in Stages, to \in Stages, made \in SUBSET Artefacts :
         ThreadStep(r, from, to, made) /\ ThreadMove(r, from, to, made)
  BY ThreadShape DEF IInv, StageInv, RowInv
<1> USE DEF IInv, ThreadStep, memory, jobVars
<1>2. /\ stage[r] = from
      /\ from \in InFlightStages \cap Unsettled
      /\ to \in InFlightStages \cap Unsettled
      /\ from # "none" /\ to # "none"
  BY <1>1 DEF ThreadMove, InFlightStages, InThread, OnLoop, Unsettled
<1>3. /\ stage'[r] = to /\ files'[r] = made
      /\ \A q \in Rows : q # r => stage'[q] = stage[q] /\ files'[q] = files[q]
  BY <1>1 DEF TypeOK
<1>4. TypeOK'
  BY <1>1 DEF TypeOK
<1>5. StageInv'
  <2> SUFFICES ASSUME NEW q \in Rows PROVE RowInv(q)'
    BY DEF StageInv
  <2>1. CASE q = r
    BY <1>1, <1>2, <1>3, <2>1 DEF StageInv, RowInv, ThreadMove, InThread
  <2>2. CASE q # r
    BY <1>1, <1>3, <2>2 DEF StageInv, RowInv
  <2> QED BY <2>1, <2>2
<1>6. \A q \in Rows : InFlight(q)' <=> InFlight(q)
  BY <1>2, <1>3 DEF InFlight
<1>7. HolderInv'
  <2>1. \A k \in Keys : active[k] # NoRow => (stage[active[k]] = "wedged" => stage'[active[k]] = "wedged")
    BY <1>2, <1>3 DEF TypeOK, Unsettled
  <2> QED BY <1>1, <1>6, <2>1 DEF HolderInv, ActiveKeyHeld, TypeOK
<1>8. FaultInv'
  BY <1>1, <1>6 DEF FaultInv, FailedRowNamesNothing, RecordingRowHasJob
<1>9. SpacedInv'
  BY <1>1 DEF SpacedInv, ClipsSpaced
<1> QED BY <1>4, <1>5, <1>7, <1>8, <1>9

\* The job leaves the event loop: its row may be written once more and its
\* key is released.
Leaves(r, s) ==
    /\ stage[r] \in {"returned", "error", "post"}
    /\ stage' = [stage EXCEPT ![r] = "done"]
    /\ active' = Released(r)
    /\ LoopStep
    /\ status' = [status EXCEPT ![r] = s]
    /\ s = "ready" => refs'[r] = files[r] /\ files[r] \in StoredSets
    /\ s = "failed" => refs'[r] = {} \/ dbErrors' > 0
    /\ s = "recording" => dbErrors' > 0
    /\ refs' \in {refs, SetPaths(r)}
    /\ dbErrors' \in {dbErrors, dbErrors + 1}

LEMMA LeavingKeepsIInv ==
    ASSUME IInv, NEW r \in Rows,
           NEW s \in {"unborn", "recording", "ready", "failed", "deleted"}, Leaves(r, s)
    PROVE  IInv'
<1> USE DEF IInv, Leaves, LoopStep, jobVars
<1>1. /\ stage'[r] = "done" /\ status'[r] = s
      /\ InFlight(r) /\ ~InFlight(r)' /\ stage[r] # "none" /\ stage[r] # "wedged"
      /\ keyOf[r] \in Keys /\ active[keyOf[r]] = r
  BY DEF TypeOK, StageInv, RowInv, HolderInv, InFlight, InFlightStages, OnLoop, InThread
<1>2. \A q \in Rows : q # r =>
         stage'[q] = stage[q] /\ status'[q] = status[q] /\ refs'[q] = refs[q]
  BY DEF TypeOK, SetPaths
<1>3. refs' \in [Rows -> SUBSET Artefacts] /\ dbErrors' \in Nat
  BY DEF TypeOK, SetPaths
<1>4. active' = [active EXCEPT ![keyOf[r]] = NoRow]
  BY DEF Released
<1>5. TypeOK'
  BY <1>3, <1>4 DEF TypeOK, Stages
<1>6. StageInv'
  <2> SUFFICES ASSUME NEW q \in Rows PROVE RowInv(q)'
    BY DEF StageInv
  <2>1. CASE q = r
    BY <1>1, <2>1 DEF StageInv, RowInv, Unsettled
  <2>2. CASE q # r
    BY <1>2, <2>2 DEF StageInv, RowInv
  <2> QED BY <2>1, <2>2
<1>7. HolderInv'
  <2>1. ASSUME NEW q \in Rows, InFlight(q)'
        PROVE  active'[keyOf[q]] = q
    <3>1. q # r /\ InFlight(q)
      BY <1>1, <1>2, <2>1 DEF InFlight
    <3>2. active[keyOf[q]] = q /\ keyOf[q] \in Keys
      BY <3>1 DEF HolderInv, StageInv, RowInv, InFlight, InFlightStages, OnLoop, InThread
    <3> QED BY <1>1, <1>4, <3>1, <3>2 DEF TypeOK
  <2>2. ASSUME NEW k \in Keys, active'[k] # NoRow
        PROVE  /\ keyOf[active'[k]] = k
               /\ \/ stage'[active'[k]] \in InFlightStages
                  \/ (stage'[active'[k]] = "wedged" /\ dbErrors' > 0)
    <3>1. k # keyOf[r] /\ active'[k] = active[k] /\ active[k] \in Rows
      BY <1>1, <1>4, <2>2 DEF TypeOK
    <3>2. active[k] # r
      BY <1>1, <2>2, <3>1 DEF HolderInv, ActiveKeyHeld
    <3>3. dbErrors > 0 => dbErrors' > 0
      BY DEF TypeOK
    <3> QED BY <1>2, <2>2, <3>1, <3>2, <3>3 DEF HolderInv, ActiveKeyHeld, InFlight
  <2> QED BY <2>1, <2>2 DEF HolderInv, ActiveKeyHeld, InFlight
<1>8. FaultInv'
  <2>1. dbErrors' = 0 => dbErrors = 0
    BY DEF TypeOK
  <2>2. FailedRowNamesNothing'
    <3> SUFFICES ASSUME dbErrors' = 0, NEW q \in Rows, status'[q] = "failed"
                 PROVE  refs'[q] = {}
      BY DEF FailedRowNamesNothing
    <3>1. CASE q = r
      BY <1>1, <3>1
    <3>2. CASE q # r
      BY <1>2, <2>1, <3>2 DEF FaultInv, FailedRowNamesNothing
    <3> QED BY <3>1, <3>2
  <2>3. RecordingRowHasJob'
    <3> SUFFICES ASSUME dbErrors' = 0, crashes' = 0, NEW q \in Rows,
                        status'[q] = "recording"
                 PROVE  stage'[q] \in InFlightStages
      BY DEF RecordingRowHasJob, InFlight
    <3>1. q # r
      BY <1>1
    <3> QED BY <1>2, <2>1, <3>1 DEF FaultInv, RecordingRowHasJob, InFlight
  <2> QED BY <2>2, <2>3 DEF FaultInv
<1>9. SpacedInv'
  BY DEF SpacedInv, ClipsSpaced
<1> QED BY <1>5, <1>6, <1>7, <1>8, <1>9

\* A stored local clip with a thumbnail: the row is ready, the job awaits.
LEMMA AwaitKeepsIInv ==
    ASSUME IInv, NEW r \in Rows, stage[r] = "returned",
           status' = SetStatus(r, "ready"), refs' = SetPaths(r),
           stage' = [stage EXCEPT ![r] = "post"],
           UNCHANGED <<active, dbErrors>>, LoopStep
    PROVE  IInv'
<1> USE DEF IInv, LoopStep, jobVars
<1>1. /\ InFlight(r) /\ stage'[r] = "post"
      /\ status[r] \in {"recording", "deleted"} /\ refs[r] = {} /\ files[r] \in StoredSets
      /\ keyOf[r] \in Keys /\ r < nextRow
  BY DEF TypeOK, StageInv, RowInv, InFlight, InFlightStages, OnLoop, Unsettled, Rows
<1>2. /\ status[r] = "recording" => status'[r] = "ready" /\ refs'[r] = files[r]
      /\ status[r] = "deleted" => status'[r] = "deleted" /\ refs'[r] = {}
  BY <1>1 DEF SetStatus, SetPaths, HasRow, TypeOK
<1>3. \A q \in Rows : q # r =>
         stage'[q] = stage[q] /\ status'[q] = status[q] /\ refs'[q] = refs[q]
  BY DEF TypeOK, SetStatus, SetPaths
<1>4. TypeOK'
  <2>1. refs' \in [Rows -> SUBSET Artefacts]
    BY DEF TypeOK, SetPaths
  <2>2. status' \in [Rows -> {"unborn", "recording", "ready", "failed", "deleted"}]
    BY DEF TypeOK, SetStatus
  <2> QED BY <2>1, <2>2 DEF TypeOK, Stages, InFlightStages, OnLoop
<1>5. StageInv'
  <2> SUFFICES ASSUME NEW q \in Rows PROVE RowInv(q)'
    BY DEF StageInv
  <2>1. CASE q = r
    BY <1>1, <1>2, <2>1 DEF RowInv, Unsettled, TypeOK, Rows
  <2>2. CASE q # r
    BY <1>3, <2>2 DEF StageInv, RowInv
  <2> QED BY <2>1, <2>2
<1>6. \A q \in Rows : /\ InFlight(q)' <=> InFlight(q)
                      /\ stage[q] = "wedged" => stage'[q] = "wedged"
  BY <1>1, <1>3 DEF InFlight, InFlightStages, OnLoop, InThread
<1>7. HolderInv'
  BY <1>6 DEF HolderInv, ActiveKeyHeld, TypeOK
<1>8. FaultInv'
  <2>1. \A q \in Rows : /\ status'[q] = "failed" => status[q] = "failed" /\ refs'[q] = refs[q]
                        /\ status'[q] = "recording" => status[q] = "recording"
    BY <1>1, <1>2, <1>3
  <2> QED BY <1>6, <2>1 DEF FaultInv, FailedRowNamesNothing, RecordingRowHasJob
<1>9. SpacedInv'
  BY DEF SpacedInv, ClipsSpaced
<1> QED BY <1>4, <1>5, <1>7, <1>8, <1>9

LEMMA LoopKeepsIInv ==
    ASSUME IInv, NEW r \in Rows, LoopNext(r)
    PROVE  IInv'
<1> USE DEF IInv
<1>1. /\ stage[r] = "returned" => files[r] \in StoredSets
      /\ stage[r] \in {"returned", "error"} =>
            status[r] \in {"recording", "deleted"} /\ refs[r] = {}
      /\ status[r] = "ready" => files[r] = refs[r] /\ refs[r] \in StoredSets
      /\ stage[r] \in {"returned", "error", "post"} => InFlight(r)
      /\ status[r] \in {"unborn", "recording", "ready", "failed", "deleted"}
      /\ dbErrors \in Nat
      /\ r \in DOMAIN status /\ r \in DOMAIN refs
  BY DEF TypeOK, StageInv, RowInv, Unsettled, InFlight, InFlightStages, OnLoop
<1>2. \A s : SetStatus(r, s) = [status EXCEPT ![r] = IF HasRow(r) THEN s ELSE status[r]]
  BY DEF SetStatus
<1>3. SetPaths(r)[r] = IF HasRow(r) THEN files[r] ELSE refs[r]
  BY <1>1 DEF SetPaths
<1>4. CASE FinishJob(r)
  <2>1. CASE "snapshot" \in files[r]
    BY <1>4, <2>1, AwaitKeepsIInv DEF FinishJob
  <2>2. CASE "snapshot" \notin files[r]
    <3> DEFINE s == IF HasRow(r) THEN "ready" ELSE status[r]
    <3>1. Leaves(r, s)
      BY <1>1, <1>2, <1>3, <1>4, <2>2 DEF FinishJob, Leaves, HasRow
    <3> QED BY <1>1, <3>1, LeavingKeepsIInv
  <2> QED BY <2>1, <2>2
<1>5. ASSUME NEW t \in {"recording", "ready", "failed"}, FinishRaises(r, t)
      PROVE  IInv'
  <2> DEFINE s == IF HasRow(r) THEN t ELSE status[r]
  <2>1. Leaves(r, s)
    BY <1>1, <1>2, <1>3, <1>5 DEF FinishRaises, Leaves, HasRow, DbError
  <2> QED BY <1>1, <2>1, LeavingKeepsIInv
<1>6. CASE CompletePost(r)
  <2>1. Leaves(r, status[r])
    BY <1>1, <1>6 DEF CompletePost, Leaves, StageInv, RowInv, TypeOK
  <2> QED BY <1>1, <2>1, LeavingKeepsIInv
<1>7. ASSUME NEW t \in {"ready", "failed"}, PostRaises(r, t)
      PROVE  IInv'
  <2> DEFINE s == IF HasRow(r) THEN t ELSE status[r]
  <2>1. Leaves(r, s)
    BY <1>1, <1>2, <1>7 DEF PostRaises, Leaves, HasRow, DbError, StageInv, RowInv
  <2> QED BY <1>1, <2>1, LeavingKeepsIInv
<1>8. CASE HandleError(r)
  <2> DEFINE s == IF HasRow(r) THEN "failed" ELSE status[r]
  <2>1. Leaves(r, s)
    BY <1>1, <1>2, <1>8 DEF HandleError, Leaves, HasRow
  <2> QED BY <1>1, <2>1, LeavingKeepsIInv
<1>9. CASE HandleErrorRaises(r)
  <2>1. Leaves(r, status[r])
    BY <1>1, <1>9 DEF HandleErrorRaises, Leaves, DbError, TypeOK
  <2> QED BY <1>1, <2>1, LeavingKeepsIInv
<1> QED
  BY <1>4, <1>5, <1>6, <1>7, <1>8, <1>9 DEF LoopNext

\* Rows disappear: each becomes "deleted" and names nothing, and only files a
\* row named may go with it.
LEMMA DeletionKeepsIInv ==
    ASSUME IInv, NEW gone \in SUBSET Rows, NEW cams \in SUBSET Cameras,
           \A r \in gone : HasRow(r),
           cameras' = cams,
           status' = [r \in Rows |-> IF r \in gone THEN "deleted" ELSE status[r]],
           refs' = [r \in Rows |-> IF r \in gone THEN {} ELSE refs[r]],
           files' \in [Rows -> SUBSET Artefacts],
           \A r \in Rows : r \notin gone \/ refs[r] = {} => files'[r] = files[r],
           UNCHANGED <<now, memory, nextRow, jobVars, stage, crashes, dbErrors>>
    PROVE  IInv'
<1> USE DEF IInv, memory, jobVars
<1>1. TypeOK'
  BY DEF TypeOK
<1>2. \A r \in gone : stage[r] # "none"
  BY DEF HasRow, StageInv, RowInv
<1>3. StageInv'
  <2> SUFFICES ASSUME NEW q \in Rows PROVE RowInv(q)'
    BY DEF StageInv
  <2>1. CASE q \in gone
    BY <1>2, <2>1 DEF StageInv, RowInv, Unsettled
  <2>2. CASE q \notin gone
    BY <2>2 DEF StageInv, RowInv
  <2> QED BY <2>1, <2>2
<1>4. HolderInv'
  BY DEF HolderInv, ActiveKeyHeld, InFlight
<1>5. FaultInv'
  BY DEF FaultInv, FailedRowNamesNothing, RecordingRowHasJob, InFlight
<1>6. SpacedInv'
  BY DEF SpacedInv, ClipsSpaced
<1> QED BY <1>1, <1>3, <1>4, <1>5, <1>6

LEMMA DeleteKeepsIInv ==
    ASSUME IInv, NEW r \in Rows, DeleteRecording(r)
    PROVE  IInv'
<1> USE DEF IInv, DeleteRecording
<1>1. /\ status' = [q \in Rows |-> IF q \in {r} THEN "deleted" ELSE status[q]]
      /\ refs' = [q \in Rows |-> IF q \in {r} THEN {} ELSE refs[q]]
  BY DEF TypeOK
<1>2. /\ files' \in [Rows -> SUBSET Artefacts]
      /\ \A q \in Rows : q \notin {r} \/ refs[q] = {} => files'[q] = files[q]
  BY DEF TypeOK
<1>3. cameras' = cameras /\ cameras \in SUBSET Cameras
  BY DEF TypeOK
<1>4. /\ {r} \in SUBSET Rows /\ \A q \in {r} : HasRow(q)
      /\ UNCHANGED <<now, memory, nextRow, jobVars, stage, crashes, dbErrors>>
  OBVIOUS
<1> HIDE DEF IInv, DeleteRecording
<1> QED BY <1>1, <1>2, <1>3, <1>4, DeletionKeepsIInv

LEMMA DeleteCameraKeepsIInv ==
    ASSUME IInv, NEW c \in Cameras, DeleteCamera(c)
    PROVE  IInv'
<1> DEFINE gone == {r \in Rows : HasRow(r) /\ keyOf[r][1] = c}
<1>1. /\ status' = [r \in Rows |-> IF r \in gone THEN "deleted" ELSE status[r]]
      /\ refs' = [r \in Rows |-> IF r \in gone THEN {} ELSE refs[r]]
      /\ cameras' = cameras \ {c}
      /\ UNCHANGED <<now, memory, nextRow, jobVars, stage, files, crashes, dbErrors>>
  BY DEF DeleteCamera
<1>2. /\ files' \in [Rows -> SUBSET Artefacts]
      /\ cameras \ {c} \in SUBSET Cameras
      /\ gone \in SUBSET Rows
      /\ \A r \in gone : HasRow(r)
      /\ \A r \in Rows : r \notin gone \/ refs[r] = {} => files'[r] = files[r]
  BY <1>1 DEF IInv, TypeOK
<1> HIDE DEF gone
<1> QED BY <1>1, <1>2, DeletionKeepsIInv

LEMMA CrashKeepsIInv ==
    ASSUME IInv, CrashRestart
    PROVE  IInv'
<1> USE DEF IInv, CrashRestart, jobVars
<1>1. PICK partial \in SUBSET {r \in Rows : stage[r] = "build"} :
         files' = [r \in Rows |-> IF r \in partial THEN {"local"} ELSE files[r]]
  OBVIOUS
<1>2. \A r \in Rows :
         /\ stage'[r] = (IF InFlight(r) \/ stage[r] = "wedged" THEN "lost" ELSE stage[r])
         /\ ~InFlight(r)' /\ stage'[r] # "wedged"
  BY DEF InFlight, InFlightStages, OnLoop, InThread
<1>3. TypeOK'
  <2>1. files' \in [Rows -> SUBSET Artefacts]
    BY <1>1 DEF TypeOK, Artefacts
  <2>2. crashes' \in Nat
    BY DEF TypeOK
  <2>3. stage' \in [Rows -> Stages]
    BY DEF TypeOK, Stages
  <2> QED BY <2>1, <2>2, <2>3 DEF TypeOK
<1>4. StageInv'
  <2> SUFFICES ASSUME NEW q \in Rows PROVE RowInv(q)'
    BY DEF StageInv
  <2>1. RowInv(q)
    BY DEF StageInv
  <2>2. CASE q \in partial
    <3>1. stage[q] = "build" /\ stage'[q] = "lost"
      BY <1>1, <1>2, <2>2 DEF InFlight, InFlightStages, InThread
    <3> QED BY <2>1, <3>1 DEF RowInv, Unsettled
  <2>3. CASE q \notin partial
    <3>1. files'[q] = files[q]
      BY <1>1, <2>3 DEF TypeOK
    <3>2. \/ stage'[q] = stage[q]
          \/ stage'[q] = "lost" /\ stage[q] # "none"
      BY <1>2 DEF InFlight, InFlightStages, OnLoop, InThread
    <3> QED BY <2>1, <3>1, <3>2 DEF RowInv, Unsettled
  <2> QED BY <2>2, <2>3
<1>5. HolderInv'
  BY <1>2 DEF HolderInv, ActiveKeyHeld
<1>6. FaultInv'
  <2>1. crashes' # 0
    BY DEF TypeOK
  <2> QED BY <2>1 DEF FaultInv, FailedRowNamesNothing, RecordingRowHasJob
<1>7. SpacedInv'
  <2>1. crashes' # 0
    BY DEF TypeOK
  <2> QED BY <2>1 DEF SpacedInv
<1> QED BY <1>3, <1>4, <1>5, <1>6, <1>7

-----------------------------------------------------------------------------
LEMMA NextKeepsIInv ==
    ASSUME IInv, [Next]_vars
    PROVE  IInv'
<1>1. ASSUME NEW k \in Keys, NEW kind \in Targets, StartRecording(k, kind)
      PROVE  IInv'
  <2>1. BeginRecording(k, kind, "queued") /\ dbErrors' = dbErrors /\ dbErrors \in Nat
    BY <1>1 DEF StartRecording, IInv, TypeOK
  <2> QED BY <2>1, BeginKeepsIInv
<1>2. ASSUME NEW k \in Keys, NEW kind \in Targets, StartAborted(k, kind)
      PROVE  IInv'
  <2>1. /\ BeginRecording(k, kind, "wedged")
        /\ dbErrors' \in Nat /\ dbErrors' > 0
    BY <1>2 DEF StartAborted, DbError, IInv, TypeOK
  <2> QED BY <2>1, BeginKeepsIInv
<1>3. ASSUME NEW k \in Keys, ExtendRecording(k)
      PROVE  IInv'
  BY <1>3, ExtendKeepsIInv
<1>4. ASSUME NEW r \in Rows, ThreadNext(r)
      PROVE  IInv'
  BY <1>4, ThreadKeepsIInv
<1>5. ASSUME NEW r \in Rows, LoopNext(r)
      PROVE  IInv'
  BY <1>5, LoopKeepsIInv
<1>6. ASSUME NEW r \in Rows, DeleteRecording(r)
      PROVE  IInv'
  BY <1>6, DeleteKeepsIInv
<1>7. ASSUME NEW c \in Cameras, DeleteCamera(c)
      PROVE  IInv'
  BY <1>7, DeleteCameraKeepsIInv
<1>8. CASE CrashRestart
  BY <1>8, CrashKeepsIInv
<1>9. CASE Tick
  BY <1>9, TickKeepsIInv
<1>10. CASE UNCHANGED vars
  <2>1. /\ now' \in Nat /\ cameras' \subseteq Cameras /\ until' \in [Rows -> Nat]
        /\ UNCHANGED <<active, lastStarted, nextRow, status, refs, jobVars, stage,
                       files, crashes, dbErrors>>
    BY <1>10 DEF vars, jobVars, IInv, TypeOK
  <2> QED BY <2>1, FrameKeepsIInv
<1>11. CASE Quiet
  BY <1>10, <1>11 DEF Quiet
<1> QED
  BY <1>1, <1>2, <1>3, <1>4, <1>5, <1>6, <1>7, <1>8, <1>9, <1>10, <1>11 DEF Next

THEOREM InductiveInvariant == Spec => []IInv
<1>1. Init => IInv
  BY InitIInv
<1>2. IInv /\ [Next]_vars => IInv'
  BY NextKeepsIInv
<1> QED BY <1>1, <1>2, PTL DEF Spec

\* Every variable keeps its type, for any cameras, keys, delays and bounds.
THEOREM TypeCorrect == Spec => []TypeOK
<1>1. IInv => TypeOK
  BY DEF IInv
<1> QED BY <1>1, InductiveInvariant, PTL

\* _active keeps two jobs off one key, whatever fails or restarts.
THEOREM JobsExclusive == Spec => []OneJobPerKey
<1>1. IInv => OneJobPerKey
  BY DEF IInv, HolderInv, OneJobPerKey
<1> QED BY <1>1, InductiveInvariant, PTL

\* A key that blocks new clips has its job, or an iteration that raised.
THEOREM HeldKeys == Spec => []ActiveKeyHeld
<1>1. IInv => ActiveKeyHeld
  BY DEF IInv, HolderInv
<1> QED BY <1>1, InductiveInvariant, PTL

\* A ready row names exactly the files that are stored for it.
THEOREM ReadyClipsExact == Spec => []ReadyClipExact
<1>1. IInv => ReadyClipExact
  BY DEF IInv, StageInv, RowInv, StoredSets, ReadyClipExact
<1> QED BY <1>1, InductiveInvariant, PTL

\* Without a database error a failed row names no file, and without one or a
\* restart a row that is still "recording" has its job.
THEOREM RowsWithoutFaults == Spec => []RowsTellTheJob
<1>1. IInv => RowsTellTheJob
  BY DEF IInv, FaultInv, RowsTellTheJob
<1> QED BY <1>1, InductiveInvariant, PTL

\* The cooldown separates the starts of a key within one life of the process.
THEOREM StartsSpaced == Spec => []ClipsSpaced
<1>1. IInv => ClipsSpaced
  BY DEF IInv, SpacedInv, ClipsSpaced
<1> QED BY <1>1, InductiveInvariant, PTL

\* A deleted row never comes back, and a failed clip never becomes ready,
\* although the job that writes "ready" and "failed" may outlive its row.
THEOREM DeletedStaysDeleted == Spec => NoResurrection
<1> DEFINE Keeps == \A r \in Rows : /\ status[r] = "deleted" => status'[r] = "deleted"
                                    /\ status[r] = "failed" => status'[r] # "ready"
<1>1. ASSUME IInv, [Next]_vars PROVE Keeps
  <2> USE DEF IInv
  <2>1. ASSUME NEW k \in Keys, NEW kind \in Targets, NEW outcome \in {"queued", "wedged"},
               BeginRecording(k, kind, outcome)
        PROVE  Keeps
    <3>1. status[nextRow] = "unborn"
      BY <1>1, <2>1 DEF BeginRecording, KeyFree, StageInv, RowInv, TypeOK, Rows
    <3> QED BY <1>1, <2>1, <3>1 DEF BeginRecording, KeyFree, TypeOK
  <2>2. ASSUME NEW r \in Rows, LoopNext(r)
        PROVE  Keeps
    <3>1. /\ stage[r] \in {"returned", "error"} => status[r] \in {"recording", "deleted"}
          /\ stage[r] = "post" => status[r] \in {"ready", "deleted"}
      BY <1>1 DEF StageInv, RowInv, Unsettled
    <3>2. \/ status' = status
          \/ /\ stage[r] \in {"returned", "error", "post"}
             /\ \E s : status' = SetStatus(r, s)
      BY <2>2 DEF LoopNext, FinishJob, FinishRaises, CompletePost, PostRaises,
                  HandleError, HandleErrorRaises
    <3> QED BY <1>1, <3>1, <3>2 DEF SetStatus, HasRow, TypeOK
  <2>3. ASSUME NEW r \in Rows, ThreadNext(r)
        PROVE  Keeps
    <3>1. status' = status
      BY <1>1, <2>3, ThreadShape DEF StageInv, RowInv, ThreadStep
    <3> QED BY <3>1
  <2>4. CASE \E r \in Rows : DeleteRecording(r)
    BY <1>1, <2>4 DEF DeleteRecording, TypeOK
  <2>5. CASE \E c \in Cameras : DeleteCamera(c)
    BY <1>1, <2>5 DEF DeleteCamera, TypeOK
  <2>6. CASE \/ \E k \in Keys : ExtendRecording(k)
             \/ CrashRestart \/ Tick \/ Quiet \/ UNCHANGED vars
    <3>1. status' = status
      BY <2>6 DEF ExtendRecording, KeyFree, CrashRestart, Tick, Quiet, vars
    <3> QED BY <3>1
  <2> QED
    BY <1>1, <2>1, <2>2, <2>3, <2>4, <2>5, <2>6
       DEF Next, StartRecording, StartAborted
<1>2. IInv /\ [Next]_vars => [Keeps]_vars
  BY <1>1
<1> QED BY <1>2, InductiveInvariant, PTL DEF Spec, NoResurrection

-----------------------------------------------------------------------------
(* The refinement: each step of event recording is one of the register, or *)
(* leaves holders, rows and names alone.                                   *)

LEMMA BeginIsBegin ==
    ASSUME IInv, NEW k \in Keys, NEW kind \in Targets, NEW outcome \in {"queued", "wedged"},
           BeginRecording(k, kind, outcome)
    PROVE  Register!Next
<1>1. nextRow \in Rows /\ status[nextRow] = "unborn"
  BY DEF IInv, BeginRecording, KeyFree, StageInv, RowInv, TypeOK, Rows
<1>2. Register!Begin(k, nextRow)
  BY <1>1 DEF BeginRecording, KeyFree, Register!Begin
<1> QED BY <1>1, <1>2 DEF Register!Next

\* The thread, an extension, the clock: the register does not move.
LEMMA ThreadIsStutter ==
    ASSUME IInv, NEW r \in Rows, ThreadNext(r)
    PROVE  UNCHANGED Register!vars
<1>1. UNCHANGED <<active, status, refs>>
  BY ThreadShape DEF IInv, StageInv, RowInv, ThreadStep, memory
<1> QED BY <1>1 DEF Register!vars

\* The end of a job: its row is settled if it is still there, and either way
\* it was the job that held the key.
LEMMA LoopIsSettle ==
    ASSUME IInv, NEW r \in Rows, LoopNext(r)
    PROVE  Register!Next \/ UNCHANGED Register!vars
<1> DEFINE k == keyOf[r]
<1>1. stage[r] \in {"returned", "error", "post"}
  BY DEF LoopNext, FinishJob, FinishRaises, CompletePost, PostRaises, HandleError,
         HandleErrorRaises
<1>2. k \in Keys /\ active[k] = r
  BY <1>1 DEF IInv, StageInv, RowInv, HolderInv, InFlight, InFlightStages, OnLoop
<1>3. /\ stage[r] \in {"returned", "error"} =>
            status[r] \in {"recording", "deleted"} /\ refs[r] = {}
      /\ stage[r] = "post" => status[r] \in {"ready", "deleted"}
      /\ stage[r] = "returned" => files[r] \in StoredSets
      /\ status \in [Rows -> {"unborn", "recording", "ready", "failed", "deleted"}]
      /\ refs \in [Rows -> SUBSET Artefacts]
  BY DEF IInv, TypeOK, StageInv, RowInv, Unsettled
<1>4. Released(r) = [active EXCEPT ![k] = NoRow]
  BY DEF Released
<1>5. CASE status[r] = "deleted"
  <2>1. status' = status /\ refs' = refs
    BY <1>3, <1>5 DEF LoopNext, FinishJob, FinishRaises, CompletePost, PostRaises,
       HandleError, HandleErrorRaises, SetStatus, SetPaths, HasRow
  <2>2. active' = active \/ active' = Released(r)
    BY DEF LoopNext, FinishJob, FinishRaises, CompletePost, PostRaises,
       HandleError, HandleErrorRaises
  <2>3. CASE active' = active
    BY <2>1, <2>3 DEF Register!vars
  <2>4. CASE active' = Released(r)
    <3>1. Register!Release(k)
      BY <1>4, <2>1, <2>4 DEF Register!Release
    <3> QED BY <1>2, <3>1 DEF Register!Next
  <2> QED BY <2>2, <2>3, <2>4
<1>6. CASE status[r] = "recording"
  <2> HIDE DEF k
  <2>1. HasRow(r) /\ stage[r] \in {"returned", "error"}
    BY <1>1, <1>3, <1>6 DEF HasRow
  <2>2. CASE FinishJob(r)
    <3>1. Register!Store(k, r, files[r])
      BY <1>2, <1>4, <1>6, <2>1, <2>2
         DEF FinishJob, SetStatus, SetPaths, Register!Store, Register!MayRelease
    <3>2. files[r] \in StoredSets
      BY <1>3, <2>2 DEF FinishJob
    <3> QED BY <1>2, <3>1, <3>2 DEF Register!Next
  <2>3. ASSUME NEW s \in {"recording", "ready", "failed"}, FinishRaises(r, s)
        PROVE  Register!Next \/ UNCHANGED Register!vars
    <3>1. /\ active' = [active EXCEPT ![k] = NoRow]
          /\ status' = [status EXCEPT ![r] = s]
          /\ files[r] \in StoredSets /\ refs[r] = {}
      BY <1>3, <1>4, <2>1, <2>3 DEF FinishRaises, SetStatus
    <3>2. CASE s = "recording"
      <4>1. refs' = refs
        BY <2>3, <3>2 DEF FinishRaises
      <4>2. status' = status
        BY <1>3, <1>6, <3>1, <3>2
      <4>3. Register!Release(k)
        BY <3>1, <4>1, <4>2 DEF Register!Release
      <4> QED BY <1>2, <4>3 DEF Register!Next
    <3>3. CASE s = "ready"
      <4>1. refs' = [refs EXCEPT ![r] = files[r]]
        BY <2>1, <2>3, <3>3 DEF FinishRaises, SetPaths
      <4>2. Register!Store(k, r, files[r])
        BY <1>2, <1>6, <3>1, <3>3, <4>1 DEF Register!Store, Register!MayRelease
      <4> QED BY <1>2, <3>1, <4>2 DEF Register!Next
    <3>4. CASE s = "failed"
      <4>1. refs' = refs \/ refs' = [refs EXCEPT ![r] = files[r]]
        BY <2>1, <2>3 DEF FinishRaises, SetPaths
      <4>2. refs = [refs EXCEPT ![r] = {}]
        BY <1>3, <3>1
      <4>3. PICK named \in StoredSets \cup {{}} : refs' = [refs EXCEPT ![r] = named]
        BY <3>1, <4>1, <4>2
      <4>4. Register!Fail(k, r, named)
        BY <1>2, <1>6, <3>1, <3>4, <4>3 DEF Register!Fail
      <4> QED BY <1>2, <4>3, <4>4 DEF Register!Next
    <3> QED BY <3>2, <3>3, <3>4
  <2>4. CASE HandleError(r)
    <3>1. refs' = [refs EXCEPT ![r] = {}]
      BY <1>3, <2>1, <2>4 DEF HandleError
    <3>2. Register!Fail(k, r, {})
      BY <1>2, <1>4, <1>6, <2>1, <2>4, <3>1 DEF HandleError, SetStatus, Register!Fail
    <3> QED BY <1>2, <3>2 DEF Register!Next
  <2>5. CASE HandleErrorRaises(r)
    <3>1. Register!Release(k)
      BY <1>4, <2>5 DEF HandleErrorRaises, Register!Release
    <3> QED BY <1>2, <3>1 DEF Register!Next
  <2>6. ~CompletePost(r) /\ \A s \in {"ready", "failed"} : ~PostRaises(r, s)
    BY <2>1 DEF CompletePost, PostRaises
  <2> QED BY <2>2, <2>3, <2>4, <2>5, <2>6 DEF LoopNext
<1>7. CASE status[r] = "ready"
  <2> HIDE DEF k
  <2>1. HasRow(r) /\ stage[r] = "post"
    BY <1>1, <1>3, <1>7 DEF HasRow
  <2>2. CASE CompletePost(r)
    <3>1. Register!Release(k)
      BY <1>4, <2>2 DEF CompletePost, Register!Release
    <3> QED BY <1>2, <3>1 DEF Register!Next
  <2>3. ASSUME NEW s \in {"ready", "failed"}, PostRaises(r, s)
        PROVE  Register!Next \/ UNCHANGED Register!vars
    <3>1. /\ active' = [active EXCEPT ![k] = NoRow] /\ refs' = refs
          /\ status' = [status EXCEPT ![r] = s]
      BY <1>4, <2>1, <2>3 DEF PostRaises, SetStatus
    <3>2. CASE s = "ready"
      <4>1. status' = status
        BY <1>3, <1>7, <3>1, <3>2
      <4>2. Register!Release(k)
        BY <3>1, <4>1 DEF Register!Release
      <4> QED BY <1>2, <4>2 DEF Register!Next
    <3>3. CASE s = "failed"
      <4>1. Register!Spoil(k, r)
        BY <1>2, <1>7, <3>1, <3>3 DEF Register!Spoil
      <4> QED BY <1>2, <4>1 DEF Register!Next
    <3> QED BY <3>2, <3>3
  <2>4. ~FinishJob(r) /\ ~HandleError(r) /\ ~HandleErrorRaises(r)
        /\ \A s \in {"recording", "ready", "failed"} : ~FinishRaises(r, s)
    BY <2>1 DEF FinishJob, FinishRaises, HandleError, HandleErrorRaises
  <2> QED BY <2>2, <2>3, <2>4 DEF LoopNext
<1>8. status[r] \in {"recording", "ready", "deleted"}
  BY <1>1, <1>3
<1> QED BY <1>5, <1>6, <1>7, <1>8

LEMMA DeletionIsDelete ==
    ASSUME IInv, NEW gone \in SUBSET Rows, \A r \in gone : HasRow(r),
           status' = [r \in Rows |-> IF r \in gone THEN "deleted" ELSE status[r]],
           refs' = [r \in Rows |-> IF r \in gone THEN {} ELSE refs[r]],
           active' = active
    PROVE  Register!Next
<1>1. Register!Delete(gone)
  BY DEF HasRow, Register!Delete
<1> QED BY <1>1 DEF Register!Next

\* Event recording implements the register, for every value of the constants
\* and whatever fails, is deleted or is restarted in between: per key one clip
\* after the other; only the job that holds the key turns its row from recording
\* to ready or failed, or from ready to failed; from then on the row is only
\* deleted (recording.py, _run_job; routers/recordings.py).
THEOREM ImplementsRegister == Spec => Implements
<1>1. Init => Register!Init
  BY DEF Init, Register!Init
<1>2. ASSUME IInv, [Next]_vars
      PROVE  [Register!Next]_(Register!vars)
  <2>1. ASSUME NEW k \in Keys, NEW kind \in Targets,
               StartRecording(k, kind) \/ StartAborted(k, kind)
        PROVE  Register!Next
    BY <1>2, <2>1, BeginIsBegin DEF StartRecording, StartAborted
  <2>2. ASSUME NEW r \in Rows, ThreadNext(r)
        PROVE  UNCHANGED Register!vars
    BY <1>2, <2>2, ThreadIsStutter
  <2>3. ASSUME NEW r \in Rows, LoopNext(r)
        PROVE  Register!Next \/ UNCHANGED Register!vars
    BY <1>2, <2>3, LoopIsSettle
  <2>4. ASSUME NEW r \in Rows, DeleteRecording(r)
        PROVE  Register!Next
    <3>1. /\ status' = [q \in Rows |-> IF q \in {r} THEN "deleted" ELSE status[q]]
          /\ refs' = [q \in Rows |-> IF q \in {r} THEN {} ELSE refs[q]]
          /\ active' = active /\ HasRow(r)
      BY <1>2, <2>4 DEF DeleteRecording, memory, IInv, TypeOK
    <3>2. {r} \in SUBSET Rows
      OBVIOUS
    <3> QED BY <1>2, <3>1, <3>2, DeletionIsDelete
  <2>5. ASSUME NEW c \in Cameras, DeleteCamera(c)
        PROVE  Register!Next
    <3> DEFINE gone == {r \in Rows : HasRow(r) /\ keyOf[r][1] = c}
    <3>1. /\ status' = [r \in Rows |-> IF r \in gone THEN "deleted" ELSE status[r]]
          /\ refs' = [r \in Rows |-> IF r \in gone THEN {} ELSE refs[r]]
          /\ active' = active
      BY <2>5 DEF DeleteCamera, memory
    <3>2. gone \in SUBSET Rows /\ \A r \in gone : HasRow(r)
      OBVIOUS
    <3> HIDE DEF gone
    <3> QED BY <1>2, <3>1, <3>2, DeletionIsDelete
  <2>6. CASE CrashRestart
    <3>1. Register!Restart
      BY <2>6 DEF CrashRestart, Register!Restart
    <3> QED BY <3>1 DEF Register!Next
  <2>7. CASE \/ \E k \in Keys : ExtendRecording(k)
             \/ Tick \/ Quiet \/ UNCHANGED vars
    <3>1. UNCHANGED <<active, status, refs>>
      BY <2>7 DEF ExtendRecording, KeyFree, Tick, Quiet, vars, memory
    <3> QED BY <3>1 DEF Register!vars
  <2> QED
    BY <1>2, <2>1, <2>2, <2>3, <2>4, <2>5, <2>6, <2>7 DEF Next
<1> QED BY <1>1, <1>2, InductiveInvariant, PTL DEF Spec, Implements, Register!Spec
=============================================================================
