--------------------- MODULE ContinuousRecording_proofs ----------------------
(***************************************************************************)
(* Proofs about ContinuousRecording for every value of its constants:      *)
(* types, the running ffmpeg, lost footage, rows and files, and the last   *)
(* collection.  The inductive invariant adds what the place of sync says   *)
(* of the segments it has in hand (PlaceInv), and that ffmpeg's segment is *)
(* the newest there is (OpenInv, PastInv).                                 *)
(***************************************************************************)
EXTENDS ContinuousRecording, TLAPS, WellFoundedInduction

Collecting == pc \in {"segment", "unlink", "insert"}

\* What sync has in hand at its place: names are known; what is left of the
\* batch is in the work directory; a segment that is being registered is
\* stored and has no row yet; and a final collection meets no ffmpeg and
\* leaves nothing behind but what could not be stored.
PlaceInv ==
    /\ Collecting => known \subseteq Segments
    /\ ~Collecting => batch = {}
    /\ pc \in {"segment", "unlink"} => batch \subseteq work
    /\ pc \in {"unlink", "insert"} =>
          batch # {} /\ InHand \in stored /\ rowsOf[InHand] = 0
    /\ pc = "insert" => InHand \notin work /\ batch \ {InHand} \subseteq work
    /\ final /\ (Collecting \/ pc = "scan") => writing = None
    /\ final /\ Collecting => work \subseteq batch \cup unsaved

\* Numbers are given out in order.
PastInv == \A s \in work \cup stored \cup batch : s < next

\* The open segment is the newest, and some ffmpeg writes it.
OpenInv == open # 0 => writing # None /\ open = next - 1

\* A known name was stored or given up.
KnownInv == known = Unloaded \/ known \subseteq stored \cup unsaved

IInv ==
    /\ TypeOK
    /\ PlaceInv /\ PastInv /\ OpenInv /\ KnownInv
    /\ WriterUndisturbed
    /\ LossExplained
    /\ RowsMatchStored

LEMMA FirstExists ==
    ASSUME NEW S, S \subseteq Segments, S # {}
    PROVE  FirstOf(S) \in S
<1>1. S \subseteq Nat
  BY ParamsAssumption DEF Segments
<1>2. \E x \in S : \A y \in S : ~(<<y, x>> \in OpToRel(<, Nat))
  BY <1>1, NatLessThanWellFounded, WFMin
<1>3. PICK x \in S : \A y \in S : ~(<<y, x>> \in OpToRel(<, Nat))
  BY <1>2
<1>4. ASSUME NEW y \in S
      PROVE  x <= y
  <2>1. x \in Nat /\ y \in Nat
    BY <1>1
  <2>2. ~(y < x)
    BY <1>3, <1>4, <2>1 DEF OpToRel
  <2> QED BY <2>1, <2>2
<1> QED BY <1>4 DEF FirstOf

\* The segment in hand is one of the batch.
LEMMA InHandExists ==
    ASSUME TypeOK, batch # {}
    PROVE  InHand \in batch /\ InHand \in Segments
<1>1. batch \subseteq Segments
  BY DEF TypeOK
<1>2. FirstOf(batch) \in batch
  BY <1>1, FirstExists
<1> QED BY <1>1, <1>2 DEF InHand

\* Names are never mistaken for the missing entry.
LEMMA NamesAreLoaded ==
    ASSUME NEW S, S \subseteq Segments
    PROVE  S # Unloaded
  BY ParamsAssumption DEF Segments, Unloaded

LEMMA InitIInv == Init => IInv
<1> SUFFICES ASSUME Init PROVE IInv
  OBVIOUS
<1> USE DEF Init
<1>1. TypeOK
  <2>1. seen \in [camera : {"on", "off", "deleted"}, stream : Streams, storage : Storages]
    BY DEF Streams, Storages
  <2>2. rowsOf \in [Segments -> 0 .. 1]
    OBVIOUS
  <2>3. next \in 1 .. (MaxSegment + 1)
    BY ParamsAssumption
  <2> QED BY <2>1, <2>2, <2>3 DEF TypeOK, Streams, Storages
<1>2. PlaceInv /\ PastInv /\ OpenInv /\ KnownInv
  BY DEF PlaceInv, Collecting, PastInv, OpenInv, KnownInv, Unloaded
<1>3. WriterUndisturbed
  BY DEF WriterUndisturbed, NoStrayProcess, OpenSegmentUntouched
<1>4. LossExplained
  BY DEF LossExplained
<1>5. RowsMatchStored
  BY DEF RowsMatchStored, RowsNameStored, StoredHasRow, HasRow
<1> QED BY <1>1, <1>2, <1>3, <1>4, <1>5 DEF IInv

\* A step of sync before it has segments in hand, or after, and a restart:
\* the segments are left alone and nothing new is known.
IdleStep ==
    /\ ~Collecting'
    /\ batch = {} \/ crashes' > 0
    /\ batch' = {}
    /\ next' = next /\ work' = work /\ stored' = stored /\ unsaved' = unsaved
    /\ rowsOf' = rowsOf /\ camera' = camera
    /\ crashes > 0 => crashes' > 0
    /\ known' = known \/ known' = Unloaded
    /\ writing' # None => entry' = writing'
    /\ open' # 0 => open' = open /\ writing' # None
    /\ final' /\ pc' = "scan" => writing' = None

LEMMA IdleStepKeepsIInv ==
    ASSUME IInv, TypeOK', IdleStep
    PROVE  IInv'
<1>0. ~Collecting' /\ (pc \in {"unlink", "insert"} => crashes' > 0)
  BY DEF IdleStep, IInv, PlaceInv
<1> USE DEF IdleStep
<1> USE DEF IInv
<1>1. PlaceInv'
  BY <1>0 DEF PlaceInv, Collecting
<1>2. PastInv'
  BY DEF PastInv
<1>3. OpenInv'
  BY DEF OpenInv
<1>4. KnownInv'
  BY DEF KnownInv
<1>5. WriterUndisturbed'
  BY DEF WriterUndisturbed, NoStrayProcess, OpenSegmentUntouched
<1>6. LossExplained'
  BY DEF LossExplained
<1>7. RowsMatchStored'
  BY <1>0 DEF RowsMatchStored, RowsNameStored, StoredHasRow, HasRow
<1> QED BY <1>1, <1>2, <1>3, <1>4, <1>5, <1>6, <1>7

\* The segment in hand is done with: its name is known from now on, and it is
\* stored or given up.
HandledStep ==
    /\ Collecting /\ batch # {} /\ NextSegment
    /\ camera' = camera /\ entry' = entry /\ writing' = writing
    /\ open' = open /\ next' = next /\ stored' = stored
    /\ final' = final /\ crashes' = crashes
    /\ work' \in {work, work \ {InHand}}
    /\ unsaved' \in {unsaved, unsaved \cup {InHand}}
    /\ \/ rowsOf' = rowsOf
       \/ pc = "insert" /\ rowsOf' = [rowsOf EXCEPT ![InHand] = @ + 1]
    /\ InHand \in stored \cup unsaved'
    /\ InHand \in work' => InHand \in unsaved'
    /\ InHand \in stored => \/ rowsOf'[InHand] > 0
                            \/ InHand \in unsaved'
                            \/ crashes > 0
                            \/ camera = "deleted"

LEMMA HandledStepKeepsIInv ==
    ASSUME IInv, TypeOK', HandledStep
    PROVE  IInv'
<1> USE DEF IInv, NextSegment, HandledStep
<1>1. InHand \in batch /\ InHand \in Segments
  BY InHandExists
<1>2. known \subseteq Segments /\ known # Unloaded
  BY NamesAreLoaded DEF PlaceInv
<1>3. batch \ {InHand} \subseteq work
  BY DEF PlaceInv, Collecting
<1>4. PlaceInv'
  <2>1. known' \subseteq Segments
    BY <1>1, <1>2
  <2>2. batch' \subseteq work'
    BY <1>3
  <2>3. final' => writing' = None
    BY DEF PlaceInv
  <2>4. final' => work' \subseteq batch' \cup unsaved'
    BY <1>1 DEF PlaceInv
  <2> QED BY <2>1, <2>2, <2>3, <2>4 DEF PlaceInv, Collecting
<1>5. PastInv'
  BY DEF PastInv
<1>6. OpenInv'
  BY DEF OpenInv
<1>7. KnownInv'
  BY <1>2 DEF KnownInv
<1>8. WriterUndisturbed'
  BY <1>1 DEF WriterUndisturbed, NoStrayProcess, OpenSegmentUntouched
<1>9. LossExplained'
  BY DEF LossExplained
<1>10. RowsNameStored'
  <2>1. CASE rowsOf' = rowsOf
    BY <2>1 DEF RowsMatchStored, RowsNameStored, HasRow
  <2>2. CASE pc = "insert" /\ rowsOf' = [rowsOf EXCEPT ![InHand] = @ + 1]
    <3>1. InHand \in stored /\ InHand \notin work
      BY <2>2 DEF PlaceInv
    <3> QED BY <2>2, <3>1 DEF RowsMatchStored, RowsNameStored, HasRow, TypeOK
  <2> QED BY <2>1, <2>2
<1>11. StoredHasRow'
  <2> SUFFICES ASSUME NEW s \in stored
               PROVE  \/ rowsOf'[s] > 0
                      \/ s \in unsaved'
                      \/ crashes > 0
                      \/ camera = "deleted"
    BY DEF StoredHasRow, HasRow
  <2>1. CASE s = InHand
    BY <2>1
  <2>2. CASE s # InHand
    <3>1. s \in Segments /\ rowsOf'[s] = rowsOf[s]
      BY <2>2 DEF TypeOK
    <3> QED BY <2>2, <3>1 DEF RowsMatchStored, StoredHasRow, HasRow
  <2> QED BY <2>1, <2>2
<1> QED BY <1>4, <1>5, <1>6, <1>7, <1>8, <1>9, <1>10, <1>11 DEF RowsMatchStored

\* The segments in hand are chosen: the open one is not among them.
LEMMA ScanKeepsIInv ==
    ASSUME IInv, TypeOK', Scan
    PROVE  IInv'
<1> USE DEF IInv, Scan, settings, process, disk, bounds
<1>1. batch' \subseteq work /\ (final => batch' = work)
  BY DEF Finished
<1>2. known' \subseteq Segments
  BY NamesAreLoaded DEF TypeOK, LoadedNames
<1>3. open # 0 => open \notin batch'
  <2> SUFFICES ASSUME open # 0
               PROVE  open \notin batch'
    OBVIOUS
  <2>1. ~final
    BY DEF PlaceInv, OpenInv
  <2>2. open \in work /\ open = next - 1
    BY DEF OpenInv, WriterUndisturbed, OpenSegmentUntouched
  <2>3. \A t \in work : t \in Int /\ t <= open
    BY <2>2, ParamsAssumption DEF PastInv, TypeOK, Segments
  <2>4. LastOf(work) = open
    <3>1. LastOf(work) \in work /\ \A t \in work : t <= LastOf(work)
      BY <2>2, <2>3 DEF LastOf
    <3>2. LastOf(work) \in Int /\ LastOf(work) <= open
      BY <2>3, <3>1
    <3>3. open \in Int /\ open <= LastOf(work)
      BY <2>2, <2>3, <3>1
    <3> HIDE DEF LastOf
    <3> QED BY <3>2, <3>3
  <2> QED BY <2>1, <2>2, <2>4 DEF Finished
<1>4. PlaceInv'
  BY <1>1, <1>2 DEF PlaceInv, Collecting
<1>5. PastInv' /\ OpenInv'
  BY <1>1 DEF PastInv, OpenInv
<1>6. KnownInv'
  BY DEF KnownInv, LoadedNames, RowsMatchStored, RowsNameStored
<1>7. WriterUndisturbed'
  BY <1>3 DEF WriterUndisturbed, NoStrayProcess, OpenSegmentUntouched
<1>8. LossExplained'
  BY DEF LossExplained
<1>9. RowsMatchStored'
  BY DEF RowsMatchStored, RowsNameStored, StoredHasRow, HasRow
<1> QED BY <1>4, <1>5, <1>6, <1>7, <1>8, <1>9

\* The segment in hand is moved or uploaded, or removed after the upload.
StoreStep ==
    /\ batch # {}
    /\ camera' = camera /\ entry' = entry /\ writing' = writing
    /\ known' = known /\ final' = final /\ batch' = batch
    /\ open' = open /\ next' = next /\ rowsOf' = rowsOf
    /\ unsaved' = unsaved /\ crashes' = crashes
    /\ \/ pc = "segment" /\ stored' = stored \cup {InHand}
       \/ pc = "unlink" /\ stored' = stored
    /\ \/ pc' = "insert" /\ work' = work \ {InHand}
       \/ pc' = "unlink" /\ work' = work

LEMMA StoreStepKeepsIInv ==
    ASSUME IInv, TypeOK', StoreStep
    PROVE  IInv'
<1> USE DEF IInv, StoreStep
<1>1. InHand \in batch /\ InHand \in Segments /\ InHand' = InHand
  BY InHandExists DEF InHand
<1>2. InHand \in work
  BY <1>1 DEF PlaceInv
<1>3. rowsOf[InHand] = 0
  BY <1>1, <1>2 DEF RowsMatchStored, RowsNameStored, HasRow, TypeOK
<1>4. PlaceInv'
  BY <1>1, <1>3 DEF PlaceInv, Collecting
<1>5. PastInv' /\ OpenInv'
  BY <1>1 DEF PastInv, OpenInv
<1>6. KnownInv'
  BY DEF KnownInv
<1>7. WriterUndisturbed'
  BY <1>1 DEF WriterUndisturbed, NoStrayProcess, OpenSegmentUntouched
<1>8. LossExplained'
  BY <1>1 DEF LossExplained, PlaceInv
<1>9. RowsNameStored'
  BY DEF RowsMatchStored, RowsNameStored, HasRow
<1>10. StoredHasRow'
  BY <1>1 DEF RowsMatchStored, StoredHasRow, HasRow
<1> QED BY <1>4, <1>5, <1>6, <1>7, <1>8, <1>9, <1>10 DEF RowsMatchStored

\* A segment is opened: nobody ever had its number.
LEMMA OpenSegmentKeepsIInv ==
    ASSUME IInv, TypeOK', OpenSegment
    PROVE  IInv'
<1> USE DEF IInv, OpenSegment, settings, process, sync, bounds
<1>1. next \in Nat /\ next' = next + 1 /\ InHand' = InHand
  BY ParamsAssumption DEF TypeOK, InHand
<1>2. next \notin work /\ next \notin stored /\ next \notin batch
  BY <1>1 DEF PastInv
<1>3. pc \in {"unlink", "insert"} => InHand \in batch
  BY InHandExists DEF PlaceInv
<1>4. PlaceInv'
  BY <1>1, <1>2, <1>3 DEF PlaceInv, Collecting
<1>5. PastInv'
  BY <1>1, ParamsAssumption DEF PastInv, TypeOK, Segments
<1>6. OpenInv' /\ KnownInv'
  BY <1>1 DEF OpenInv, KnownInv
<1>7. WriterUndisturbed'
  BY <1>2 DEF WriterUndisturbed, NoStrayProcess, OpenSegmentUntouched
<1>8. LossExplained'
  BY <1>1 DEF LossExplained
<1>9. RowsNameStored'
  BY <1>2 DEF RowsMatchStored, RowsNameStored, HasRow
<1>10. StoredHasRow'
  BY <1>1 DEF RowsMatchStored, StoredHasRow, HasRow
<1> QED BY <1>4, <1>5, <1>6, <1>7, <1>8, <1>9, <1>10 DEF RowsMatchStored

-----------------------------------------------------------------------------
\* Every step keeps the types.
LEMMA StepKeepsTypes ==
    ASSUME IInv, [Next]_vars
    PROVE  TypeOK'
<1> USE DEF IInv, settings, process, sync, disk, bounds
<1>1. ASSUME BeginSync \/ KeepProcess \/ ReplaceProcess \/ StopDisabled
      PROVE  TypeOK'
  <2>1. CASE BeginSync
    BY <2>1 DEF TypeOK, BeginSync
  <2>2. CASE KeepProcess
    BY <2>2 DEF TypeOK, KeepProcess
  <2>3. CASE ReplaceProcess
    BY <2>3 DEF TypeOK, ReplaceProcess, Terminated
  <2>4. CASE StopDisabled
    BY <2>4 DEF TypeOK, StopDisabled, Terminated
  <2> QED BY <1>1, <2>1, <2>2, <2>3, <2>4
<1>2. ASSUME ScanNothing \/ Scan \/ EndBatch \/ ScanRaises \/ StopRaises
      PROVE  TypeOK'
  <2>1. CASE ScanNothing \/ EndBatch \/ ScanRaises
    BY <2>1 DEF TypeOK, ScanNothing, EndBatch, ScanRaises, EndSync, Raises
  <2>2. CASE Scan
    BY <2>2 DEF TypeOK, Scan, Finished, LoadedNames
  <2>3. CASE StopRaises
    BY <2>3 DEF TypeOK, StopRaises, Terminated, Raises
  <2> QED BY <1>2, <2>1, <2>2, <2>3
<1>3. ASSUME \/ DropKnown \/ DropUnusable \/ RegisterRaises
             \/ MoveSegment \/ UploadSegment \/ RemoveUploaded
             \/ InsertRow \/ InsertRefused
      PROVE  TypeOK'
  <2>1. batch # {} /\ Collecting
    BY <1>3 DEF DropKnown, DropUnusable, RegisterRaises, MoveSegment, UploadSegment,
       RemoveUploaded, InsertRow, InsertRefused, Registrable, PlaceInv, Collecting
  <2>2. InHand \in Segments /\ known \subseteq Segments
    BY <2>1, InHandExists DEF PlaceInv
  <2>3. CASE DropKnown
    BY <2>2, <2>3 DEF TypeOK, DropKnown, NextSegment
  <2>4. CASE DropUnusable
    BY <2>2, <2>4 DEF TypeOK, DropUnusable, NextSegment
  <2>5. CASE RegisterRaises
    BY <2>2, <2>5 DEF TypeOK, RegisterRaises, NextSegment, Raises
  <2>6. CASE MoveSegment
    BY <2>2, <2>6 DEF TypeOK, MoveSegment
  <2>7. CASE UploadSegment
    BY <2>2, <2>7 DEF TypeOK, UploadSegment
  <2>8. CASE RemoveUploaded
    BY <2>2, <2>8 DEF TypeOK, RemoveUploaded
  <2>9. CASE InsertRow
    <3>1. rowsOf[InHand] = 0
      BY <2>9 DEF InsertRow, PlaceInv
    <3>2. rowsOf' \in [Segments -> 0 .. 1]
      BY <2>2, <2>9, <3>1 DEF TypeOK, InsertRow
    <3> QED BY <2>2, <2>9, <3>2 DEF TypeOK, InsertRow, NextSegment
  <2>10. CASE InsertRefused
    BY <2>2, <2>10 DEF TypeOK, InsertRefused, NextSegment
  <2> QED BY <1>3, <2>3, <2>4, <2>5, <2>6, <2>7, <2>8, <2>9, <2>10
<1>4. CASE OpenSegment
  <2>1. next \in Segments /\ next' \in 1 .. (MaxSegment + 1)
    BY <1>4, ParamsAssumption DEF OpenSegment, Segments
  <2>2. work' \subseteq Segments /\ blank' \subseteq Segments
    BY <1>4, <2>1 DEF TypeOK, OpenSegment
  <2> QED BY <1>4, <2>1, <2>2 DEF TypeOK, OpenSegment
<1>5. ASSUME ProcessExits \/ FiveSecondsPass
      PROVE  TypeOK'
  <2>1. CASE ProcessExits
    BY <2>1 DEF TypeOK, ProcessExits
  <2>2. CASE FiveSecondsPass
    BY <2>2 DEF TypeOK, FiveSecondsPass
  <2> QED BY <1>5, <2>1, <2>2
<1>6. ASSUME NEW to \in {"on", "off"}, SetRecording(to)
      PROVE  TypeOK'
  BY <1>6 DEF TypeOK, SetRecording, Change
<1>7. ASSUME NEW to \in Streams, SetStream(to)
      PROVE  TypeOK'
  BY <1>7 DEF TypeOK, SetStream, Change
<1>8. ASSUME NEW to \in Storages, SetStorage(to)
      PROVE  TypeOK'
  BY <1>8 DEF TypeOK, SetStorage, Change
<1>9. CASE DeleteCamera
  BY <1>9 DEF TypeOK, DeleteCamera
<1>10. CASE CrashRestart
  <2>1. into' \in Storages
    BY <1>10 DEF CrashRestart, Storages
  <2>2. /\ entry' \in Streams \cup {None} /\ writing' \in Streams \cup {None}
        /\ recent' \in BOOLEAN /\ final' \in BOOLEAN
        /\ known' = Unloaded /\ pc' = "idle" /\ batch' \subseteq Segments
        /\ open' \in Segments \cup {0}
    BY <1>10 DEF CrashRestart
  <2>3. crashes' \in Nat
    BY <1>10 DEF TypeOK, CrashRestart
  <2>4. UNCHANGED <<camera, stream, storage, seen, next, work, blank, stored,
                    rowsOf, unsaved, changes, failures, exits>>
    BY <1>10 DEF CrashRestart
  <2> QED BY <2>1, <2>2, <2>3, <2>4 DEF TypeOK
<1>11. CASE UNCHANGED vars
  BY <1>11 DEF TypeOK, vars
<1> QED BY <1>1, <1>2, <1>3, <1>4, <1>5, <1>6, <1>7, <1>8, <1>9, <1>10, <1>11
        DEF Next, SyncNext

\* A step that changes nothing but the settings, the clock or the process.
OutsideStep ==
    /\ known' = known /\ pc' = pc /\ final' = final /\ batch' = batch
    /\ next' = next /\ work' = work /\ stored' = stored
    /\ unsaved' = unsaved /\ crashes' = crashes
    /\ \/ rowsOf' = rowsOf
       \/ camera' = "deleted" /\ rowsOf' = [s \in Segments |-> 0]
    /\ camera = "deleted" => camera' = "deleted"
    /\ \/ entry' = entry /\ writing' = writing /\ open' = open
       \/ writing' = None /\ open' = 0

LEMMA OutsideStepKeepsIInv ==
    ASSUME IInv, TypeOK', OutsideStep
    PROVE  IInv'
<1> USE DEF IInv, OutsideStep
<1>1. pc \in {"unlink", "insert"} => InHand \in Segments
  BY InHandExists DEF PlaceInv
<1>2. InHand' = InHand
  BY DEF InHand
<1>3. PlaceInv'
  BY <1>1, <1>2 DEF PlaceInv, Collecting
<1>4. PastInv' /\ OpenInv' /\ KnownInv'
  BY DEF PastInv, OpenInv, KnownInv
<1>5. WriterUndisturbed'
  BY DEF WriterUndisturbed, NoStrayProcess, OpenSegmentUntouched
<1>6. LossExplained'
  BY DEF LossExplained
<1>7. RowsMatchStored'
  BY <1>2 DEF RowsMatchStored, RowsNameStored, StoredHasRow, HasRow
<1> QED BY <1>3, <1>4, <1>5, <1>6, <1>7

LEMMA StepKeepsIInv ==
    ASSUME IInv, [Next]_vars
    PROVE  IInv'
<1> TypeOK'
  BY StepKeepsTypes
<1>1. ASSUME \/ BeginSync \/ KeepProcess \/ ReplaceProcess \/ StopDisabled
             \/ ScanNothing \/ EndBatch \/ ScanRaises \/ StopRaises \/ CrashRestart
      PROVE  IInv'
  <2> USE DEF IdleStep, IInv, PlaceInv, Collecting, OpenInv, WriterUndisturbed,
         NoStrayProcess, settings, process, sync, disk, bounds
  <2>1. CASE BeginSync
    <3>1. pc' \in {"ensure", "stop", "idle"}
      BY <2>1 DEF BeginSync
    <3>2. IdleStep
      BY <2>1, <3>1 DEF BeginSync
    <3> QED BY <3>2, IdleStepKeepsIInv
  <2>2. CASE KeepProcess
    <3>1. IdleStep
      BY <2>2 DEF KeepProcess
    <3> QED BY <3>1, IdleStepKeepsIInv
  <2>3. CASE ReplaceProcess
    <3>1. IdleStep
      BY <2>3 DEF ReplaceProcess, Terminated
    <3> QED BY <3>1, IdleStepKeepsIInv
  <2>4. CASE StopDisabled
    <3>1. IdleStep
      BY <2>4 DEF StopDisabled, Terminated
    <3> QED BY <3>1, IdleStepKeepsIInv
  <2>5. CASE ScanNothing \/ EndBatch \/ ScanRaises
    <3>1. batch = {} /\ pc' = "idle"
      BY <2>5 DEF ScanNothing, ScanRaises, EndBatch, EndSync
    <3>2. IdleStep
      BY <2>5, <3>1 DEF ScanNothing, ScanRaises, EndBatch, EndSync, Raises
    <3> QED BY <3>2, IdleStepKeepsIInv
  <2>6. CASE StopRaises
    <3>1. IdleStep
      BY <2>6 DEF StopRaises, Terminated, Raises
    <3> QED BY <3>1, IdleStepKeepsIInv
  <2>7. CASE CrashRestart
    <3>1. crashes \in Nat /\ crashes' > 0
      BY <2>7 DEF CrashRestart, TypeOK
    <3>2. IdleStep
      BY <2>7, <3>1 DEF CrashRestart
    <3> QED BY <3>2, IdleStepKeepsIInv
  <2> QED BY <1>1, <2>1, <2>2, <2>3, <2>4, <2>5, <2>6, <2>7
<1>2. CASE Scan
  BY <1>2, ScanKeepsIInv
<1>3. ASSUME \/ DropKnown \/ DropUnusable \/ RegisterRaises
             \/ InsertRow \/ InsertRefused
      PROVE  HandledStep
  <2> USE DEF HandledStep, Collecting, settings, process, bounds
  <2>1. batch # {}
    BY <1>3 DEF DropKnown, DropUnusable, RegisterRaises, Registrable, InsertRow,
       InsertRefused, IInv, PlaceInv
  <2>2. CASE DropKnown
    <3>1. InHand \in stored \cup unsaved
      BY <2>2, NamesAreLoaded DEF DropKnown, IInv, PlaceInv, KnownInv
    <3>2. InHand \in stored => \/ rowsOf[InHand] > 0
                               \/ InHand \in unsaved
                               \/ crashes > 0
                               \/ camera = "deleted"
      BY <2>2 DEF DropKnown, IInv, RowsMatchStored, StoredHasRow, HasRow
    <3> QED BY <2>1, <2>2, <3>1, <3>2 DEF DropKnown, NextSegment
  <2>3. CASE DropUnusable
    BY <2>1, <2>3 DEF DropUnusable, NextSegment
  <2>4. CASE RegisterRaises
    BY <2>1, <2>4 DEF RegisterRaises, Registrable, Raises, NextSegment
  <2>5. CASE InsertRow
    <3>1. InHand \in stored /\ InHand \notin work /\ rowsOf[InHand] = 0
      BY <2>5 DEF InsertRow, IInv, PlaceInv
    <3>2. rowsOf'[InHand] > 0
      BY <2>1, <2>5, <3>1, InHandExists DEF InsertRow, IInv, TypeOK
    <3> QED BY <2>1, <2>5, <3>1, <3>2 DEF InsertRow, NextSegment
  <2>6. CASE InsertRefused
    BY <2>1, <2>6 DEF InsertRefused, NextSegment, IInv, PlaceInv
  <2> QED BY <1>3, <2>2, <2>3, <2>4, <2>5, <2>6
<1>4. ASSUME MoveSegment \/ UploadSegment \/ RemoveUploaded
      PROVE  StoreStep
  BY <1>4 DEF MoveSegment, UploadSegment, RemoveUploaded, Registrable, StoreStep,
     IInv, PlaceInv, settings, process, bounds
<1>5. CASE OpenSegment
  BY <1>5, OpenSegmentKeepsIInv
<1>6. ASSUME \/ ProcessExits \/ FiveSecondsPass \/ DeleteCamera \/ UNCHANGED vars
             \/ \E to : SetRecording(to) \/ SetStream(to) \/ SetStorage(to)
      PROVE  OutsideStep
  <2> USE DEF OutsideStep, settings, process, sync, disk, bounds, vars
  <2>1. CASE ProcessExits
    BY <2>1 DEF ProcessExits
  <2>2. CASE FiveSecondsPass
    BY <2>2 DEF FiveSecondsPass
  <2>3. CASE DeleteCamera
    BY <2>3 DEF DeleteCamera
  <2>4. CASE UNCHANGED vars
    BY <2>4
  <2>5. CASE \E to : SetRecording(to) \/ SetStream(to) \/ SetStorage(to)
    BY <2>5 DEF SetRecording, SetStream, SetStorage, Change
  <2> QED BY <1>6, <2>1, <2>2, <2>3, <2>4, <2>5
<1> QED BY <1>1, <1>2, <1>3, <1>4, <1>5, <1>6, HandledStepKeepsIInv,
           StoreStepKeepsIInv, OutsideStepKeepsIInv DEF Next, SyncNext

-----------------------------------------------------------------------------
\* Reachable states satisfy the inductive invariant.
THEOREM Inductive == Spec => []IInv
<1>1. Init => IInv
  BY InitIInv
<1>2. IInv /\ [Next]_vars => IInv'
  BY StepKeepsIInv
<1> QED BY <1>1, <1>2, PTL DEF Spec

\* ContinuousRecordingManager.sync and what runs beside it keep every variable
\* in its type.
THEOREM TypeCorrect == Spec => []TypeOK
<1>1. IInv => TypeOK
  BY DEF IInv
<1> QED BY <1>1, Inductive, PTL

\* The running ffmpeg is the one _processes names, and sync never has the
\* segment it writes in hand, however stops, restarts and changes interleave.
THEOREM WriterIsUndisturbed == Spec => []WriterUndisturbed
<1>1. IInv => WriterUndisturbed
  BY DEF IInv
<1> QED BY <1>1, Inductive, PTL

\* No segment is lost, unless it was empty, storing it raised or there was no
\* target (_collect_segments, _register_segment).
THEOREM NothingLostSilently == Spec => []LossExplained
<1>1. IInv => LossExplained
  BY DEF IInv
<1> QED BY <1>1, Inductive, PTL

\* A row names a stored segment, and a stored segment without a row has a
\* reason (_register_segment).
THEOREM RowsAndFilesAgree == Spec => []RowsMatchStored
<1>1. IInv => RowsMatchStored
  BY DEF IInv
<1> QED BY <1>1, Inductive, PTL

\* When the sync that stopped the recording ends, nothing is left in the work
\* directory but what could not be stored: the safety part of AllIsCollected.
THEOREM StopLeavesNothing == Spec => StopCollects
<1> DEFINE Stops == final /\ pc \in {"scan", "segment"} /\ pc' = "idle" =>
               work' \subseteq unsaved \/ failures' # failures \/ crashes' # crashes
<1>1. IInv /\ [Next]_vars => [Stops]_vars
  <2> SUFFICES ASSUME IInv, Next, final, pc \in {"scan", "segment"}, pc' = "idle"
               PROVE  \/ work' \subseteq unsaved
                      \/ failures' # failures
                      \/ crashes' # crashes
    OBVIOUS
  <2> USE DEF settings, process, sync, disk, bounds
  <2>1. CASE ScanNothing
    BY <2>1 DEF ScanNothing, Finished
  <2>2. CASE EndBatch
    BY <2>2 DEF EndBatch, IInv, PlaceInv, Collecting
  <2>3. CASE ScanRaises \/ StopRaises \/ RegisterRaises
    <3>1. failures \in Nat /\ failures' = failures + 1
      BY <2>3 DEF ScanRaises, StopRaises, RegisterRaises, Raises, IInv, TypeOK
    <3> QED BY <3>1
  <2>4. CASE CrashRestart
    BY <2>4 DEF CrashRestart, IInv, TypeOK
  <2>5. CASE BeginSync \/ KeepProcess \/ ReplaceProcess \/ StopDisabled
    BY <2>5 DEF BeginSync, KeepProcess, ReplaceProcess, StopDisabled
  <2>6. CASE \/ Scan \/ DropKnown \/ DropUnusable \/ MoveSegment \/ UploadSegment
             \/ RemoveUploaded \/ InsertRow \/ InsertRefused
    BY <2>6 DEF Scan, DropKnown, DropUnusable, MoveSegment, UploadSegment,
       RemoveUploaded, InsertRow, InsertRefused, NextSegment
  <2>7. CASE OpenSegment \/ ProcessExits \/ FiveSecondsPass \/ DeleteCamera
    BY <2>7 DEF OpenSegment, ProcessExits, FiveSecondsPass, DeleteCamera
  <2>8. CASE \E to : SetRecording(to) \/ SetStream(to) \/ SetStorage(to)
    BY <2>8 DEF SetRecording, SetStream, SetStorage, Change
  <2> QED BY <2>1, <2>2, <2>3, <2>4, <2>5, <2>6, <2>7, <2>8 DEF Next, SyncNext
<1> QED BY <1>1, Inductive, PTL DEF Spec, StopCollects
=============================================================================
