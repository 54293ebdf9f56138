-------------------------- MODULE Retention_proofs --------------------------
(***************************************************************************)
(* Proofs about Retention for every value of its constants: types, orphans *)
(* and the delete button.  The inductive invariant adds to them what a     *)
(* pass has done to the recording it has in hand (InHandInv).              *)
(***************************************************************************)
EXTENDS Retention, TLAPS, WellFoundedInduction

\* Why the files of a recording may be left without its row.
Explained(r) == ~camera \/ (r \in Remote /\ storage # "original")

\* A pass past its read has a recording that has, or had, a row; it knows a
\* target other than the original only if that was changed; and a step behind
\* it has removed its file, or cannot.
InHandInv(p) ==
    pc[p] \in {"clip", "thumb", "row"} =>
        /\ status[InHand(p)] \in {"ready", "gone"}
        /\ reach[p] = "none" => status[InHand(p)] = "gone"
        /\ reach[p] \in {"changed", "removed"} => storage # "original"
        /\ pc[p] \in {"thumb", "row"} =>
              "clip" \notin files[InHand(p)] \/ Explained(InHand(p))
        /\ pc[p] = "row" => files[InHand(p)] = {} \/ Explained(InHand(p))

IInv ==
    /\ TypeOK
    /\ OrphansExplained
    /\ ButtonSparesLocked
    /\ \A p \in Passes : InHandInv(p)

\* A set of recordings that is not empty has an oldest one.
LEMMA OldestExists ==
    ASSUME NEW S, S \subseteq Recordings, S # {}
    PROVE  Oldest(S) \in S
<1>1. S \subseteq Nat
  BY ParamsAssumption DEF Recordings
<1>2. \E x \in S : \A y \in S : ~(<<y, x>> \in OpToRel(<, Nat))
  BY <1>1, NatLessThanWellFounded, WFMin
<1>3. PICK x \in S : \A y \in S : ~(<<y, x>> \in OpToRel(<, Nat))
  BY <1>2
<1>4. ASSUME NEW y \in S
      PROVE  x <= y
  <2>1. x \in Nat /\ y \in Nat
    BY <1>1
  <2>2. ~(y < x)
    BY <1>3, <1>4, <2>1 DEF OpToRel
  <2> QED BY <2>1, <2>2
<1> QED BY <1>4 DEF Oldest

LEMMA InHandExists ==
    ASSUME TypeOK, NEW p \in Passes, todo[p] # {}
    PROVE  InHand(p) \in todo[p] /\ InHand(p) \in Recordings
<1>1. todo[p] \subseteq Recordings
  BY DEF TypeOK
<1>2. Oldest(todo[p]) \in todo[p]
  BY <1>1, OldestExists
<1> QED BY <1>1, <1>2 DEF InHand

LEMMA InitIInv == Init => IInv
  BY ParamsAssumption DEF Init, IInv, TypeOK, OrphansExplained,
     ButtonSparesLocked, InHandInv, Passes, Ready, Artefacts

\* What a pass has in hand is untouched by a step that leaves its own state
\* alone, takes no file or explanation back and loses no row of a recording.
LEMMA OthersKeepInHand ==
    ASSUME TypeOK, TypeOK', NEW p \in Passes, InHandInv(p),
           pc'[p] = pc[p], todo'[p] = todo[p], reach'[p] = reach[p],
           ~camera => ~camera', storage # "original" => storage' # "original",
           \A r \in Recordings :
              /\ status[r] \in {"ready", "gone"} => status'[r] \in {"ready", "gone"}
              /\ status[r] = "gone" => status'[r] = "gone"
              /\ status[r] # "absent" => files'[r] \subseteq files[r]
    PROVE  InHandInv(p)'
<1> SUFFICES ASSUME pc[p] \in {"clip", "thumb", "row"}
             PROVE  InHandInv(p)'
  BY DEF InHandInv
<1>1. todo[p] # {}
  BY DEF TypeOK
<1>2. InHand(p) \in Recordings /\ InHand(p)' = InHand(p)
  BY <1>1, InHandExists DEF InHand
<1>3. status[InHand(p)] \in {"ready", "gone"}
  BY DEF InHandInv
<1>4. files'[InHand(p)] \subseteq files[InHand(p)]
  BY <1>2, <1>3
<1>5. Explained(InHand(p)) => Explained(InHand(p))'
  BY <1>2 DEF Explained
<1> QED BY <1>2, <1>3, <1>4, <1>5 DEF InHandInv

\* A pass that is not past its read has nothing to keep.
LEMMA FreshPass ==
    ASSUME NEW p \in Passes, pc'[p] \in {"idle", "next"}
    PROVE  InHandInv(p)'
  BY DEF InHandInv

\* The delete button's pass stays clear of locks while its work and the locks
\* only shrink.
LEMMA ButtonKeepsClear ==
    ASSUME ButtonSparesLocked, job' = job, locked' \subseteq locked,
           todo'["loop"] \subseteq todo["loop"],
           pc'["loop"] # "idle" => pc["loop"] # "idle"
    PROVE  ButtonSparesLocked'
  BY DEF ButtonSparesLocked

\* Starting a pass.
LEMMA StartKeepsIInv ==
    ASSUME IInv, NEW q \in Passes, NEW kind \in {"cleanup", "group"},
           NEW selected \in SUBSET Ready, StartPass(q, kind, selected, "next"),
           reach' = reach
    PROVE  IInv'
<1> USE DEF IInv, StartPass, rows, bounds
<1>1. TypeOK'
  BY DEF TypeOK, Ready
<1>2. OrphansExplained'
  BY DEF OrphansExplained
<1>3. ButtonSparesLocked'
  BY DEF ButtonSparesLocked, TypeOK
<1>4. ASSUME NEW p \in Passes
      PROVE  InHandInv(p)'
  <2>1. CASE p = q
    BY <2>1, FreshPass DEF TypeOK
  <2>2. CASE p # q
    <3>1. pc'[p] = pc[p] /\ todo'[p] = todo[p] /\ reach'[p] = reach[p]
      BY <2>2 DEF TypeOK
    <3> QED BY <1>1, <3>1, OthersKeepInHand
  <2> QED BY <2>1, <2>2
<1> QED BY <1>1, <1>2, <1>3, <1>4

LEMMA PressDeleteKeepsIInv ==
    ASSUME IInv, NEW r \in Recordings, PressDelete(r)
    PROVE  IInv'
<1> USE DEF IInv, PressDelete, StartPass, rows, bounds
<1>1. TypeOK'
  BY DEF TypeOK, Ready, Passes
<1>2. OrphansExplained'
  BY DEF OrphansExplained
<1>3. ButtonSparesLocked'
  BY DEF ButtonSparesLocked, TypeOK, Passes
<1>4. ASSUME NEW p \in Passes
      PROVE  InHandInv(p)'
  <2>1. CASE p = "loop"
    <3>1. todo'["loop"] = {r} /\ pc'["loop"] = "clip" /\ reach'["loop"] = storage
      BY DEF TypeOK, Passes
    <3>2. InHand("loop")' = r
      BY <1>1, <3>1, InHandExists, OldestExists DEF InHand, Oldest
    <3> QED BY <2>1, <3>1, <3>2 DEF InHandInv, TypeOK
  <2>2. CASE p # "loop"
    <3>1. pc'[p] = pc[p] /\ todo'[p] = todo[p] /\ reach'[p] = reach[p]
      BY <2>2 DEF TypeOK
    <3> QED BY <1>1, <3>1, OthersKeepInHand
  <2> QED BY <2>1, <2>2
<1> QED BY <1>1, <1>2, <1>3, <1>4

\* A pass that ends or turns to its next recording, the rows untouched.
LEMMA ShrinkKeepsIInv ==
    ASSUME IInv, NEW q \in Passes, Drop(q) \/ (pc[q] # "idle" /\ Advance(q)),
           UNCHANGED <<status, locked, due, camera, storage, files, job, reach>>,
           failures' \in Nat, crashes' = crashes, changes' = changes
    PROVE  IInv'
<1> USE DEF IInv
<1>1. /\ \A p \in Passes \ {q} : pc'[p] = pc[p] /\ todo'[p] = todo[p]
      /\ pc'[q] \in {"idle", "next"} /\ todo'[q] \subseteq todo[q]
      /\ pc'[q] = "idle" => todo'[q] = {}
      /\ pc'[q] = "next" => pc[q] # "idle"
      /\ DOMAIN pc' = Passes /\ DOMAIN todo' = Passes
      /\ pc' = [p \in Passes |-> pc'[p]] /\ todo' = [p \in Passes |-> todo'[p]]
  <2>1. CASE Drop(q)
    BY <2>1 DEF Drop, TypeOK
  <2>2. CASE pc[q] # "idle" /\ Advance(q)
    BY <2>2 DEF Advance, TypeOK
  <2> QED BY <2>1, <2>2
<1>2. TypeOK'
  BY <1>1 DEF TypeOK, Ready
<1>3. OrphansExplained'
  BY DEF OrphansExplained
<1>4. ButtonSparesLocked'
  <2>1. /\ todo'["loop"] \subseteq todo["loop"]
        /\ pc'["loop"] # "idle" => pc["loop"] # "idle"
    BY <1>1 DEF Passes
  <2> QED BY <2>1, ButtonKeepsClear
<1>5. ASSUME NEW p \in Passes
      PROVE  InHandInv(p)'
  <2>1. CASE p = q
    BY <1>1, <2>1, FreshPass
  <2>2. CASE p # q
    <3>1. pc'[p] = pc[p] /\ todo'[p] = todo[p] /\ reach'[p] = reach[p]
      BY <1>1, <2>2 DEF TypeOK
    <3> QED BY <1>2, <3>1, OthersKeepInHand
  <2> QED BY <2>1, <2>2
<1> QED BY <1>2, <1>3, <1>4, <1>5

LEMMA ReadRowKeepsIInv ==
    ASSUME IInv, NEW q \in Passes, ReadRow(q)
    PROVE  IInv'
<1> USE DEF IInv, ReadRow, rows, bounds
<1>1. TypeOK'
  BY DEF TypeOK, Ready
<1>2. OrphansExplained'
  BY DEF OrphansExplained
<1>3. ButtonSparesLocked'
  BY DEF ButtonSparesLocked, TypeOK
<1>4. ASSUME NEW p \in Passes
      PROVE  InHandInv(p)'
  <2>1. CASE p = q
    <3>1. pc'[q] = "clip" /\ InHand(q)' = InHand(q) /\ reach'[q] = storage
      BY DEF TypeOK, InHand
    <3> QED BY <2>1, <3>1 DEF InHandInv, TypeOK
  <2>2. CASE p # q
    <3>1. pc'[p] = pc[p] /\ todo'[p] = todo[p] /\ reach'[p] = reach[p]
      BY <2>2 DEF TypeOK
    <3> QED BY <1>1, <3>1, OthersKeepInHand
  <2> QED BY <2>1, <2>2
<1> QED BY <1>1, <1>2, <1>3, <1>4

LEMMA RowVanishedKeepsIInv ==
    ASSUME IInv, NEW q \in Passes, RowVanished(q)
    PROVE  IInv'
<1>1. CASE job[q] # "cleanup"
  <2>1. pc[q] # "idle" /\ Advance(q) /\ reach' = reach
    BY <1>1 DEF RowVanished
  <2> QED BY <2>1, ShrinkKeepsIInv DEF RowVanished, rows, bounds, IInv, TypeOK
<1>2. CASE job[q] = "cleanup"
  <2> USE <1>2 DEF IInv, RowVanished, rows, bounds
  <2>1. TypeOK'
    BY DEF TypeOK, Ready
  <2>2. OrphansExplained'
    BY DEF OrphansExplained
  <2>3. ButtonSparesLocked'
    <3>1. pc'["loop"] # "idle" => pc["loop"] # "idle"
      BY DEF TypeOK, Passes
    <3> QED BY <3>1, ButtonKeepsClear
  <2>4. ASSUME NEW p \in Passes
        PROVE  InHandInv(p)'
    <3>1. CASE p = q
      <4>1. pc'[q] = "clip" /\ InHand(q)' = InHand(q) /\ reach'[q] = "none"
        BY DEF TypeOK, InHand
      <4> QED BY <3>1, <4>1 DEF InHandInv, TypeOK
    <3>2. CASE p # q
      <4>1. pc'[p] = pc[p] /\ todo'[p] = todo[p] /\ reach'[p] = reach[p]
        BY <3>2 DEF TypeOK
      <4> QED BY <2>1, <4>1, OthersKeepInHand
    <3> QED BY <3>1, <3>2
  <2> QED BY <2>1, <2>2, <2>3, <2>4
<1> QED BY <1>1, <1>2

\* Removing a file: either it is gone afterwards, or the target it was on is
\* not the one the recording was stored on, or the row had vanished already.
LEMMA RemoveFileKeepsIInv ==
    ASSUME IInv, NEW q \in Passes, RemoveClip(q) \/ RemoveThumb(q)
    PROVE  IInv'
<1> DEFINE r == InHand(q)
<1> USE DEF IInv, RemoveClip, RemoveThumb, RemoveFile, rows, bounds
<1>1. pc[q] \in {"clip", "thumb"} /\ r \in Recordings /\ r' = r
  BY InHandExists DEF TypeOK, InHand
<1>2. TypeOK'
  BY <1>1 DEF TypeOK, Ready
<1>3. /\ \A s \in Recordings : files'[s] \subseteq files[s]
      /\ Explained(r)' = Explained(r)
  BY <1>1 DEF TypeOK, Explained
<1>4. OrphansExplained'
  BY <1>3 DEF OrphansExplained
<1>5. ButtonSparesLocked'
  <2>1. pc'["loop"] # "idle" => pc["loop"] # "idle"
    BY <1>1 DEF TypeOK, Passes
  <2> QED BY <2>1, ButtonKeepsClear
<1>6. Reached(q, r) \/ Explained(r) \/ files[r] = {}
  BY <1>1 DEF Reached, Explained, InHandInv, OrphansExplained, TypeOK
<1>7. InHandInv(q)'
  <2>1. CASE RemoveClip(q)
    <3>1. /\ pc[q] = "clip" /\ pc'[q] = "thumb"
          /\ files'[r] = IF Reached(q, r) THEN files[r] \ {"clip"} ELSE files[r]
      BY <1>1, <2>1 DEF TypeOK
    <3> HIDE DEF RemoveClip, RemoveThumb, RemoveFile
    <3> QED BY <1>1, <1>3, <1>6, <2>1, <3>1
            DEF InHandInv, RemoveClip, RemoveFile
  <2>2. CASE RemoveThumb(q)
    <3>1. /\ pc[q] = "thumb" /\ pc'[q] = "row"
          /\ files'[r] = IF Reached(q, r) THEN files[r] \ {"thumb"} ELSE files[r]
      BY <1>1, <2>2 DEF TypeOK
    <3>2. files[r] \subseteq {"clip", "thumb"}
      BY <1>1 DEF TypeOK, Artefacts
    <3>3. "clip" \notin files[r] \/ Explained(r)
      BY <3>1 DEF InHandInv
    <3>4. files'[r] = {} \/ Explained(r)
      BY <1>6, <3>1, <3>2, <3>3
    <3> QED BY <1>1, <1>3, <2>2, <3>1, <3>4 DEF InHandInv
  <2> QED BY <2>1, <2>2
<1>8. ASSUME NEW p \in Passes, p # q
      PROVE  InHandInv(p)'
  <2>1. pc'[p] = pc[p] /\ todo'[p] = todo[p] /\ reach'[p] = reach[p]
    BY <1>8 DEF TypeOK
  <2> QED BY <1>2, <1>3, <2>1, OthersKeepInHand
<1> QED BY <1>2, <1>4, <1>5, <1>7, <1>8

LEMMA DeleteRowKeepsIInv ==
    ASSUME IInv, NEW q \in Passes, DeleteRow(q)
    PROVE  IInv'
<1> DEFINE r == InHand(q)
<1> USE DEF IInv, DeleteRow, rows, bounds
<1>1. pc[q] = "row" /\ r \in Recordings
  BY InHandExists DEF TypeOK
<1>2. status' = [status EXCEPT ![r] = "gone"] /\ locked' = locked \ {r}
  OBVIOUS
<1>3. /\ \A p \in Passes \ {q} : pc'[p] = pc[p] /\ todo'[p] = todo[p]
      /\ pc'[q] = "next" /\ todo'[q] \subseteq todo[q]
      /\ pc' = [p \in Passes |-> pc'[p]] /\ todo' = [p \in Passes |-> todo'[p]]
  BY DEF Advance, TypeOK
<1>4. TypeOK'
  BY <1>1, <1>2, <1>3 DEF TypeOK, Ready
<1>5. OrphansExplained'
  <2>1. files[r] = {} \/ Explained(r)
    BY <1>1 DEF InHandInv
  <2> QED BY <1>2, <2>1 DEF OrphansExplained, Explained, TypeOK
<1>6. ButtonSparesLocked'
  <2>1. /\ todo'["loop"] \subseteq todo["loop"]
        /\ pc'["loop"] # "idle" => pc["loop"] # "idle"
    BY <1>1, <1>3 DEF Passes
  <2> QED BY <1>2, <2>1, ButtonKeepsClear
<1>7. ASSUME NEW p \in Passes
      PROVE  InHandInv(p)'
  <2>1. CASE p = q
    BY <1>3, <2>1, FreshPass
  <2>2. CASE p # q
    <3>1. \A s \in Recordings : status'[s] = status[s] \/ status'[s] = "gone"
      BY <1>2 DEF TypeOK
    <3> QED BY <1>3, <1>4, <2>2, <3>1, OthersKeepInHand
  <2> QED BY <2>1, <2>2
<1> QED BY <1>4, <1>5, <1>6, <1>7

LEMMA PassKeepsIInv ==
    ASSUME IInv, NEW q \in Passes, PassNext(q) \/ CallRaises(q)
    PROVE  IInv'
<1>1. CASE FinishPass(q) \/ StuckRaises(q) \/ CallRaises(q)
  <2>1. /\ Drop(q)
        /\ UNCHANGED <<status, locked, due, camera, storage, files, job, reach>>
        /\ failures' \in Nat /\ crashes' = crashes /\ changes' = changes
    BY <1>1 DEF FinishPass, StuckRaises, CallRaises, rows, bounds, IInv, TypeOK
  <2> QED BY <2>1, ShrinkKeepsIInv
<1>2. CASE ReadRow(q)
  BY <1>2, ReadRowKeepsIInv
<1>3. CASE RowVanished(q)
  BY <1>3, RowVanishedKeepsIInv
<1>4. CASE RemoveClip(q) \/ RemoveThumb(q)
  BY <1>4, RemoveFileKeepsIInv
<1>5. CASE DeleteRow(q)
  BY <1>5, DeleteRowKeepsIInv
<1> QED BY <1>1, <1>2, <1>3, <1>4, <1>5 DEF PassNext

\* The handlers that start no pass, and time.
LEMMA OutsideKeepsIInv ==
    ASSUME IInv,
           \/ \E r \in Recordings : StoreClip(r) \/ Lock(r) \/ Unlock(r)
           \/ \E selection \in SUBSET Recordings : ChangeDue(selection)
           \/ DeleteCamera
           \/ \E to \in {"changed", "removed"} : ChangeStorage(to)
    PROVE  IInv'
<1> USE DEF IInv, bounds
<1>1. UNCHANGED <<pc, job, todo, reach>>
  BY DEF StoreClip, Lock, Unlock, ChangeDue, DeleteCamera, ChangeStorage
<1>2. TypeOK'
  <2>1. CASE \E r \in Recordings : StoreClip(r) \/ Lock(r) \/ Unlock(r)
    BY <2>1 DEF StoreClip, Lock, Unlock, Change, TypeOK, Ready
  <2>2. CASE \E selection \in SUBSET Recordings : ChangeDue(selection)
    BY <2>2 DEF ChangeDue, Change, TypeOK, Ready
  <2>3. CASE DeleteCamera
    BY <2>3 DEF DeleteCamera, TypeOK, Ready
  <2>4. CASE \E to \in {"changed", "removed"} : ChangeStorage(to)
    BY <2>4 DEF ChangeStorage, TypeOK, Ready
  <2> QED BY <2>1, <2>2, <2>3, <2>4
<1>3. /\ ~camera => ~camera'
      /\ storage # "original" => storage' # "original"
      /\ \A r \in Recordings :
            /\ status[r] \in {"ready", "gone"} => status'[r] \in {"ready", "gone"}
            /\ status[r] = "gone" => status'[r] = "gone"
            /\ status[r] # "absent" => files'[r] \subseteq files[r]
  <2>1. CASE \E r \in Recordings : StoreClip(r)
    BY <2>1 DEF StoreClip, TypeOK
  <2>2. CASE ~\E r \in Recordings : StoreClip(r)
    BY <2>2 DEF Lock, Unlock, ChangeDue, DeleteCamera, ChangeStorage, TypeOK
  <2> QED BY <2>1, <2>2
<1>4. OrphansExplained'
  <2>1. CASE DeleteCamera
    BY <2>1 DEF DeleteCamera, OrphansExplained
  <2>2. CASE ~DeleteCamera
    <3>1. \A r \in Recordings : status'[r] = "gone" => status[r] = "gone"
      BY <2>2 DEF StoreClip, Lock, Unlock, ChangeDue, ChangeStorage, TypeOK
    <3> QED BY <1>3, <3>1 DEF OrphansExplained
  <2> QED BY <2>1, <2>2
<1>5. ButtonSparesLocked'
  <2>1. pc["loop"] = "idle" \/ locked' \subseteq locked
    BY DEF StoreClip, Lock, Unlock, ChangeDue, DeleteCamera, ChangeStorage,
           LoopFree
  <2> QED BY <1>1, <2>1 DEF ButtonSparesLocked
<1>6. ASSUME NEW p \in Passes
      PROVE  InHandInv(p)'
  BY <1>1, <1>2, <1>3, OthersKeepInHand
<1> QED BY <1>2, <1>4, <1>5, <1>6

LEMMA CrashKeepsIInv ==
    ASSUME IInv, CrashRestart
    PROVE  IInv'
<1> USE DEF IInv, CrashRestart, rows
<1>1. TypeOK'
  BY DEF TypeOK, Ready
<1>2. OrphansExplained' /\ ButtonSparesLocked'
  BY DEF OrphansExplained, ButtonSparesLocked, Passes
<1>3. \A p \in Passes : InHandInv(p)'
  BY FreshPass
<1> QED BY <1>1, <1>2, <1>3

LEMMA StutterKeepsIInv ==
    ASSUME IInv, UNCHANGED vars
    PROVE  IInv'
  BY DEF IInv, vars, TypeOK, Ready, OrphansExplained, ButtonSparesLocked,
         InHandInv, InHand, Explained

\* Every reachable state satisfies the inductive invariant.
THEOREM InductiveInvariant == Spec => []IInv
<1>1. Init => IInv
  BY InitIInv
<1>2. IInv /\ [Next]_vars => IInv'
  <2> SUFFICES ASSUME IInv, [Next]_vars
               PROVE  IInv'
    OBVIOUS
  <2>1. ASSUME NEW p \in Passes, StartCleanup(p)
        PROVE  IInv'
    <3>1. Doomed \in SUBSET Ready
      BY DEF Doomed
    <3> QED BY <2>1, <3>1, StartKeepsIInv DEF StartCleanup
  <2>2. ASSUME NEW group \in {Remote, Recordings \ Remote}, StartGroupDelete(group)
        PROVE  IInv'
    <3>1. Ready \cap group \in SUBSET Ready /\ "loop" \in Passes
      BY DEF Passes
    <3> QED BY <2>2, <3>1, StartKeepsIInv DEF StartGroupDelete
  <2>3. ASSUME NEW r \in Recordings, PressDelete(r)
        PROVE  IInv'
    BY <2>3, PressDeleteKeepsIInv
  <2>4. ASSUME NEW p \in Passes, PassNext(p) \/ CallRaises(p)
        PROVE  IInv'
    BY <2>4, PassKeepsIInv
  <2>5. CASE CrashRestart
    BY <2>5, CrashKeepsIInv
  <2>6. CASE UNCHANGED vars
    BY <2>6, StutterKeepsIInv
  <2> QED BY <2>1, <2>2, <2>3, <2>4, <2>5, <2>6, OutsideKeepsIInv DEF Next
<1> QED BY <1>1, <1>2, PTL DEF Spec

\* The variables keep their types, and a pass past its read has a recording.
THEOREM TypeCorrect == Spec => []TypeOK
<1>1. IInv => TypeOK
  BY DEF IInv
<1> QED BY <1>1, InductiveInvariant, PTL

\* Passes, buttons, failures and restarts leave no file without its row; only
\* the removal of the camera and a changed or removed target do.
THEOREM NoUnexplainedOrphans == Spec => []OrphansExplained
<1>1. IInv => OrphansExplained
  BY DEF IInv
<1> QED BY <1>1, InductiveInvariant, PTL

\* The delete button never works on a locked recording.
THEOREM ButtonRespectsLock == Spec => []ButtonSparesLocked
<1>1. IInv => ButtonSparesLocked
  BY DEF IInv
<1> QED BY <1>1, InductiveInvariant, PTL

\* A deletion under way stays so, and what nobody deletes is whole.
LEMMA StepKeepsWhole ==
    ASSUME DanglingExplained, TypeOK,
           failures + crashes > 0 => failures' + crashes' > 0,
           \A r \in Ready' :
               \/ files'[r] = Artefacts
               \/ \E p \in Passes : pc'[p] \in {"thumb", "row"} /\ InHand(p)' = r
               \/ failures' + crashes' > 0
               \/ /\ r \in Ready /\ files'[r] = files[r]
                  /\ \A p \in Passes : pc[p] \in {"thumb", "row"} /\ InHand(p) = r =>
                         pc'[p] \in {"thumb", "row"} /\ InHand(p)' = r
    PROVE  DanglingExplained'
  BY DEF DanglingExplained, Artefacts

LEMMA StepKeepsDangling == IInv /\ DanglingExplained /\ [Next]_vars => DanglingExplained'
<1> SUFFICES ASSUME TypeOK, DanglingExplained, [Next]_vars
             PROVE  DanglingExplained'
  BY DEF IInv
<1>1. failures \in Nat /\ crashes \in Nat
  BY DEF TypeOK
\* A step that takes no file, no pass past the clip and no row of its own.
<1>2. ASSUME UNCHANGED <<status, files, failures, crashes>>,
             \A p \in Passes : pc[p] \in {"thumb", "row"} => pc'[p] = pc[p] /\ todo'[p] = todo[p]
      PROVE  DanglingExplained'
  BY <1>2, StepKeepsWhole DEF Ready, InHand
<1>3. ASSUME NEW q \in Passes, NEW kind, NEW selected, NEW stage, StartPass(q, kind, selected, stage)
      PROVE  DanglingExplained'
  <2>1. \A p \in Passes : pc[p] \in {"thumb", "row"} => pc'[p] = pc[p] /\ todo'[p] = todo[p]
    BY <1>3 DEF StartPass, TypeOK
  <2> QED BY <1>2, <1>3, <2>1 DEF StartPass, rows, bounds
<1>4. ASSUME NEW q \in Passes,
             FinishPass(q) \/ ReadRow(q) \/ RowVanished(q) \/ StuckRaises(q)
      PROVE  DanglingExplained'
  <2>1. pc[q] \notin {"thumb", "row"} /\ UNCHANGED <<status, files, failures, crashes>>
    BY <1>4 DEF FinishPass, ReadRow, RowVanished, StuckRaises, rows, bounds
  <2>2. \A p \in Passes \ {q} : pc'[p] = pc[p] /\ todo'[p] = todo[p]
    BY <1>4 DEF FinishPass, ReadRow, RowVanished, StuckRaises, Drop, Advance, TypeOK
  <2> QED BY <1>2, <2>1, <2>2
<1>5. ASSUME NEW q \in Passes, RemoveClip(q) \/ RemoveThumb(q)
      PROVE  DanglingExplained'
  <2>1. /\ UNCHANGED <<status, todo, failures, crashes>>
        /\ \A r \in Recordings : r # InHand(q) => files'[r] = files[r]
        /\ pc'[q] \in {"thumb", "row"} /\ \A p \in Passes \ {q} : pc'[p] = pc[p]
    BY <1>5 DEF RemoveClip, RemoveThumb, RemoveFile, rows, bounds, TypeOK
  <2>2. \A p \in Passes : InHand(p)' = InHand(p)
    BY <2>1 DEF InHand
  <2>3. Ready' = Ready
    BY <2>1 DEF Ready
  <2>4. ASSUME NEW r \in Ready
        PROVE  \/ \E p \in Passes : pc'[p] \in {"thumb", "row"} /\ InHand(p)' = r
               \/ /\ files'[r] = files[r]
                  /\ \A p \in Passes : pc[p] \in {"thumb", "row"} /\ InHand(p) = r =>
                         pc'[p] \in {"thumb", "row"} /\ InHand(p)' = r
    BY <2>1, <2>2 DEF Ready
  <2> QED BY <2>1, <2>3, <2>4, StepKeepsWhole
<1>6. ASSUME NEW q \in Passes, DeleteRow(q)
      PROVE  DanglingExplained'
  <2>1. /\ UNCHANGED <<files, failures, crashes>>
        /\ \A p \in Passes \ {q} : pc'[p] = pc[p] /\ todo'[p] = todo[p]
    BY <1>6 DEF DeleteRow, Advance, bounds, TypeOK
  <2>2. \A p \in Passes \ {q} : InHand(p)' = InHand(p)
    BY <2>1 DEF InHand
  <2>3. \A r \in Ready' : r \in Ready /\ r # InHand(q)
    BY <1>6 DEF DeleteRow, TypeOK, Ready
  <2> QED BY <2>1, <2>2, <2>3, StepKeepsWhole
<1>7. ASSUME NEW q \in Passes, CallRaises(q)
      PROVE  DanglingExplained'
  BY <1>1, <1>7, StepKeepsWhole DEF CallRaises
<1>8. CASE CrashRestart
  BY <1>1, <1>8, StepKeepsWhole DEF CrashRestart
<1>9. ASSUME NEW r \in Recordings, StoreClip(r)
      PROVE  DanglingExplained'
  <2>1. /\ UNCHANGED <<pc, todo, failures, crashes>> /\ files'[r] = Artefacts
        /\ \A s \in Recordings \ {r} : files'[s] = files[s] /\ status'[s] = status[s]
    BY <1>9 DEF StoreClip, bounds, TypeOK
  <2>2. \A p \in Passes : InHand(p)' = InHand(p)
    BY <2>1 DEF InHand
  <2>3. \A s \in Ready' : s = r \/ (s \in Ready /\ files'[s] = files[s])
    BY <2>1 DEF Ready
  <2> QED BY <2>1, <2>2, <2>3, StepKeepsWhole
<1>10. CASE DeleteCamera
  <2>1. /\ UNCHANGED <<pc, todo, files, failures, crashes>>
        /\ \A s \in Recordings : status'[s] # "ready"
    BY <1>10 DEF DeleteCamera, bounds, TypeOK
  <2>2. Ready' = {}
    BY <2>1 DEF Ready
  <2> QED BY <2>1, <2>2, StepKeepsWhole
<1>11. CASE \/ \E r \in Recordings : Lock(r) \/ Unlock(r)
            \/ \E selection \in SUBSET Recordings : ChangeDue(selection)
            \/ \E to \in {"changed", "removed"} : ChangeStorage(to)
            \/ UNCHANGED vars
  <2>1. UNCHANGED <<status, files, pc, todo, failures, crashes>>
    BY <1>11 DEF Lock, Unlock, ChangeDue, ChangeStorage, vars, bounds
  <2> QED BY <1>2, <2>1
<1>12. "loop" \in Passes
  BY DEF Passes
<1> QED BY <1>3, <1>4, <1>5, <1>6, <1>7, <1>8, <1>9, <1>10, <1>11, <1>12
    DEF Next, PassNext, StartCleanup, StartGroupDelete, PressDelete

\* A clip the user sees has its files, unless a pass is deleting it now or a
\* deletion was cut short, for any number of recordings.
THEOREM NothingIsHalfDeleted == Spec => []DanglingExplained
<1>1. Init => DanglingExplained
  BY DEF Init, DanglingExplained, Ready
<1> QED BY <1>1, StepKeepsDangling, InductiveInvariant, PTL DEF Spec
=============================================================================
