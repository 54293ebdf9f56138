-------------------------- MODULE MCServices_proofs --------------------------
(***************************************************************************)
(* Proofs about the services beside the recorder, for whatever constants   *)
(* the assumptions of MCServices allow: packages, network accounts, users  *)
(* and sessions, cloud accounts, backups, the HomeKit bridge, the WebRTC   *)
(* gateway, health checks, preview images, the references of the tables    *)
(* and the program's start.  Every machine has an inductive invariant of   *)
(* its own, in its module; those of users and of health checks are shown   *)
(* in Accounts_proofs and HealthChecks_proofs.                             *)
(***************************************************************************)
EXTENDS MCServices, TLAPS, SequenceTheorems, FiniteSetTheorems

-----------------------------------------------------------------------------
(* Plugin packages.                                                        *)

PackageDirs == [version : P!Versions \cup {P!NoSha}, form : P!Forms]
PackageRows == [is : {"none", "there", "gone"}, sha : P!Shas \cup {P!NoSha}, update : BOOLEAN]
PackageSyncs == [at : {"idle", "pip", "resolve", "fetch", "fetched"},
                 sha : P!Shas \cup {P!NoSha}]
PackageChecks == [at : {"idle", "ask", "answered"}, installed : P!Shas \cup {P!NoSha},
                  sha : P!Shas \cup {P!NoSha}]

LEMMA PackageValues ==
    /\ P!Absent \in PackageDirs /\ P!Absent.form = "absent" /\ P!Absent.version = P!NoSha
    /\ \A v \in P!Versions :
           /\ P!Dir(v, "whole") \in PackageDirs
           /\ P!Dir(v, "whole").form = "whole" /\ P!Dir(v, "whole").version = v
    /\ P!NoSha \notin P!Shas /\ P!NoSha \notin P!Versions /\ P!Shas \subseteq P!Versions
    /\ P!Uploaded \in P!Versions /\ P!Uploaded \notin P!Shas
    /\ P!Unset \notin P!Versions /\ P!Nothing \notin P!Versions /\ P!NoSync \notin Syncs
    /\ 1 \in P!Shas
    /\ P!NoRow \in PackageRows /\ P!NoRow.sha = P!NoSha
    /\ P!Idle \in PackageSyncs /\ P!Idle.at = "idle"
    /\ P!NoCheck \in PackageChecks
BY PackagesAssumption DEF P!Absent, P!Dir, P!NoSha, P!Forms, P!Versions, P!Shas, P!Uploaded,
    P!Unset, P!Nothing, P!NoSync, P!NoRow, P!Idle, P!NoCheck, PackageDirs, PackageRows,
    PackageSyncs, PackageChecks

\* TypeOK in the terms above, and troubles counted.
LEMMA PackagesTyped ==
    P!TypeOK <=>
        /\ v1 \in Kinds /\ v2 \in PackageDirs /\ v3 \in PackageDirs
        /\ v4 \in P!Versions \cup {P!Unset, P!Nothing}
        /\ v5 \in {"idle", "clear", "aside", "move", "cleanup", "done"}
        /\ v6 \in P!Versions \cup {P!NoSha} /\ v7 \in Syncs \cup {P!NoSync}
        /\ v8 \in P!Shas /\ v9 \in PackageRows /\ v10 \in [Syncs -> PackageSyncs]
        /\ v11 \in PackageChecks /\ v12 \in BOOLEAN /\ v13 \in BOOLEAN
        /\ v14 \in 0 .. MaxTroubles
BY DEF P!TypeOK, PackageDirs, PackageRows, PackageSyncs, PackageChecks

LEMMA PackagesTypedNext ==
    ASSUME v1' \in Kinds, v2' \in PackageDirs, v3' \in PackageDirs,
           v4' \in P!Versions \cup {P!Unset, P!Nothing},
           v5' \in {"idle", "clear", "aside", "move", "cleanup", "done"},
           v6' \in P!Versions \cup {P!NoSha}, v7' \in Syncs \cup {P!NoSync},
           v8' \in P!Shas, v9' \in PackageRows, v10' \in [Syncs -> PackageSyncs],
           v11' \in PackageChecks, v12' \in BOOLEAN, v13' \in BOOLEAN,
           v14' \in 0 .. MaxTroubles
    PROVE  P!TypeOK'
BY DEF P!TypeOK, PackageDirs, PackageRows, PackageSyncs, PackageChecks

LEMMA PackagesInit == P!Init => P!IInv
<1> SUFFICES ASSUME P!Init PROVE P!IInv
  OBVIOUS
<1> USE PackageValues, TroublesAssumption DEF P!Init
<1>1. v10 \in [Syncs -> PackageSyncs] /\ \A s \in Syncs : v10[s].at = "idle"
  OBVIOUS
<1>2. P!TypeOK
  <2>1. v14 \in 0 .. MaxTroubles /\ v8 \in P!Shas
    OBVIOUS
  <2>2. v2 \in PackageDirs /\ v3 \in PackageDirs /\ v9 \in PackageRows /\ v11 \in PackageChecks
    OBVIOUS
  <2> QED BY <1>1, <2>1, <2>2, PackagesTyped
<1>3. P!InHand
  BY <1>1 DEF P!InHand
<1>4. P!Ordered /\ P!Kept
  BY DEF P!Ordered, P!Kept, P!Held
<1> QED BY <1>2, <1>3, <1>4 DEF P!IInv

\* The sources, the synchronisations up to the install and the update check leave
\* the package alone.
SourceMoves ==
    /\ UNCHANGED <<v1, v2, v3, v4, v5, v6, v7, v12>>
    /\ v8' \in P!Shas /\ v10' \in [Syncs -> PackageSyncs] /\ v11' \in PackageChecks
    /\ v9' \in PackageRows /\ v9'.sha \in {v9.sha, P!NoSha}
    /\ v9'.is # "there" => v9'.sha = P!NoSha \/ v9' = v9
    /\ \A s \in Syncs : \/ v10'[s].at \in {"idle", "pip", "resolve"}
                        \/ v10'[s].sha \in P!Shas
    /\ v13' \in BOOLEAN /\ (v14' = v14 \/ P!Trouble)

LEMMA SourceMovesKeep ==
    ASSUME P!IInv, SourceMoves
    PROVE  P!IInv'
<1> USE DEF P!IInv, SourceMoves
<1>1. v14 \in Nat /\ v14' \in 0 .. MaxTroubles /\ v14' >= v14
  BY TroublesAssumption, PackagesTyped DEF P!Trouble
<1>2. P!TypeOK'
  BY <1>1, PackagesTyped, PackagesTypedNext
<1>3. P!InHand'
  BY PackageValues DEF P!InHand, P!Dir
<1>4. P!Ordered'
  <2> SUFFICES ASSUME v14' = 0 PROVE P!Ordered'
    BY DEF P!Ordered, P!Undisturbed
  <2>1. v14 = 0
    BY <1>1
  <2> QED BY <2>1 DEF P!Ordered, P!Undisturbed, P!Held, P!Registered, P!Sound, P!Refused, P!Dir, P!Absent
<1>5. P!Kept'
  BY <1>1 DEF P!Kept, P!Held, P!LoopFree, P!InPlace
<1> QED BY <1>2, <1>3, <1>4, <1>5

\* What each of these steps writes.
LEMMA SyncsWritten ==
    ASSUME P!TypeOK, P!InHand, NEW s \in Syncs, NEW sync \in PackageSyncs,
           \/ sync.at \in {"idle", "pip", "resolve"}
           \/ sync.sha \in P!Shas,
           v10' = [v10 EXCEPT ![s] = sync]
    PROVE  /\ v10' \in [Syncs -> PackageSyncs]
           /\ \A t \in Syncs : \/ v10'[t].at \in {"idle", "pip", "resolve"}
                               \/ v10'[t].sha \in P!Shas
<1>1. v10 \in [Syncs -> PackageSyncs]
  BY PackagesTyped
<1>2. \A t \in Syncs : v10[t].at \in {"idle", "pip", "resolve"} \/ v10[t].sha \in P!Shas
  BY <1>1 DEF P!InHand, PackageSyncs
<1> QED BY <1>1, <1>2

LEMMA SyncsKept ==
    ASSUME P!TypeOK, P!InHand
    PROVE  /\ v10 \in [Syncs -> PackageSyncs]
           /\ \A s \in Syncs : \/ v10[s].at \in {"idle", "pip", "resolve"}
                               \/ v10[s].sha \in P!Shas
BY PackagesTyped DEF P!InHand, PackageSyncs

LEMMA SourceRows ==
    ASSUME P!TypeOK, P!IInv
    PROVE  /\ [P!NoRow EXCEPT !.is = "there"] \in PackageRows
           /\ [P!NoRow EXCEPT !.is = "there"].sha = P!NoSha
           /\ [P!NoRow EXCEPT !.is = "there"].is = "there"
           /\ [P!NoRow EXCEPT !.is = "gone"] \in PackageRows
           /\ [P!NoRow EXCEPT !.is = "gone"].sha = P!NoSha
           /\ \A flag \in BOOLEAN : /\ P!Flagged(flag) \in PackageRows
                                    /\ P!Flagged(flag).sha = v9.sha
                                    /\ P!Flagged(flag).is = v9.is
                                    /\ v9.is # "there" => P!Flagged(flag) = v9
<1>1. v9 \in PackageRows
  BY PackagesTyped
<1> QED BY <1>1, PackageValues DEF P!NoRow, P!Flagged, P!Registered, PackageRows

LEMMA SourceSteps ==
    ASSUME P!IInv,
           \/ P!Push \/ P!CreateSource \/ P!DeleteSource \/ P!BeginCheck \/ P!Answer
           \/ P!CheckFails \/ P!RecordCheck
    PROVE  SourceMoves
<1> USE DEF P!IInv, SourceMoves, P!SourceStep, P!installVars
<1>1. /\ v8 \in P!Shas /\ v11 \in PackageChecks /\ v9 \in PackageRows /\ v13 \in BOOLEAN
      /\ v10 \in [Syncs -> PackageSyncs]
  BY PackagesTyped
<1>2. CASE P!Push
  <2>1. v8' \in P!Shas
    BY <1>1, <1>2, PackagesAssumption DEF P!Push, P!Shas
  <2> QED BY <1>1, <1>2, <2>1, SyncsKept DEF P!Push
<1>3. CASE P!CreateSource \/ P!DeleteSource
  BY <1>1, <1>3, SyncsKept, SourceRows DEF P!CreateSource, P!DeleteSource
<1>4. CASE P!BeginCheck \/ P!Answer \/ P!CheckFails
  <2>1. v11' \in PackageChecks
    <3>1. CASE P!BeginCheck
      BY <1>1, <3>1 DEF P!BeginCheck, PackageChecks, PackageRows
    <3>2. CASE P!Answer
      <4>1. v11' = [at |-> "answered", installed |-> v11.installed, sha |-> v8]
        BY <1>1, <3>2 DEF P!Answer, PackageChecks
      <4> QED BY <1>1, <4>1 DEF PackageChecks
    <3>3. CASE P!CheckFails
      BY <3>3, PackageValues DEF P!CheckFails
    <3> QED BY <1>4, <3>1, <3>2, <3>3
  <2> QED BY <1>1, <1>4, <2>1, SyncsKept DEF P!BeginCheck, P!Answer, P!CheckFails
<1>5. CASE P!RecordCheck
  <2>1. P!UpdateAvailable \in BOOLEAN
    BY DEF P!UpdateAvailable
  <2> QED BY <1>1, <1>5, <2>1, SyncsKept, SourceRows, PackageValues DEF P!RecordCheck
<1> QED BY <1>2, <1>3, <1>4, <1>5

LEMMA SyncSteps ==
    ASSUME P!IInv, NEW s \in Syncs,
           \/ P!InstallStandardSource(s) \/ P!BeginSync(s) \/ P!ResolveSha(s)
           \/ P!FetchArchive(s) \/ P!FetchFails(s) \/ P!RefuseFetched(s)
           \/ P!BeginPip(s) \/ P!PipEnds(s)
    PROVE  SourceMoves
<1> USE DEF P!IInv, SourceMoves, P!SourceStep, P!installVars
<1>1. /\ v8 \in P!Shas /\ v11 \in PackageChecks /\ v9 \in PackageRows /\ v13 \in BOOLEAN
      /\ v10 \in [Syncs -> PackageSyncs] /\ v10[s] \in PackageSyncs
  BY PackagesTyped
<1>2. PICK sync \in PackageSyncs :
          /\ sync.at \in {"idle", "pip", "resolve"} \/ sync.sha \in P!Shas
          /\ v10' = [v10 EXCEPT ![s] = sync]
  <2>1. CASE P!InstallStandardSource(s) \/ P!BeginSync(s)
    BY <1>1, <2>1, PackageValues DEF P!InstallStandardSource, P!BeginSync, PackageSyncs
  <2>2. CASE P!ResolveSha(s)
    BY <1>1, <2>2 DEF P!ResolveSha, PackageSyncs
  <2>3. CASE P!FetchArchive(s)
    <3> DEFINE sync == [v10[s] EXCEPT !.at = "fetched"]
    <3>1. v10[s].sha \in P!Shas
      BY <2>3 DEF P!FetchArchive, P!InHand
    <3>2. sync \in PackageSyncs /\ sync.sha \in P!Shas
      BY <1>1, <3>1 DEF PackageSyncs
    <3>3. v10' = [v10 EXCEPT ![s] = sync]
      BY <1>1, <2>3 DEF P!FetchArchive
    <3> QED BY <3>2, <3>3
  <2>4. CASE P!FetchFails(s) \/ P!RefuseFetched(s)
    BY <1>1, <2>4, PackageValues DEF P!FetchFails, P!RefuseFetched, P!SyncOver
  <2>5. CASE P!BeginPip(s) \/ P!PipEnds(s)
    <3>1. PICK next \in {"pip", "resolve", "idle"} : v10' = [v10 EXCEPT ![s].at = next]
      BY <2>5 DEF P!BeginPip, P!PipEnds
    <3> DEFINE sync == [v10[s] EXCEPT !.at = next]
    <3>2. sync \in PackageSyncs /\ sync.at = next
      BY <1>1 DEF PackageSyncs
    <3>3. v10' = [v10 EXCEPT ![s] = sync]
      BY <1>1, <3>1
    <3> QED BY <3>2, <3>3
  <2> QED BY <2>1, <2>2, <2>3, <2>4, <2>5
<1>3. /\ v10' \in [Syncs -> PackageSyncs]
      /\ \A t \in Syncs : v10'[t].at \in {"idle", "pip", "resolve"} \/ v10'[t].sha \in P!Shas
  BY <1>2, SyncsWritten
<1> QED BY <1>1, <1>3, SourceRows DEF P!InstallStandardSource, P!BeginSync, P!ResolveSha,
    P!FetchArchive, P!FetchFails, P!RefuseFetched, P!BeginPip, P!PipEnds

\* Discovery, use and removal, between installs.
LEMMA ListKeeps == ASSUME P!IInv, P!ListModules PROVE P!IInv'
<1> USE DEF P!IInv, P!ListModules, P!sourceVars
<1>1. P!Loaded \in P!Versions =>
          /\ v3.form = "whole" \/ v2.form = "whole"
          /\ v3 = P!Absent => v2.form = "whole" /\ v2.version = P!Loaded
  BY PackageValues DEF P!Loaded, P!Discovered, P!Visible, P!VisibleTheme
<1>2. P!Loaded \in P!Versions \cup {P!Nothing}
  BY PackagesTyped, PackageValues DEF P!Loaded, P!Discovered, P!Nothing, P!NoSha, PackageDirs
<1>3. P!TypeOK'
  BY <1>2, PackagesTyped, PackagesTypedNext
<1>4. P!InHand'
  BY DEF P!InHand, P!LoopFree
<1>5. P!Ordered'
  <2> SUFFICES ASSUME v14' = 0 PROVE P!Ordered'
    BY DEF P!Ordered, P!Undisturbed
  <2>1. v14 = 0 /\ v5 = "idle" /\ v3 = P!Absent
    BY DEF P!Ordered, P!Undisturbed, P!LoopFree
  <2>2. v2 \in {P!Dir(v, "whole") : v \in P!Versions} \cup {P!Absent}
    BY <2>1 DEF P!Ordered, P!Undisturbed
  <2>3. v4' \in P!Versions => v2 = P!Dir(v4', "whole") /\ v2 # P!Absent
    BY <1>1, <2>1, <2>2, PackageValues
  <2> QED BY <2>1, <2>3 DEF P!Ordered, P!Undisturbed, P!Held, P!Registered, P!Sound, P!Refused, P!Dir, P!Absent
<1>6. P!Kept'
  BY <1>1 DEF P!Kept, P!Held, P!InPlace, P!LoopFree
<1> QED BY <1>3, <1>4, <1>5, <1>6

LEMMA UseKeeps == ASSUME P!IInv, P!StartUse \/ P!StopUse PROVE P!IInv'
<1> USE DEF P!IInv, P!StartUse, P!StopUse, P!sourceVars, P!installVars
<1>1. P!TypeOK'
  BY PackagesTyped, PackagesTypedNext
<1>2. P!InHand'
  BY DEF P!InHand, P!LoopFree
<1>3. P!Ordered'
  BY DEF P!Ordered, P!Undisturbed, P!LoopFree, P!Held, P!Registered, P!Sound, P!Refused, P!Dir, P!Absent
<1>4. P!Kept'
  BY DEF P!Kept, P!Held, P!InPlace, P!LoopFree
<1> QED BY <1>1, <1>2, <1>3, <1>4

LEMMA DeletePackageKeeps == ASSUME P!IInv, P!DeletePackage PROVE P!IInv'
<1>1. PICK k \in {"camera", "cloud", "network", "design"} : P!Delete(k)
  BY DEF P!DeletePackage, P!DeleteCameraModule, P!DeleteCloudModule, P!DeleteNetworkModule,
     P!DeleteDesignTheme
<1> USE <1>1 DEF P!IInv, P!Delete, P!sourceVars, P!UseBlocks
<1>2. P!TypeOK'
  BY PackagesTyped, PackagesTypedNext, PackageValues
<1>3. P!InHand'
  BY DEF P!InHand, P!LoopFree
<1>4. ~P!Held'
  BY PackageValues DEF P!Held
<1>5. P!Ordered'
  BY <1>4, PackageValues DEF P!Ordered, P!Undisturbed, P!LoopFree, P!Registered, P!Sound, P!Held
<1>6. P!Kept'
  BY <1>4 DEF P!Kept
<1> QED BY <1>2, <1>3, <1>5, <1>6

LEMMA RemnantsTyped ==
    ASSUME NEW d \in PackageDirs, NEW e \in P!Remnants(d)
    PROVE  e \in PackageDirs /\ (e = d \/ e.form \in {"shell", "rest"})
           /\ (d = P!Absent => e = P!Absent)
BY PackageValues DEF P!Remnants, P!Exists, P!Dir, P!Forms, PackageDirs

LEMMA DeleteRaisesKeeps == ASSUME P!IInv, P!DeleteRaises PROVE P!IInv'
<1> USE DEF P!IInv, P!DeleteRaises, P!sourceVars, P!UseBlocks, P!Trouble
<1>1. v2' \in PackageDirs /\ (v2' = v2 \/ v2'.form \in {"shell", "rest"})
  BY RemnantsTyped, PackagesTyped
<1>2. v14 \in Nat /\ v14' = v14 + 1 /\ v14' \in 0 .. MaxTroubles
  BY PackagesTyped, TroublesAssumption
<1>3. P!TypeOK'
  BY <1>1, <1>2, PackagesTyped, PackagesTypedNext
<1>4. P!InHand'
  BY DEF P!InHand, P!LoopFree
<1>5. P!Ordered'
  BY <1>2 DEF P!Ordered, P!Undisturbed
<1>6. P!Kept'
  BY <1>1, <1>2 DEF P!Kept, P!Held, P!InPlace, P!LoopFree
<1> QED BY <1>3, <1>4, <1>5, <1>6

\* An install begins with the upload or with what a synchronisation fetched.
LEMMA EnterKeeps ==
    ASSUME P!IInv, P!LoopFree, NEW v, NEW s, P!Enter(v, s),
           \/ s = P!NoSync /\ v = P!Uploaded
           \/ s \in Syncs /\ v \in P!Shas /\ P!Sound(v),
           UNCHANGED <<v1, v2, v3, v4, v8, v9, v10, v11, v12, v13, v14>>
    PROVE  P!IInv'
<1> USE DEF P!IInv, P!Enter, P!LoopFree
<1>1. P!TypeOK'
  BY PackagesTyped, PackagesTypedNext, PackageValues
<1>2. P!InHand'
  BY PackageValues DEF P!InHand
<1>3. P!Ordered'
  BY PackageValues DEF P!Ordered, P!Undisturbed, P!Held, P!Registered, P!Sound, P!Refused, P!Dir, P!Absent
<1>4. P!Kept'
  BY DEF P!Kept
<1> QED BY <1>1, <1>2, <1>3, <1>4

LEMMA ImportKeeps == ASSUME P!IInv, P!Import PROVE P!IInv'
<1>1. PICK k \in {"camera", "cloud", "network", "design"} : P!Upload(k)
  BY DEF P!Import, P!ImportCameraModule, P!ImportCloudModule, P!ImportNetworkModule,
     P!ImportDesignTheme
<1> QED BY <1>1, EnterKeeps DEF P!Upload, P!sourceVars

LEMMA InstallFetchedKeeps ==
    ASSUME P!IInv, NEW s \in Syncs, P!InstallFetched(s)
    PROVE  P!IInv'
<1>1. v10[s].sha \in P!Shas /\ P!Sound(v10[s].sha)
  BY DEF P!IInv, P!InHand, P!InstallFetched, P!Installable
<1> QED BY <1>1, EnterKeeps DEF P!InstallFetched, P!sourceVars

\* The four steps of the archive.
LEMMA ArchiveStepKeeps ==
    ASSUME P!IInv, P!ClearBackup \/ P!SetAside \/ P!MoveIn \/ P!RemoveBackup
    PROVE  P!IInv'
<1> USE PackageValues DEF P!IInv, P!StepTo, P!sourceVars, P!Exists
<1>1. CASE P!ClearBackup
  <2> USE <1>1 DEF P!ClearBackup
  <2>1. P!TypeOK'
    BY PackagesTyped, PackagesTypedNext
  <2>2. P!InHand'
    BY DEF P!InHand
  <2>3. P!Ordered'
    BY DEF P!Ordered, P!Undisturbed, P!Held, P!Registered, P!Sound, P!Refused, P!Dir, P!Absent
  <2>4. P!Kept'
    BY DEF P!Kept, P!LoopFree
  <2> QED BY <2>1, <2>2, <2>3, <2>4
<1>2. CASE P!SetAside
  <2> USE <1>2 DEF P!SetAside
  <2>1. P!TypeOK'
    BY PackagesTyped, PackagesTypedNext
  <2>2. P!InHand'
    BY DEF P!InHand
  <2>3. P!Ordered'
    <3> SUFFICES ASSUME v14' = 0 PROVE P!Ordered'
      BY DEF P!Ordered, P!Undisturbed
    <3>1. /\ {v2, v3} \subseteq {P!Dir(v, "whole") : v \in P!Versions} \cup {P!Absent}
          /\ v3 = P!Absent /\ (P!Held => v2 # P!Absent)
          /\ v6 \in P!Shas => P!Sound(v6)
          /\ ~P!Registered => v9.sha = P!NoSha
      BY DEF P!Ordered, P!Undisturbed
    <3>2. v3' = v2 /\ v2' = P!Absent /\ (P!Held' <=> P!Held)
      BY <3>1 DEF P!Held
    <3>3. (P!Sound(v6) => P!Sound(v6)') /\ v5' = "move" /\ P!NoSha \notin P!Shas
      BY DEF P!Sound, P!Refused
    <3>4. v2'.version \notin P!Shas /\ v9' = v9 /\ v6' = v6
      BY <3>2
    <3> QED BY <3>1, <3>2, <3>3, <3>4 DEF P!Ordered, P!Undisturbed, P!Registered
  <2>4. P!Kept'
    BY DEF P!Kept, P!LoopFree
  <2> QED BY <2>1, <2>2, <2>3, <2>4
<1>3. CASE P!MoveIn
  <2> USE <1>3 DEF P!MoveIn
  <2>a. v6 \in P!Versions
    BY DEF P!InHand
  <2>1. P!TypeOK'
    BY <2>a, PackagesTyped, PackagesTypedNext
  <2>2. P!InHand'
    BY DEF P!InHand, P!Dir
  <2>3. P!Ordered'
    <3> SUFFICES ASSUME v14' = 0 PROVE P!Ordered'
      BY DEF P!Ordered, P!Undisturbed
    <3>1. /\ v3 \in {P!Dir(v, "whole") : v \in P!Versions} \cup {P!Absent}
          /\ v6 \in P!Shas => P!Sound(v6)
          /\ ~P!Registered => v9.sha = P!NoSha
      BY DEF P!Ordered, P!Undisturbed
    <3>2. v2' = P!Dir(v6, "whole") /\ v2'.version = v6 /\ v5' = "cleanup" /\ v6' = v6
      BY <2>a
    <3>3. P!Sound(v6) => P!Sound(v6)'
      BY DEF P!Sound, P!Refused
    <3> QED BY <2>a, <3>1, <3>2, <3>3 DEF P!Ordered, P!Undisturbed, P!Registered, P!Dir
  <2>4. P!Kept'
    BY DEF P!Kept, P!LoopFree
  <2> QED BY <2>1, <2>2, <2>3, <2>4
<1>4. CASE P!RemoveBackup
  <2> USE <1>4 DEF P!RemoveBackup
  <2>1. P!TypeOK'
    BY PackagesTyped, PackagesTypedNext
  <2>2. P!InHand'
    BY DEF P!InHand, P!Dir
  <2>3. P!Ordered'
    BY DEF P!Ordered, P!Undisturbed, P!Held, P!Registered, P!Sound, P!Refused, P!Dir, P!Absent
  <2>4. P!Kept'
    BY DEF P!Kept, P!LoopFree
  <2> QED BY <2>1, <2>2, <2>3, <2>4
<1> QED BY <1>1, <1>2, <1>3, <1>4

LEMMA FinishKeeps == ASSUME P!IInv, P!FinishInstall PROVE P!IInv'
<1> USE PackageValues DEF P!IInv, P!FinishInstall, P!LeaveInstall
<1>1. /\ v2 = P!Dir(v6, "whole") /\ v2.version = v6 /\ v2.form = "whole" /\ v2 # P!Absent
      /\ v7 = P!NoSync => v6 = P!Uploaded
      /\ v7 # P!NoSync => v7 \in Syncs /\ v6 \in P!Shas
  BY PackagesTyped DEF P!InHand
<1>2. /\ v9' \in PackageRows
      /\ v9' = v9 \/ (v9.is = "there" /\ v9'.sha = v6 /\ v9'.is = "there")
      /\ v7 # P!NoSync => v9.is # "there" \/ v9'.sha = v6
  <2>1. v9 \in PackageRows
    BY PackagesTyped
  <2>2. CASE v7 # P!NoSync
    <3>1. v9' = P!Recorded(v6) /\ v6 \in P!Shas
      BY <1>1, <2>2
    <3>2. CASE v9.is = "there"
      <4>1. v9' = [v9 EXCEPT !.sha = v6, !.update = FALSE]
        BY <3>1, <3>2 DEF P!Recorded, P!Registered
      <4>2. v9' = [is |-> v9.is, sha |-> v6, update |-> FALSE]
        BY <2>1, <4>1 DEF PackageRows
      <4> QED BY <2>1, <3>1, <3>2, <4>2 DEF PackageRows
    <3>3. CASE v9.is # "there"
      BY <2>1, <3>1, <3>3 DEF P!Recorded, P!Registered
    <3> QED BY <3>2, <3>3
  <2>3. CASE v7 = P!NoSync
    BY <2>1, <2>3
  <2> QED BY <2>2, <2>3
<1>3. /\ v10' \in [Syncs -> PackageSyncs]
      /\ \A s \in Syncs : v10'[s].at \in {"fetch", "fetched"} => v10'[s].sha \in P!Shas
  BY <1>1, PackagesTyped DEF P!SyncOver, P!InHand
<1>4. P!TypeOK'
  BY <1>2, <1>3, PackagesTyped, PackagesTypedNext
<1>5. P!InHand'
  BY <1>3 DEF P!InHand
<1>6. P!Ordered'
  <2> SUFFICES ASSUME v14' = 0 PROVE P!Ordered'
    BY DEF P!Ordered, P!Undisturbed
  <2>1. /\ {v2, v3} \subseteq {P!Dir(v, "whole") : v \in P!Versions} \cup {P!Absent}
        /\ v3 = P!Absent
        /\ v6 \in P!Shas => P!Sound(v6)
        /\ ~P!Registered => v9.sha = P!NoSha
    BY DEF P!Ordered, P!Undisturbed
  <2>2. P!Sound(v6) => P!Sound(v2.version)'
    BY <1>1 DEF P!Sound, P!Refused
  <2>3. v2' = v2 /\ v3' = v3 /\ v5' = "idle" /\ v4' \notin P!Versions
    OBVIOUS
  <2>4. v2.version \in P!Shas /\ v9'.sha # P!NoSha => v2.version = v9'.sha
    BY <1>1, <1>2, <2>1 DEF P!Registered
  <2>5. ~P!Registered' => v9'.sha = P!NoSha
    BY <1>2, <2>1 DEF P!Registered
  <2> QED BY <1>1, <2>1, <2>2, <2>3, <2>4, <2>5 DEF P!Ordered, P!Undisturbed
<1>7. P!Kept'
  BY <1>1 DEF P!Kept, P!InPlace
<1> QED BY <1>4, <1>5, <1>6, <1>7

\* A call fails, or the process ends: until then the version that is used was
\* where Ordered says.
LEMMA FailureKeeps ==
    ASSUME P!IInv, P!InstallRaises \/ P!CrashRestart
    PROVE  P!IInv'
<1> USE PackageValues DEF P!IInv
<1>a. /\ v14 < MaxTroubles /\ v14' = v14 + 1 /\ v5' = "idle" /\ v6' = P!NoSha /\ v7' = P!NoSync
      /\ UNCHANGED <<v1, v8, v9, v12, v13>> /\ (v4' = v4 \/ v4' = P!Unset)
      /\ v11' = v11 \/ v11' = P!NoCheck
  BY DEF P!InstallRaises, P!CrashRestart, P!LeaveInstall, P!Trouble
<1>1. v14 \in Nat /\ v14' = v14 + 1 /\ v14' \in 0 .. MaxTroubles
  BY <1>a, PackagesTyped, TroublesAssumption
<1>2. /\ v2' \in PackageDirs /\ v3' \in PackageDirs
      /\ v3 = P!Absent /\ v2 # P!Absent => v2' = v2
      /\ v5 = "move" /\ v3.form = "whole" => v3 \in {v2', v3'}
      /\ v5 \in {"cleanup", "done"} => v2' = v2
  <2>1. v2 \in PackageDirs /\ v3 \in PackageDirs
    BY PackagesTyped
  <2>2. CASE P!InstallRaises
    <3>1. \/ v5 \in {"clear", "cleanup"} /\ v3' \in P!Remnants(v3) /\ v2' = v2
          \/ v5 = "aside" /\ v2' = v2 /\ v3' = v3
          \/ /\ v5 = "move" /\ v3' = P!Absent
             /\ v2' = IF P!Exists(v3) THEN v3 ELSE v2
      BY <2>2 DEF P!InstallRaises
    <3>2. v3' \in P!Remnants(v3) => v3' \in PackageDirs
      BY <2>1, RemnantsTyped
    <3>3. P!Exists(v3) <=> v3.form # "absent"
      BY DEF P!Exists
    <3> QED BY <2>1, <3>1, <3>2, <3>3
  <2>3. CASE P!CrashRestart
    BY <2>1, <2>3, RemnantsTyped DEF P!CrashRestart
  <2> QED BY <2>2, <2>3
<1>3. v10' \in [Syncs -> PackageSyncs] /\ P!InHand'
  <2>1. v10 \in [Syncs -> PackageSyncs]
    BY PackagesTyped
  <2>2. v5' = "idle"
    BY <1>a
  <2>3. v10' \in [Syncs -> PackageSyncs] /\ \A s \in Syncs : v10'[s] = v10[s] \/ v10'[s] = P!Idle
    BY <2>1 DEF P!SyncOver, P!InstallRaises, P!CrashRestart
  <2> QED BY <2>2, <2>3 DEF P!InHand
<1>4. P!TypeOK'
  BY <1>a, <1>1, <1>2, <1>3, PackagesTyped, PackagesTypedNext
<1>5. P!Ordered'
  BY <1>1 DEF P!Ordered, P!Undisturbed
<1>6. P!Kept'
  <2> SUFFICES ASSUME v14 = 0, P!Held', v2'.form \in {"whole", "absent"} PROVE P!InPlace'
    BY <1>1 DEF P!Kept
  <2>1. P!Held
    BY <1>a DEF P!Held
  <2>2. CASE v5 \in {"idle", "clear", "aside"}
    BY <1>2, <2>1, <2>2 DEF P!Ordered, P!Undisturbed, P!InPlace
  <2>3. CASE v5 = "move"
    BY <1>2, <2>1, <2>3 DEF P!Ordered, P!Undisturbed, P!InPlace
  <2>4. CASE v5 \in {"cleanup", "done"}
    BY <1>2, <2>4, PackagesTyped DEF P!InHand, P!InPlace
  <2> QED BY <2>2, <2>3, <2>4, PackagesTyped
<1> QED BY <1>3, <1>4, <1>5, <1>6

LEMMA PackagesStep == P!IInv /\ [P!Next]_P!vars => P!IInv'
<1> SUFFICES ASSUME P!IInv, [P!Next]_P!vars PROVE P!IInv'
  OBVIOUS
<1>1. CASE P!ListModules \/ P!StartUse \/ P!StopUse \/ P!DeletePackage \/ P!DeleteRaises
  BY <1>1, ListKeeps, UseKeeps, DeletePackageKeeps, DeleteRaisesKeeps
<1>2. CASE P!Import \/ P!InstallStep \/ P!InstallRaises \/ P!CrashRestart
  <2>1. P!InstallStep => P!ClearBackup \/ P!SetAside \/ P!MoveIn \/ P!RemoveBackup \/ P!FinishInstall
    BY DEF P!InstallStep, P!ArchiveStep, P!InstallCameraArchive, P!InstallCloudArchive,
           P!InstallNetworkArchive, P!InstallThemeArchive
  <2> QED BY <1>2, <2>1, ImportKeeps, ArchiveStepKeeps, FinishKeeps, FailureKeeps
<1>3. CASE P!Push \/ P!CreateSource \/ P!DeleteSource \/ P!BeginCheck \/ P!Answer
           \/ P!CheckFails \/ P!RecordCheck
  BY <1>3, SourceSteps, SourceMovesKeep
<1>4. ASSUME NEW s \in Syncs,
             \/ P!InstallStandardSource(s) \/ P!BeginSync(s) \/ P!ResolveSha(s)
             \/ P!FetchArchive(s) \/ P!FetchFails(s) \/ P!RefuseFetched(s)
             \/ P!BeginPip(s) \/ P!PipEnds(s)
      PROVE  P!IInv'
  BY <1>4, SyncSteps, SourceMovesKeep
<1>5. ASSUME NEW s \in Syncs, P!InstallFetched(s) PROVE P!IInv'
  BY <1>5, InstallFetchedKeeps
<1>6. CASE UNCHANGED P!vars
  <2>1. SourceMoves
    BY <1>6, SyncsKept, PackagesTyped DEF P!vars, P!installVars, P!sourceVars, P!IInv, SourceMoves
  <2> QED BY <2>1, SourceMovesKeep
<1> QED BY <1>1, <1>2, <1>3, <1>4, <1>5, <1>6 DEF P!Next

LEMMA PackagesHoldIfOrdered ==
    P!IInv => P!TypeOK /\ P!SourceNamesInstalled /\ P!PackageSurvives
<1> SUFFICES ASSUME P!IInv PROVE P!SourceNamesInstalled /\ P!PackageSurvives
  BY DEF P!IInv
<1>1. P!SourceNamesInstalled
  <2> SUFFICES ASSUME v14 = 0, v5 = "idle" PROVE P!SourceNamesInstalled
    BY DEF P!SourceNamesInstalled, P!Undisturbed, P!LoopFree
  <2> QED BY PackageValues DEF P!SourceNamesInstalled, P!IInv, P!Ordered, P!Undisturbed, P!Held
<1>2. P!PackageSurvives
  <2> SUFFICES ASSUME P!InPlace
               PROVE  IF P!Hidden THEN v2.form = "whole" ELSE P!Discovered.form = "whole"
    BY DEF P!PackageSurvives, P!IInv, P!Kept, P!Held
  <2>1. CASE v3.form = "whole"
    BY <2>1 DEF P!Hidden, P!Discovered, P!Visible, P!VisibleTheme
  <2>2. CASE v3.form # "whole"
    <3>1. v2.form = "whole"
      BY <2>2 DEF P!InPlace
    <3> QED BY <2>2, <3>1 DEF P!Hidden, P!Discovered, P!Visible, P!VisibleTheme
  <2> QED BY <2>1, <2>2
<1> QED BY <1>1, <1>2

-----------------------------------------------------------------------------
(* The WebRTC gateway.                                                     *)

LEMMA UriBounds ==
    /\ MaxUri \in Nat
    /\ 0 \in 0..MaxUri /\ 1 \in 1..MaxUri /\ 0 \in 0..4
    /\ \A n \in 0..4 : n < 4 => n + 1 \in 0..4 /\ n + 1 # 0
BY GatewayAssumption

LEMMA GatewayInit == G!Init => G!IInv
<1> SUFFICES ASSUME G!Init PROVE G!IInv
  OBVIOUS
<1>1. G!TypeOK
  <2>1. v5 \in [Saves -> [pc : {"idle", "process", "store"}, on : BOOLEAN]]
    BY DEF G!Init, G!Idle
  <2>2. v6 \in [Offers -> [pc : {"idle", "register", "exchange", "answered", "refused"},
                            uri : 0..MaxUri, answer : 0..MaxUri]]
    BY UriBounds DEF G!Init, G!NoOffer, G!NoSource
  <2> QED BY <2>1, <2>2, UriBounds DEF G!Init, G!TypeOK, G!NoProcess, G!NoSource, G!MaxStarts
<1>2. G!SettingMatches /\ G!Ordered
  BY DEF G!Init, G!SettingMatches, G!Ordered, G!Saving, G!Idle
<1> QED BY <1>1, <1>2 DEF G!IInv

LEMMA GatewayStep == G!IInv /\ [G!Next]_G!gatewayVars => G!IInv'
<1> SUFFICES ASSUME G!IInv, [G!Next]_G!gatewayVars PROVE G!IInv'
  OBVIOUS
<1> USE UriBounds DEF G!IInv, G!TypeOK, G!SettingMatches, G!Ordered, G!Saving, G!NoProcess, G!NoSource, G!MaxStarts
<1>1. CASE G!Dies
  <2>1. G!TypeOK'
    BY <1>1 DEF G!Dies, G!Trouble
  <2>2. G!SettingMatches' /\ G!Ordered'
    BY <1>1 DEF G!Dies, G!Trouble
  <2> QED BY <2>1, <2>2
<1>2. CASE G!Restart
  BY <1>2 DEF G!Restart, G!Trouble, G!Idle, G!NoOffer
<1>3. CASE G!BootStart
  <2>1. G!TypeOK'
    BY <1>3 DEF G!BootStart, G!Start, G!Trouble
  <2>2. G!SettingMatches' /\ G!Ordered'
    BY <1>3 DEF G!BootStart, G!Start, G!Trouble
  <2> QED BY <2>1, <2>2
<1>4. CASE G!NewUri
  BY <1>4 DEF G!NewUri
<1>5. ASSUME NEW s \in Saves, NEW on \in BOOLEAN, G!SaveBegins(s, on) PROVE G!IInv'
  BY <1>5 DEF G!SaveBegins
<1>6. ASSUME NEW s \in Saves, G!SwitchOn(s) PROVE G!IInv'
  <2>1. G!TypeOK'
    BY <1>6 DEF G!SwitchOn, G!Start
  <2>2. G!SettingMatches' /\ G!Ordered'
    BY <1>6 DEF G!SwitchOn, G!Start
  <2> QED BY <2>1, <2>2
<1>7. ASSUME NEW s \in Saves, G!SwitchOnFails(s) PROVE G!IInv'
  BY <1>7 DEF G!SwitchOnFails, G!Trouble
<1>8. ASSUME NEW s \in Saves, G!SwitchOff(s) PROVE G!IInv'
  <2>1. G!TypeOK'
    BY <1>8 DEF G!SwitchOff, G!Stop
  <2>2. G!SettingMatches' /\ G!Ordered'
    BY <1>8 DEF G!SwitchOff, G!Stop
  <2> QED BY <2>1, <2>2
<1>9. ASSUME NEW s \in Saves, G!Store(s) PROVE G!IInv'
  BY <1>9 DEF G!Store, G!Idle
<1>10. ASSUME NEW o \in Offers, G!OfferBegins(o) PROVE G!IInv'
  <2>1. G!TypeOK'
    BY <1>10 DEF G!OfferBegins
  <2>2. G!SettingMatches' /\ G!Ordered'
    BY <1>10 DEF G!OfferBegins
  <2> QED BY <2>1, <2>2
<1>11. ASSUME NEW o \in Offers, G!Register(o) PROVE G!IInv'
  BY <1>11 DEF G!Register
<1>12. ASSUME NEW o \in Offers, G!Exchange(o) PROVE G!IInv'
  <2> DEFINE half == [v6[o] EXCEPT !.pc = "answered"]
             answers == [pc : {"idle", "register", "exchange", "answered", "refused"},
                         uri : 0..MaxUri, answer : 0..MaxUri]
  <2>1. half \in answers /\ [v6[o] EXCEPT !.pc = "refused"] \in answers
    OBVIOUS
  <2>2. [v6[o] EXCEPT !.pc = "answered", !.answer = v8] = [half EXCEPT !.answer = v8]
    OBVIOUS
  <2> HIDE DEF half
  <2>3. [half EXCEPT !.answer = v8] \in answers
    BY <2>1
  <2>4. v6' \in [Offers -> answers]
    BY <1>12, <2>1, <2>2, <2>3 DEF G!Exchange
  <2> QED BY <1>12, <2>4 DEF G!Exchange
<1>13. CASE UNCHANGED G!gatewayVars
  BY <1>13 DEF G!gatewayVars
<1>14. ASSUME NEW s \in Saves, G!StoreFails(s) PROVE G!IInv'
  BY <1>14 DEF G!StoreFails, G!Trouble, G!Idle
<1> QED BY <1>1, <1>2, <1>3, <1>4, <1>5, <1>6, <1>7, <1>8, <1>9, <1>10, <1>11, <1>12, <1>13,
           <1>14 DEF G!Next

-----------------------------------------------------------------------------
(* Preview images and the HomeKit bridge.                                  *)

LEMMA VersionBounds ==
    /\ MaxEdits \in Nat
    /\ 0 \in 0 .. MaxEdits + 1 /\ 1 \in 1 .. MaxEdits + 1
    /\ \A n \in 1 .. MaxEdits + 1 : n \in 0 .. MaxEdits + 1
                                   /\ (n <= MaxEdits => n + 1 \in 1 .. MaxEdits + 1)
    /\ MaxTroubles \in Nat /\ 0 \in 0 .. MaxTroubles
    /\ \A n \in 0 .. MaxTroubles : n < MaxTroubles => n + 1 \in 0 .. MaxTroubles
BY ImagesAssumption, TroublesAssumption

LEMMA ImagesInit == I!Init => I!IInv
<1> SUFFICES ASSUME I!Init PROVE I!IInv
  OBVIOUS
<1>1. v5 \in [ImageCallers -> [at : {"idle", "queued", "thread", "capture"},
                          uri : 0 .. MaxEdits + 1]]
  BY VersionBounds DEF I!Init, I!Idle, I!NoUri
<1> QED BY <1>1, VersionBounds DEF I!Init, I!IInv, I!TypeOK, I!TakenWhenDue, I!OldImageExplained,
   I!Ordered, I!At, I!Idle, I!NoUri, I!NoImage

LEMMA ImagesStep == I!IInv /\ [I!Next]_I!snapshotVars => I!IInv'
<1> SUFFICES ASSUME I!IInv, [I!Next]_I!snapshotVars PROVE I!IInv'
  OBVIOUS
<1> USE VersionBounds DEF I!IInv, I!TypeOK, I!TakenWhenDue, I!OldImageExplained,
        I!Ordered, I!At, I!IsDue, I!NoUri, I!NoImage
<1>1. ASSUME NEW c \in ImageCallers, I!Ask(c) PROVE I!IInv'
  BY <1>1 DEF I!Ask
<1>2. CASE I!AskAny
  BY <1>1, <1>2 DEF I!AskAny, I!AskSnapshotLoop, I!AskDashboardCameraSnapshot,
     I!AskApiV1CameraSnapshot, I!AskGetCameraSnapshot
<1>3. ASSUME NEW c \in ImageCallers, I!Enter(c) PROVE I!IInv'
  BY <1>3 DEF I!Enter, I!Goes
<1>4. ASSUME NEW c \in ImageCallers, I!RefreshIfDue(c) PROVE I!IInv'
  BY <1>4 DEF I!RefreshIfDue, I!Goes, I!Done, I!Idle
<1>5. ASSUME NEW c \in ImageCallers, I!Capture(c) PROVE I!IInv'
  <2>1. \A d \in ImageCallers : v5'[d].at # "capture"
    BY <1>5 DEF I!Capture, I!Done, I!Idle
  <2>2. I!TypeOK'
    BY <1>5 DEF I!Capture, I!Done, I!Idle
  <2>3. I!TakenWhenDue'
    BY <2>1
  <2>4. I!OldImageExplained'
    BY <1>5 DEF I!Capture
  <2>5. I!Ordered'
    BY <1>5, <2>1 DEF I!Capture, I!Done, I!Idle
  <2> QED BY <2>2, <2>3, <2>4, <2>5
<1>6. ASSUME NEW c \in ImageCallers, I!CaptureFails(c) PROVE I!IInv'
  BY <1>6 DEF I!CaptureFails, I!Done, I!Idle, I!Trouble
<1>7. CASE I!Ages
  BY <1>7 DEF I!Ages
<1>a. \A c \in ImageCallers : v5[c].at # "idle" => I!AtWork
  BY DEF I!AtWork, I!Idle
<1>8. CASE I!UpdateCameraConnection
  BY <1>8, <1>a DEF I!UpdateCameraConnection
<1>9. CASE I!RemoveCamera
  BY <1>9, <1>a DEF I!RemoveCamera
<1>10. CASE I!Delete
  BY <1>10 DEF I!Delete
<1>11. CASE I!RefreshCamera
  BY <1>11 DEF I!RefreshCamera
<1>12. CASE I!Restart
  BY <1>12 DEF I!Restart, I!Trouble, I!Idle
<1>13. CASE UNCHANGED I!snapshotVars
  BY <1>13 DEF I!snapshotVars
<1> QED BY <1>2, <1>3, <1>4, <1>5, <1>6, <1>7, <1>8, <1>9, <1>10, <1>11, <1>12, <1>13
    DEF I!Next, I!Served

LEMMA ConfigServes == K!TypeOK => K!Config \in K!Configs /\ K!Serves(K!Config)
BY DEF K!TypeOK, K!Config, K!AccessoryIds, K!Unexposed, K!NoStream, K!Configs, K!Serves, K!Exposed

LEMMA NothingIsConfig == K!Nothing \in K!Configs /\ K!Nothing \in [KitCameras -> K!AccessoryIds]
BY DEF K!Nothing, K!Configs, K!AccessoryIds

KitPages == [pc : {"idle", "store", "select", "start", "forget"}, on : BOOLEAN,
             chosen : SUBSET KitCameras]

LEMMA PageMoves == \A form \in KitPages : [form EXCEPT !.pc = "start"] \in KitPages
BY DEF KitPages

LEMMA HomeKitInit == K!Init => K!IInv
<1> SUFFICES ASSUME K!Init PROVE K!IInv
  OBVIOUS
<1>1. K!Exposed = {}
  BY DEF K!Init, K!Exposed, K!Nothing
<1> QED BY <1>1, NothingIsConfig DEF K!Init, K!IInv, K!TypeOK, K!ShowsSelection, K!Ordered, K!Idle, K!Quiet

LEMMA HomeKitStep == K!IInv /\ [K!Next]_K!homekitVars => K!IInv'
<1> SUFFICES ASSUME K!IInv, [K!Next]_K!homekitVars PROVE K!IInv'
  OBVIOUS
<1>a. K!Nothing \in K!Configs
  BY NothingIsConfig
<1>b. K!Config \in K!Configs /\ K!Serves(K!Config)
  BY ConfigServes DEF K!IInv
<1> USE DEF K!IInv, K!TypeOK, K!ShowsSelection, K!Ordered, K!Serves, K!Exposed
<1>1. CASE K!Dies
  BY <1>1 DEF K!Dies
<1>2. CASE K!Pair
  BY <1>2 DEF K!Pair
<1>3. CASE K!Restart
  BY <1>3, <1>a DEF K!Restart, K!Quiet, K!Idle
<1>4. CASE K!BootRead
  BY <1>4, <1>b DEF K!BootRead
<1>5. CASE K!BootStart
  <2>1. v5' \in K!Configs /\ v6' \in BOOLEAN
    BY <1>5, <1>a DEF K!BootStart, K!Start
  <2>2. v7' = K!Quiet /\ UNCHANGED <<v1, v2, v3, v8, v9, v13>>
    BY <1>5 DEF K!BootStart
  <2>3. ~v9 => ~v6 /\ (v6' => v5' = v7.config /\ v3)
    BY <1>5 DEF K!BootStart, K!Start
  <2>4. ~v9 => K!Serves(v7.config)
    BY <1>5 DEF K!BootStart
  <2>5. K!TypeOK'
    BY <1>a, <2>1, <2>2 DEF K!Quiet
  <2>6. v7'.pc = "done" /\ (~v9 => v8.pc = "idle")
    BY <1>5, <2>2 DEF K!Quiet, K!BootStart
  <2>7. ~v9 /\ v6' => v3 /\ \A c \in v1 :
            v5'[c] = v2[c] \/ (v5'[c] = K!NoStream /\ v2[c] # K!Unexposed)
    BY <2>3, <2>4
  <2>8. K!ShowsSelection'
    BY <2>2, <2>7
  <2>9. K!Ordered'
    BY <2>2, <2>6
  <2> QED BY <2>5, <2>8, <2>9
<1>6. ASSUME NEW on \in BOOLEAN, NEW chosen \in SUBSET KitCameras, K!SaveBegins(on, chosen)
      PROVE  K!IInv'
  BY <1>6, <1>a DEF K!SaveBegins, K!Begin, K!Stop
<1>7. CASE K!StoreEnabled
  <2>1. ~v9 => ~v6 /\ v7.pc = "done"
    BY <1>7 DEF K!StoreEnabled
  <2> QED BY <1>7, <2>1 DEF K!StoreEnabled
<1>8. CASE K!StoreCameras
  <2>1. ~v9 => ~v6 /\ v7.pc = "done"
    BY <1>8 DEF K!StoreCameras
  <2>2. /\ v2' \in [KitCameras -> K!AccessoryIds]
        /\ \A c \in KitCameras : v2'[c] # K!Unexposed => c \in v1
    BY <1>8 DEF K!StoreCameras, K!NewAids, K!AccessoryIds
  <2>3. v8' \in KitPages
    <3>1. v8' = [v8 EXCEPT !.pc = "start"] \/ v8' = K!Idle
      BY <1>8 DEF K!StoreCameras
    <3>2. v8 \in KitPages
      BY DEF KitPages
    <3>3. K!Idle \in KitPages
      BY DEF KitPages, K!Idle
    <3> QED BY <3>1, <3>2, <3>3, PageMoves
  <2> QED BY <1>8, <2>1, <2>2, <2>3 DEF K!StoreCameras, KitPages
<1>9. CASE K!StoreFails
  <2>1. ~v9 => ~v6 /\ v7.pc = "done"
    BY <1>9 DEF K!StoreFails
  <2> QED BY <1>9, <2>1 DEF K!StoreFails, K!Idle
<1>10. CASE K!StartIfEnabled
  <2>1. v5' \in K!Configs /\ v6' \in BOOLEAN
    BY <1>10, <1>b DEF K!StartIfEnabled, K!Start
  <2>2. v8' = K!Idle /\ UNCHANGED <<v1, v2, v3, v7, v9, v13>>
    BY <1>10 DEF K!StartIfEnabled
  <2>3. ~v9 => v7.pc = "done" /\ ~v6 /\ (v6' => v5' = K!Config /\ v3)
    BY <1>10 DEF K!StartIfEnabled, K!Start
  <2> QED BY <1>b, <2>1, <2>2, <2>3 DEF K!Idle
<1>11. CASE K!StartFails
  BY <1>11, <1>a DEF K!StartFails, K!Idle
<1>12. CASE K!ResetBegins
  BY <1>12, <1>a DEF K!ResetBegins, K!Begin, K!Stop, K!Idle
<1>13. CASE K!ResetPairing
  BY <1>13 DEF K!ResetPairing
<1>14. ASSUME NEW c \in KitCameras, K!StreamChanges(c) PROVE K!IInv'
  BY <1>14 DEF K!StreamChanges
<1>15. ASSUME NEW c \in KitCameras, K!DeleteCamera(c) PROVE K!IInv'
  <2>1. /\ v2' \in [KitCameras -> K!AccessoryIds]
        /\ v2'[c] = K!Unexposed /\ \A d \in KitCameras \ {c} : v2'[d] = v2[d]
    BY <1>15 DEF K!DeleteCamera, K!AccessoryIds, K!Unexposed
  <2>2. v1' = v1 \ {c} /\ v13' = v13 \ {c} /\ UNCHANGED <<v3, v5, v6, v7, v8, v9>>
    BY <1>15 DEF K!DeleteCamera
  <2> QED BY <2>1, <2>2
<1>16. CASE UNCHANGED K!homekitVars
  BY <1>16 DEF K!homekitVars
<1> QED BY <1>1, <1>2, <1>3, <1>4, <1>5, <1>6, <1>7, <1>8, <1>9, <1>10, <1>11, <1>12, <1>13,
           <1>14, <1>15, <1>16
    DEF K!Next

-----------------------------------------------------------------------------
(* Cloud accounts.                                                         *)

Rows == [there : BOOLEAN, password : 0 .. MaxPassword, code : C!Codes,
         pending : BOOLEAN, tested : {"no", "ok", "error"}]

LEMMA CloudBounds ==
    /\ MaxPassword \in Nat /\ 0 \in 0 .. MaxPassword
    /\ \A n \in 0 .. MaxPassword : n < MaxPassword => n + 1 \in 0 .. MaxPassword /\ n + 1 # 0
    /\ MaxCameras \in Nat /\ 0 \in 0 .. MaxCameras
    /\ \A n \in 0 .. MaxCameras : n < MaxCameras => n + 1 \in 0 .. MaxCameras
BY CloudAssumption

\* What is stored of an account that is there, field by field; nothing is stored
\* of one that is gone.
LEMMA ConfiguredRow ==
    ASSUME C!TypeOK, NEW password \in 0 .. MaxPassword, NEW code \in C!Codes
    PROVE  LET new == C!Configured(password, code)
           IN  /\ new \in Rows /\ new.there = v1.there
               /\ v1.there => new.password = password
<1> DEFINE first == [v1 EXCEPT !.password = password]
           second == [first EXCEPT !.code = code]
<1>1. v1 \in Rows
  BY DEF C!TypeOK, Rows
<1>2. first \in Rows /\ first.there = v1.there /\ first.password = password
  BY <1>1 DEF Rows
<1>3. [v1 EXCEPT !.password = password, !.code = code, !.pending = FALSE]
      = [second EXCEPT !.pending = FALSE]
  BY <1>1 DEF Rows
<1> HIDE DEF first
<1>4. second \in Rows /\ second.there = v1.there /\ second.password = password
  BY <1>2 DEF Rows
<1> HIDE DEF second
<1>5. CASE v1.there
  <2>1. C!Configured(password, code) = [second EXCEPT !.pending = FALSE]
    BY <1>3, <1>5 DEF C!Configured
  <2> QED BY <2>1, <1>4, <1>5 DEF Rows
<1>6. CASE ~v1.there
  BY <1>1, <1>6 DEF C!Configured
<1> QED BY <1>5, <1>6

\* The end of an attempt changes nothing of a row but what a test found.
LEMMA TestedRow ==
    ASSUME NEW row \in Rows, NEW a \in Attempts, NEW result \in {"no", "ok", "error"}
    PROVE  LET new == C!Tested(row, a, result)
           IN  new \in Rows /\ new.there = row.there /\ new.password = row.password
BY DEF C!Tested, Rows

LEMMA CloudInit == C!Init => C!IInv
<1> SUFFICES ASSUME C!Init PROVE C!IInv
  OBVIOUS
<1>1. v1 \in Rows /\ ~v1.there
  BY CloudBounds DEF C!Init, C!NoAccount, Rows, C!Codes
<1>2. v2 \in [Attempts -> [for : C!Waiting, password : 0 .. MaxPassword, code : C!Codes]]
  BY CloudBounds DEF C!Init, C!NoAttempt, C!Waiting, C!Codes
<1>3. v3 \in [EditForms -> 0 .. MaxPassword]
  BY CloudBounds DEF C!Init, C!NoForm
<1> QED BY <1>1, <1>2, <1>3, CloudBounds
    DEF C!Init, C!IInv, C!TypeOK, C!EditSurvives, C!Ordered, Rows, C!NoForm

\* An attempt may end: it leaves the password and the presence of the row.
LEMMA EndsKeepsIInv ==
    ASSUME C!IInv, NEW a \in Attempts, NEW row \in Rows, C!Ends(a, row),
           row.there = v1.there, row.there => row.password = v1.password
    PROVE  C!IInv'
<1>1. C!NoAttempt \in [for : C!Waiting, password : 0 .. MaxPassword, code : C!Codes]
  BY CloudBounds DEF C!NoAttempt, C!Waiting, C!Codes
<1>2. C!TypeOK'
  BY <1>1 DEF C!IInv, C!TypeOK, C!Ends, Rows
<1> QED BY <1>2 DEF C!IInv, C!EditSurvives, C!Ordered, C!Ends

LEMMA CloudStep == C!IInv /\ [C!Next]_C!cloudVars => C!IInv'
<1> SUFFICES ASSUME C!IInv, [C!Next]_C!cloudVars PROVE C!IInv'
  OBVIOUS
<1>a. C!TypeOK /\ v1 \in Rows
  BY DEF C!IInv, C!TypeOK, Rows
<1>b. "" \in C!Codes /\ "code" \in C!Codes
  BY DEF C!Codes
<1>c. v1.password \in 0 .. MaxPassword
  BY <1>a DEF Rows
<1> USE CloudBounds DEF C!IInv, C!EditSurvives, C!Ordered
<1>1. CASE C!Create
  <2> DEFINE half == [C!NoAccount EXCEPT !.there = TRUE]
  <2>1. half \in Rows
    BY DEF C!NoAccount, Rows, C!Codes
  <2>2. [C!NoAccount EXCEPT !.there = TRUE, !.password = v5'] = [half EXCEPT !.password = v5']
    BY DEF C!NoAccount
  <2>3. v5' \in 0 .. MaxPassword /\ v5 \in 0 .. MaxPassword /\ v5' = v5 + 1
    BY <1>1 DEF C!Create, C!NewPassword, C!TypeOK
  <2> HIDE DEF half
  <2>4. v1' \in Rows /\ v1'.password = v5'
    BY <2>1, <2>2, <2>3, <1>1 DEF C!Create, Rows
  <2>5. \A f \in EditForms : v3[f] = C!NoForm
    BY <1>1 DEF C!Create, C!NoForm
  <2> QED BY <2>3, <2>4, <2>5, <1>1 DEF C!Create, C!TypeOK, Rows
<1>2. CASE C!Delete
  <2>1. C!NoAccount \in Rows /\ ~C!NoAccount.there
    BY DEF C!NoAccount, Rows, C!Codes
  <2> QED BY <2>1, <1>2 DEF C!Delete, C!TypeOK, Rows
<1>3. ASSUME NEW f \in EditForms, C!OpenForm(f) PROVE C!IInv'
  BY <1>3, <1>c DEF C!OpenForm, C!Begun, C!TypeOK
<1>4. ASSUME NEW f \in EditForms, NEW code \in C!Codes, C!SaveKeeping(f, code) PROVE C!IInv'
  <2>1. v3[f] \in 0 .. MaxPassword /\ v3[f] = v4
    BY <1>4 DEF C!SaveKeeping, C!TypeOK
  <2>2. v1' \in Rows /\ (v1'.there => v1'.password = v4)
    BY <2>1, <1>a, <1>4, ConfiguredRow DEF C!SaveKeeping
  <2> QED BY <2>2, <1>4 DEF C!SaveKeeping, C!TypeOK, Rows, C!NoForm
<1>5. ASSUME NEW f \in EditForms, NEW code \in C!Codes, C!SaveChanging(f, code) PROVE C!IInv'
  <2>1. v5' \in 0 .. MaxPassword /\ v4' = v5'
    BY <1>5 DEF C!SaveChanging, C!NewPassword, C!TypeOK
  <2>2. v1' \in Rows /\ (v1'.there => v1'.password = v4')
    BY <2>1, <1>a, <1>5, ConfiguredRow DEF C!SaveChanging
  <2>3. \A g \in EditForms : v3'[g] = C!NoForm
    BY <1>5, CloudAssumption DEF C!SaveChanging, C!TypeOK
  <2> QED BY <2>1, <2>2, <2>3, <1>5 DEF C!SaveChanging, C!TypeOK, Rows, C!NoForm
<1>6. ASSUME NEW a \in Attempts, NEW for \in {"test", "devices"}, C!BeginAttempt(a, for)
      PROVE  C!IInv'
  <2>1. v1.code \in C!Codes
    BY <1>a DEF Rows
  <2> QED BY <2>1, <1>6, <1>c DEF C!BeginAttempt, C!Begun, C!TypeOK, C!Waiting
<1>7. ASSUME NEW a \in Attempts, C!SubmitCode(a) PROVE C!IInv'
  <2>1. v1' \in Rows /\ (v1'.there => v1'.password = v1.password) /\ v1'.there = v1.there
    BY <1>a, <1>b, <1>c, <1>7, ConfiguredRow DEF C!SubmitCode
  <2> QED BY <2>1, <1>7, <1>b, <1>c DEF C!SubmitCode, C!Begun, C!TypeOK, C!Waiting, Rows
<1>d. ASSUME NEW a \in Attempts
      PROVE  /\ C!Cleared(a) \in Rows /\ C!Cleared(a).there = v1.there
             /\ v1.there => C!Cleared(a).password = v1.password
  BY <1>a, <1>b, <1>c, ConfiguredRow DEF C!Cleared
<1>8. ASSUME NEW a \in Attempts, C!AttemptSucceeds(a) PROVE C!IInv'
  BY <1>8, <1>d, TestedRow, EndsKeepsIInv DEF C!AttemptSucceeds
<1>9. ASSUME NEW a \in Attempts, C!AttemptRefused(a) PROVE C!IInv'
  BY <1>9, <1>d, TestedRow, EndsKeepsIInv DEF C!AttemptRefused
<1>10. ASSUME NEW a \in Attempts, C!AttemptBreaks(a) PROVE C!IInv'
  BY <1>10, <1>a, TestedRow, EndsKeepsIInv DEF C!AttemptBreaks
<1>11. ASSUME NEW a \in Attempts, C!CodeDemanded(a) PROVE C!IInv'
  <2> DEFINE row == IF v1.there THEN [v1 EXCEPT !.pending = TRUE] ELSE v1
  <2>1. row \in Rows /\ row.there = v1.there /\ row.password = v1.password
    BY <1>a DEF Rows
  <2> HIDE DEF row
  <2>2. C!Ends(a, C!Tested(row, a, "error"))
    BY <1>11 DEF C!CodeDemanded, row
  <2> QED BY <2>1, <2>2, TestedRow, EndsKeepsIInv
<1>12. CASE C!Import
  BY <1>12 DEF C!Import, C!TypeOK
<1>13. CASE UNCHANGED C!cloudVars
  BY <1>13 DEF C!cloudVars, C!TypeOK
<1> QED BY <1>1, <1>2, <1>3, <1>4, <1>5, <1>6, <1>7, <1>8, <1>9, <1>10, <1>11, <1>12, <1>13
    DEF C!Next, C!TestAccount, C!ListDevices

-----------------------------------------------------------------------------
(* The program's start, and its secrets.                                   *)

LEMMA TextBounds ==
    MaxText \in Nat /\ 0 \in 0..MaxText /\ 1 \in 0..MaxText /\ 1..MaxText \subseteq 0..MaxText
BY StartupAssumption

\* A text without a layer, and one with one layer more or one less.
LEMMA SecretsWritten ==
    ASSUME NEW k \in Keys
    PROVE  /\ \A text \in 0..MaxText : D!Plain(text) \in D!Secrets
           /\ \A value \in D!Secrets :
                  LET new == [value EXCEPT !.layers = Append(@, k)]
                  IN  /\ new \in D!Secrets
                      /\ new.text = value.text /\ new.layers = Append(value.layers, k)
           /\ \A value \in D!Secrets : D!Decrypted(value, k) \in D!Secrets
<1>1. \A text \in 0..MaxText : D!Plain(text) \in D!Secrets
  BY DEF D!Plain, D!Secrets
<1>2. ASSUME NEW value \in D!Secrets
      PROVE  LET new == [value EXCEPT !.layers = Append(@, k)]
             IN  /\ new \in D!Secrets
                 /\ new.text = value.text /\ new.layers = Append(value.layers, k)
  <2>1. Append(value.layers, k) \in Seq(Keys)
    BY AppendProperties DEF D!Secrets
  <2> QED BY <2>1 DEF D!Secrets
<1>3. ASSUME NEW value \in D!Secrets PROVE D!Decrypted(value, k) \in D!Secrets
  <2>1. CASE value.layers # <<>> /\ D!Last(value.layers) = k
    <3>1. value.layers \in Seq(Keys) /\ value.text \in 0..MaxText
      BY DEF D!Secrets
    <3>2. D!Front(value.layers) \in Seq(Keys)
      BY <3>1, <2>1, SubSeqProperties, EmptySeq, LenProperties DEF D!Front
    <3> QED BY <2>1, <3>1, <3>2 DEF D!Decrypted, D!Secrets
  <2>2. CASE ~(value.layers # <<>> /\ D!Last(value.layers) = k)
    BY <2>2 DEF D!Decrypted
  <2> QED BY <2>1, <2>2
<1> QED BY <1>1, <1>2, <1>3

LEMMA EncryptedSecret ==
    ASSUME v7 \in Keys, NEW value \in D!Secrets
    PROVE  /\ D!Encrypted(value) \in D!Secrets
           /\ D!Encrypted(value).text = value.text
           /\ value.layers = <<>> => D!Encrypted(value).layers \in {<<>>, <<v7>>}
           /\ value.text # 0 => D!Encrypted(value).layers # <<>>
<1>1. CASE value.text = 0
  BY <1>1 DEF D!Encrypted
<1>2. CASE value.text # 0
  <2> DEFINE new == [value EXCEPT !.layers = Append(@, v7)]
  <2>1. new \in D!Secrets /\ new.text = value.text /\ new.layers = Append(value.layers, v7)
    BY SecretsWritten
  <2>2. D!Encrypted(value) = new
    BY <1>2 DEF D!Encrypted
  <2> HIDE DEF new
  <2>3. value.layers \in Seq(Keys)
    BY DEF D!Secrets
  <2>4. Len(Append(value.layers, v7)) # 0
    BY <2>3, AppendProperties, LenProperties
  <2>5. Append(value.layers, v7) # <<>>
    BY <2>4, EmptySeq
  <2>6. Append(<<>>, v7) = <<v7>>
    OBVIOUS
  <2> QED BY <2>1, <2>2, <2>5, <2>6
<1> QED BY <1>1, <1>2

\* What is stored is what should be read, with at most the layer of the key it
\* was stored with, which that key takes off.
LEMMA ReadableIfOrdered == D!IInv => D!SecretReadable
<1> SUFFICES ASSUME D!IInv, ~v13, v11 # 0 PROVE D!Decrypted(v9, v12) = D!Plain(v11)
  BY DEF D!SecretReadable
<1>1. v9 \in D!Secrets /\ v9.text = v11 /\ v9.layers \in {<<>>, <<v12>>}
  BY DEF D!IInv, D!TypeOK, D!Ordered
<1>2. CASE v9.layers = <<>>
  <2>1. v9 = [layers |-> <<>>, text |-> v11]
    BY <1>1, <1>2 DEF D!Secrets
  <2> QED BY <1>2, <2>1 DEF D!Decrypted, D!Plain
<1>3. CASE v9.layers = <<v12>>
  <2>1. D!Last(<<v12>>) = v12
    BY DEF D!Last
  <2>2. D!Front(<<v12>>) = <<>>
    BY SubSeqEmpty DEF D!Front
  <2>3. <<v12>> # <<>>
    OBVIOUS
  <2> QED BY <1>1, <1>3, <2>1, <2>2, <2>3 DEF D!Decrypted, D!Plain
<1> QED BY <1>1, <1>2, <1>3

LEMMA StartupInit == D!Init => D!IInv
<1> SUFFICES ASSUME D!Init PROVE D!IInv
  OBVIOUS
<1>1. v9 \in {D!Plain(0), D!Plain(1)} /\ v7 \in Keys
  BY DEF D!Init
<1>2. v9 \in D!Secrets /\ v9.layers = <<>>
  BY <1>1, SecretsWritten, TextBounds DEF D!Plain
<1>3. Len(Migrations) \in Nat /\ DOMAIN Migrations = 1..Len(Migrations)
  BY StartupAssumption, LenProperties
<1>4. v3 \subseteq D!ToSet(Migrations)
  BY <1>3 DEF D!Init, D!ToSet
<1>5. v1 = "down" /\ v2 \in BOOLEAN /\ v5 \in {D!None, "default", "set"}
      /\ v6 \subseteq {"default", "other"} /\ v8 \in D!Fields /\ v10 = <<>>
      /\ v11 = v9.text /\ v12 = v7 /\ v13 = FALSE /\ v4 = 1
  BY DEF D!Init
<1>6. v11 \in 0..MaxText
  BY <1>2, <1>5 DEF D!Secrets
<1>7. v4 \in 1..(Len(Migrations) + 1)
  BY <1>3, <1>5
<1> QED BY <1>1, <1>2, <1>4, <1>5, <1>6, <1>7
    DEF D!IInv, D!TypeOK, D!StartsComplete, D!NothingPlain, D!Ordered

\* A secret is written by a program that runs, with a layer where one belongs.
LEMMA WriteKeepsIInv ==
    ASSUME D!IInv, v1 = "running", NEW value \in D!Secrets, NEW encrypted,
           D!Write(value, encrypted),
           \/ encrypted = D!Encrypted(value)
           \/ encrypted = value /\ v8 \notin {"camera", "page", "cloud"},
           v10' \in {v10, <<>>}
    PROVE  D!IInv'
<1>1. v7 \in Keys /\ encrypted \in D!Secrets /\ encrypted.text = value.text
      /\ (value.layers = <<>> => encrypted.layers \in {<<>>, <<v7>>})
      /\ (v8 \in {"camera", "page", "cloud"} => value.text = 0 \/ encrypted.layers # <<>>)
  BY EncryptedSecret DEF D!IInv, D!TypeOK
<1>2. /\ v1' = v1 /\ v2' = v2 /\ v3' = v3 /\ v4' = v4 /\ v5' = v5 /\ v6' = v6 /\ v7' = v7
      /\ v8' = v8 /\ v9' = encrypted
  BY DEF D!Write, D!database
<1>3. /\ v13' = (value.layers # <<>>)
      /\ value.layers # <<>> => v11' = v11 /\ v12' = v12
      /\ value.layers = <<>> => v11' = value.text /\ v12' = v7
  BY DEF D!Write, D!IsEncrypted
<1>4. value.text \in 0..MaxText
  BY DEF D!Secrets
<1>5. v11' \in 0..MaxText /\ v12' \in Keys /\ v13' \in BOOLEAN
  BY <1>1, <1>3, <1>4 DEF D!IInv, D!TypeOK
<1>6. D!TypeOK'
  BY <1>1, <1>2, <1>5 DEF D!IInv, D!TypeOK
<1>7. D!StartsComplete'
  BY <1>2 DEF D!IInv, D!StartsComplete
<1>8. D!NothingPlain'
  BY <1>1, <1>2 DEF D!NothingPlain, D!IsEncrypted
<1>9. D!Ordered'
  BY <1>1, <1>2, <1>3 DEF D!IInv, D!Ordered
<1> QED BY <1>6, <1>7, <1>8, <1>9 DEF D!IInv

LEMMA StartupStep == D!IInv /\ [D!Next]_D!vars => D!IInv'
<1> SUFFICES ASSUME D!IInv, [D!Next]_D!vars PROVE D!IInv'
  OBVIOUS
<1>a. /\ Len(Migrations) \in Nat /\ DOMAIN Migrations = 1..Len(Migrations)
      /\ InSchema \subseteq D!ToSet(Migrations)
      /\ D!ToSet(Migrations) = {Migrations[i] : i \in 1..Len(Migrations)}
  BY StartupAssumption, LenProperties DEF D!ToSet
<1>b. v7 \in Keys /\ v9 \in D!Secrets /\ (v10 = <<>> \/ v10[1] \in D!Secrets)
  BY DEF D!IInv, D!TypeOK
<1>c. \A text \in 0..MaxText : D!Plain(text) \in D!Secrets
  BY <1>b, SecretsWritten
<1>d. D!Decrypted(v9, v7) \in D!Secrets
  BY <1>b, SecretsWritten
<1> USE DEF D!IInv, D!TypeOK, D!StartsComplete, D!NothingPlain, D!Ordered
<1>1. CASE D!Begin
  BY <1>1, <1>a DEF D!Begin, D!database, D!secret
<1>2. CASE D!CreateTables
  <2>1. D!TypeOK'
    BY <1>2, <1>a DEF D!CreateTables, D!secret
  <2>2. D!Ordered'
    BY <1>2 DEF D!CreateTables, D!secret
  <2> QED BY <1>2, <2>1, <2>2 DEF D!CreateTables, D!secret
<1>3. CASE D!AddColumn
  BY <1>3, <1>a DEF D!AddColumn, D!secret
<1>4. CASE D!InsertDefaults
  BY <1>4, <1>a DEF D!InsertDefaults, D!secret, D!None
<1>5. CASE D!EncryptPlaintext
  <2>1. CASE v8 \in {"camera", "page", "cloud"} /\ v9.layers = <<>>
    BY <1>5, <1>b, <2>1, EncryptedSecret DEF D!EncryptPlaintext, D!Upgraded, D!IsEncrypted, D!database
  <2>2. CASE ~(v8 \in {"camera", "page", "cloud"} /\ v9.layers = <<>>)
    BY <1>5, <2>2 DEF D!EncryptPlaintext, D!Upgraded, D!IsEncrypted, D!database
  <2> QED BY <2>1, <2>2
<1>6. CASE D!Stop
  BY <1>6 DEF D!Stop, D!database, D!secret
<1>7. ASSUME NEW k \in Keys, D!ChangeKey(k) PROVE D!IInv'
  BY <1>7 DEF D!ChangeKey, D!database, D!secret
<1>8. CASE D!SaveSettings
  BY <1>8 DEF D!SaveSettings, D!secret, D!None
<1>9. ASSUME NEW to \in SUBSET {"default", "other"}, D!SaveTargets(to) PROVE D!IInv'
  BY <1>9 DEF D!SaveTargets, D!secret
<1>10. ASSUME NEW text \in 1..MaxText, D!SaveCamera(text) \/ D!CreateTarget(text)
       PROVE  D!IInv'
  <2>1. D!Plain(text) \in D!Secrets
    BY <1>c, TextBounds
  <2> QED BY <1>10, <2>1, WriteKeepsIInv DEF D!SaveCamera, D!CreateTarget
<1>11. CASE D!ShowPage
  <2>1. <<D!Decrypted(v9, v7)>>[1] = D!Decrypted(v9, v7)
    OBVIOUS
  <2> QED BY <1>11, <1>d, <2>1 DEF D!ShowPage, D!database
<1>12. ASSUME NEW text \in 0..MaxText, D!Posted(text) PROVE D!IInv'
  <2> DEFINE value == IF text = 0 THEN v10[1] ELSE D!Plain(text)
  <2>1. value \in D!Secrets
    BY <1>b, <1>c, <1>12 DEF D!Posted
  <2>2. v1 = "running" /\ D!Write(value, D!Encrypted(value)) /\ v10' = <<>>
    BY <1>12 DEF D!Posted
  <2> QED BY <2>1, <2>2, WriteKeepsIInv
<1>13. ASSUME NEW text \in 0..MaxText, D!SaveCloudAccount(text) \/ D!SaveNetworkAccount(text)
       PROVE  D!IInv'
  <2> DEFINE value == IF text = 0 THEN D!Decrypted(v9, v7) ELSE D!Plain(text)
  <2>1. value \in D!Secrets
    BY <1>c, <1>d
  <2>2. v1 = "running" /\ D!Write(value, D!Encrypted(value)) /\ v10' = v10
    BY <1>13 DEF D!SaveCloudAccount, D!SaveNetworkAccount, D!Sensitive
  <2> QED BY <2>1, <2>2, WriteKeepsIInv
<1>14. CASE D!ClearFields
  <2> DEFINE value == D!Decrypted(v9, v7)
  <2>1. v1 = "running" /\ D!Write(value, D!Sensitive(value, FALSE)) /\ v10' = v10
    BY <1>14 DEF D!ClearFields
  <2>2. \/ D!Sensitive(value, FALSE) = D!Encrypted(value)
        \/ D!Sensitive(value, FALSE) = value /\ v8 \notin {"camera", "page", "cloud"}
    BY DEF D!Sensitive
  <2> QED BY <1>d, <2>1, <2>2, WriteKeepsIInv
<1>15. CASE UNCHANGED D!vars
  BY <1>15 DEF D!vars, D!database, D!secret
<1> QED BY <1>1, <1>2, <1>3, <1>4, <1>5, <1>6, <1>7, <1>8, <1>9, <1>10, <1>11, <1>12, <1>13,
    <1>14, <1>15 DEF D!Next, D!SaveTarget, D!SaveMqtt

-----------------------------------------------------------------------------
(* Backups.                                                                *)

LEMMA BackupBounds ==
    /\ MaxVersion \in Nat /\ MaxStamps \in Nat /\ MaxTroubles \in Nat
    /\ 1 \in 1 .. MaxVersion /\ B!Mixed \in B!Contents /\ B!Mixed # 0
    /\ 0 \in B!Contents /\ 0 \in 0 .. MaxStamps /\ 0 \in 0 .. MaxTroubles
    /\ \A n \in 1 .. MaxVersion : n \in B!Contents /\ n # 0
    /\ \A n \in 1 .. MaxVersion : n < MaxVersion => n + 1 \in 1 .. MaxVersion
    /\ \A n \in 0 .. MaxStamps : n < MaxStamps =>
           n + 1 \in 0 .. MaxStamps /\ n + 1 \in 1 .. MaxStamps /\ n + 1 # 0
    /\ \A n \in 0 .. MaxTroubles : n < MaxTroubles => n + 1 \in 0 .. MaxTroubles
BY BackupsAssumption, TroublesAssumption DEF B!Contents, B!Mixed

Archives == [n : 0 .. MaxStamps, content : B!Contents]
Files == [n : 1 .. MaxStamps, content : B!Contents]
Runs == {"idle", "snapshot", "write", "prune", "copy"}

\* db v1, wal v2, latest v3, bak v4, restore v5, before v6, files v7, stamp v8,
\* writer v9, run v10, external v11, due v12, troubles v13, spoiled v14
LEMMA BackupsInit == B!Init => B!IInv
<1> SUFFICES ASSUME B!Init PROVE B!IInv
  OBVIOUS
<1>1. v9 \in [B!Writers -> Archives]
  BY BackupBounds DEF B!Init, B!NoArchive, B!Archive, B!None, Archives
<1>2. v5 \in [at : {"idle", "bak", "tmp", "wal"}, of : B!Contents]
  BY BackupBounds DEF B!Init, B!NoRestore, B!None
<1>3. B!TypeOK
  BY <1>1, <1>2, BackupBounds DEF B!Init, B!TypeOK, B!None, Archives
<1>4. "schedule" \in B!Writers /\ \A w \in B!Writers : v9[w] = B!NoArchive
  BY DEF B!Init, B!Writers
<1>5. v5.at = "idle"
  BY DEF B!Init, B!NoRestore
<1>6. B!UndoOrdered /\ B!RestoreUndone
  BY <1>5 DEF B!Init, B!UndoOrdered, B!RestoreUndone, B!Partial, B!None
<1>7. B!RunOrdered
  BY <1>4 DEF B!Init, B!RunOrdered
<1> QED BY <1>3, <1>6, <1>7 DEF B!IInv

\* The files of the restore do not concern the archives, and the other way round.
LEMMA RunUndisturbed ==
    ASSUME B!RunOrdered, v7' = v7, v8' = v8, v9' = v9,
           \/ v10' = v10 /\ v14' = v14
           \/ v10 # "write" /\ v10' \notin {"write", "prune"}
    PROVE  B!RunOrdered'
BY DEF B!RunOrdered, B!Newest, B!Complete, B!Unfinished
LEMMA UndoUndisturbed ==
    ASSUME B!UndoOrdered, B!RestoreUndone, v1' = v1, v4' = v4, v5' = v5, v6' = v6
    PROVE  B!UndoOrdered' /\ B!RestoreUndone'
BY DEF B!UndoOrdered, B!RestoreUndone

\* A commit, of whatever thread, leaves what .bak is to hold, or holds.
LEMMA LeavesKeeps ==
    ASSUME B!UndoOrdered, B!RestoreUndone, NEW content, content # B!Partial, B!Leaves(content),
           v5.at \in {"idle", "bak", "tmp", "wal"}, v4' = v4, v5' = v5
    PROVE  B!UndoOrdered' /\ B!RestoreUndone'
<1>1. v1' = content /\ v6' = (IF v5.at = "bak" THEN content ELSE v6)
  BY DEF B!Leaves
<1>2. CASE v5.at = "bak"
  BY <1>1, <1>2 DEF B!UndoOrdered, B!RestoreUndone
<1>3. CASE v5.at # "bak"
  <2>1. v6' = v6 /\ v6 \in {B!None, v4}
    BY <1>1, <1>3 DEF B!UndoOrdered
  <2>2. B!RestoreUndone'
    BY <2>1 DEF B!RestoreUndone
  <2>3. B!UndoOrdered'
    BY <1>1, <1>3, <2>1 DEF B!UndoOrdered
  <2> QED BY <2>2, <2>3
<1> QED BY <1>2, <1>3

LEMMA OpenedContent ==
    B!TypeOK /\ B!UndoOrdered => B!Opened \in B!Contents /\ B!Opened # B!Partial
BY BackupBounds DEF B!TypeOK, B!UndoOrdered, B!Opened, B!Partial

LEMMA BackupTypes ==
    ASSUME B!IInv
    PROVE  /\ v7 \cup v11 \subseteq Files /\ v9 \in [B!Writers -> Archives] /\ v8 \in 0 .. MaxStamps
           /\ "page" \in B!Writers /\ "schedule" \in B!Writers
           /\ \A w \in B!Writers : w = "page" \/ w = "schedule"
           /\ \A w \in B!Writers : v9[w].n \in 0 .. v8
           /\ \A f \in v7 : f.n \in 1 .. v8
<1>1. /\ v7 \cup v11 \subseteq Files /\ v9 \in [B!Writers -> Archives] /\ v8 \in 0 .. MaxStamps
      /\ "page" \in B!Writers /\ "schedule" \in B!Writers
      /\ \A w \in B!Writers : w = "page" \/ w = "schedule"
  BY DEF B!IInv, B!TypeOK, Files, Archives, B!Writers
<1>2. ASSUME NEW w \in B!Writers PROVE v9[w].n \in 0 .. v8
  <2>1. CASE v9[w] = B!NoArchive
    BY <1>1, <2>1, BackupBounds DEF B!NoArchive, B!Archive
  <2>2. CASE v9[w] # B!NoArchive
    BY <1>1, <2>2, BackupBounds DEF B!IInv, B!RunOrdered
  <2> QED BY <2>1, <2>2
<1>3. ASSUME NEW f \in v7 PROVE f.n \in 1 .. v8
  <2>1. f.n \in 1 .. MaxStamps
    BY <1>1 DEF Files
  <2> QED BY <1>1, <2>1, BackupBounds DEF B!IInv, B!RunOrdered
<1> QED BY <1>1, <1>2, <1>3

\* A snapshot is begun: the newest file, of a content.
LEMMA BeginKeeps ==
    ASSUME B!IInv, NEW w \in B!Writers, B!BeginArchive(w),
           w = "page" => v10' = v10, w = "schedule" => v10 = "snapshot" /\ v10' = "write"
    PROVE  B!IInv'
<1> DEFINE new == B!Archive(v8 + 1, B!Partial)
           mine == B!Archive(v8 + 1, B!Opened)
<1>a. B!TypeOK /\ B!UndoOrdered /\ B!RestoreUndone /\ B!RunOrdered
  BY DEF B!IInv
<1>b. B!Opened \in B!Contents /\ B!Opened # B!Partial
  BY <1>a, OpenedContent
<1>c. B!UndoOrdered' /\ B!RestoreUndone'
  <2>1. B!Leaves(B!Opened) /\ v4' = v4 /\ v5' = v5
    BY DEF B!BeginArchive
  <2>2. v5.at \in {"idle", "bak", "tmp", "wal"}
    BY <1>a DEF B!TypeOK
  <2> QED BY <1>a, <1>b, <2>1, <2>2, LeavesKeeps
<1>1. /\ v8 \in 0 .. MaxStamps /\ v8 + 1 \in 1 .. MaxStamps /\ v8 + 1 \in 0 .. MaxStamps
      /\ v8' = v8 + 1
      /\ v7' = v7 \cup {new} /\ v9' = [v9 EXCEPT ![w] = mine] /\ v9[w] = B!NoArchive
      /\ v1' = B!Opened /\ v2' = B!Opened /\ v3' = v3 /\ v4' = v4 /\ v5' = v5
      /\ v6' \in {v6, B!Opened}
      /\ v11' = v11 /\ v12' = v12 /\ v13' = v13 /\ v14' = v14
  BY <1>a, BackupBounds DEF B!BeginArchive, B!Leaves, B!TypeOK
<1>2. v7 \subseteq Files /\ v9 \in [B!Writers -> Archives] /\ v10 \in Runs
  BY <1>a DEF B!TypeOK, Files, Archives, Runs
<1>3. new \in Files /\ new.n = v8 + 1 /\ new.content = B!Partial
  BY <1>1, BackupBounds DEF Files, B!Archive, B!Partial
<1>4. mine \in Archives /\ mine.n = v8 + 1 /\ mine.content = B!Opened /\ mine # B!NoArchive
  BY <1>1, <1>b, BackupBounds DEF Archives, B!Archive, B!NoArchive, B!None
<1> HIDE DEF new, mine
<1>9. "page" \in B!Writers /\ "schedule" \in B!Writers /\ w \in {"page", "schedule"}
  BY DEF B!Writers
<1>5. B!TypeOK'
  <2>1. v7' \cup v11' \subseteq [n : 1 .. MaxStamps, content : B!Contents]
    BY <1>1, <1>3, <1>a DEF B!TypeOK, Files
  <2>2. v9' \in [B!Writers -> Archives]
    BY <1>1, <1>2, <1>4
  <2>3. v10' \in Runs
    BY <1>2, <1>9 DEF Runs
  <2> QED BY <1>1, <1>a, <1>b, <2>1, <2>2, <2>3 DEF B!TypeOK, Archives, Runs
<1>6. /\ \A f \in v7 : f.n \in 1 .. v8
      /\ \A u \in B!Writers : v9[u].n \in 0 .. v8
  BY BackupTypes
<1>7. B!NoArchive.n = 0
  BY DEF B!NoArchive, B!Archive
<1>10. \A f \in v7' : f.n <= v8'
  BY <1>1, <1>3, <1>6
<1>11. \A u \in B!Writers : v9'[u] # B!NoArchive =>
           v9'[u].content # B!Partial /\ v9'[u].n \in 1 .. v8'
  BY <1>1, <1>2, <1>4, <1>a, <1>b DEF B!RunOrdered
<1>12. CASE w = "page"
  <2>1. v9'["page"] = mine /\ v9'["schedule"] = v9["schedule"] /\ v10' = v10
    BY <1>1, <1>2, <1>9, <1>12
  <2>2. new = B!Unfinished("page")'
    BY <2>1, <1>4, <1>1 DEF new, B!Unfinished
  <2>3. v9'["schedule"] # B!NoArchive <=> v10' = "write"
    BY <2>1, <1>a DEF B!RunOrdered
  <2>4. v10' = "write" => /\ B!Unfinished("schedule")' \in v7'
                          /\ v9'["page"].n # v9'["schedule"].n
    BY <2>1, <1>1, <1>4, <1>6, <1>9, <1>a DEF B!RunOrdered, B!Unfinished
  <2>5. ASSUME NEW f \in B!Complete(v7), B!Newest(f)
        PROVE  f \in B!Complete(v7') /\ B!Newest(f)'
    <3>1. f \in v7 /\ f.n \in 1 .. v8 /\ f \in B!Complete(v7')
      BY <1>1, <1>6 DEF B!Complete
    <3>2. \A g \in v7 : ~(g.n > f.n)
      <4> SUFFICES ASSUME NEW g \in v7, g.n > f.n PROVE FALSE
        OBVIOUS
      <4>1. g.n = 0
        BY <2>5, <1>1, <1>7, <1>12 DEF B!Newest, B!Unfinished, B!Archive
      <4> QED BY <4>1, <1>6
    <3>3. B!Newest(f)'
      BY <3>2, <2>2, <1>1 DEF B!Newest
    <3> QED BY <3>1, <3>3
  <2>6. v10' = "prune" /\ ~v14' => \E f \in B!Complete(v7') : B!Newest(f)'
    BY <2>1, <2>5, <1>1, <1>a DEF B!RunOrdered
  <2>7. B!RunOrdered'
    BY <2>3, <2>4, <2>6, <1>10, <1>11 DEF B!RunOrdered
  <2> QED BY <1>5, <1>c, <2>7 DEF B!IInv
<1>13. CASE w = "schedule"
  <2>1. v9'["schedule"] = mine /\ v9'["page"] = v9["page"] /\ v10' = "write"
    BY <1>1, <1>2, <1>9, <1>13
  <2>2. B!Unfinished("schedule")' = new
    BY <2>1, <1>4, <1>1 DEF new, B!Unfinished
  <2>3. v9'["page"].n # v9'["schedule"].n
    BY <2>1, <1>1, <1>4, <1>6, <1>9
  <2>4. B!RunOrdered'
    BY <2>1, <2>2, <2>3, <1>1, <1>4, <1>10, <1>11 DEF B!RunOrdered
  <2> QED BY <1>5, <1>c, <2>4 DEF B!IInv
<1> QED BY <1>9, <1>12, <1>13

\* What is known of the files when one of them is stamped anew.
LEMMA BecomesFacts ==
    ASSUME B!IInv, NEW w \in B!Writers, NEW content \in B!Contents,
           B!Becomes(w, B!Archive(v8 + 1, content))
    PROVE  /\ v8' = v8 + 1 /\ v8 + 1 \in 1 .. MaxStamps /\ v8 + 1 \in 0 .. MaxStamps
           /\ v9[w] # B!NoArchive
           /\ v7' \subseteq Files
           /\ \A f \in v7' : f.n <= v8'
           /\ B!Unfinished(w) \in v7 => B!Archive(v8 + 1, content) \in v7'
           /\ \A f \in v7' : \/ f = B!Archive(v8 + 1, content) /\ B!Unfinished(w) \in v7
                             \/ f \in v7 /\ f # B!Unfinished(w)
           /\ \A f \in v7 : f # B!Unfinished(w) => f \in v7'
           /\ v1' = v1 /\ v2' = v2 /\ v3' = v3 /\ v4' = v4 /\ v5' = v5 /\ v6' = v6
           /\ v11' = v11 /\ v12' = v12 /\ v13' = v13
<1> DEFINE a == B!Archive(v8 + 1, content)
           part == B!Unfinished(w)
<1>1. /\ v8 < MaxStamps /\ v8' = v8 + 1 /\ v9[w] # B!NoArchive
      /\ v7' = IF part \in v7 THEN (v7 \ {part}) \cup {a} ELSE v7
      /\ v1' = v1 /\ v2' = v2 /\ v3' = v3 /\ v4' = v4 /\ v5' = v5 /\ v6' = v6
      /\ v11' = v11 /\ v12' = v12 /\ v13' = v13
  BY DEF B!Becomes
<1>2. /\ v7 \subseteq Files /\ v8 \in 0 .. MaxStamps
      /\ \A f \in v7 : f.n \in 1 .. v8
  BY BackupTypes
<1>3. v8 + 1 \in 1 .. MaxStamps /\ v8 + 1 \in 0 .. MaxStamps
  BY <1>1, <1>2, BackupBounds
<1>4. a \in Files /\ a.n = v8 + 1
  BY <1>3 DEF Files, B!Archive
<1> HIDE DEF a, part
<1>5. v7' \subseteq Files
  BY <1>1, <1>2, <1>4
<1>6. \A f \in v7' : f.n <= v8'
  BY <1>1, <1>2, <1>4
<1>7. /\ part \in v7 => a \in v7'
      /\ \A f \in v7' : \/ f = a /\ part \in v7
                        \/ f \in v7 /\ f # part
      /\ \A f \in v7 : f # part => f \in v7'
  BY <1>1
<1> QED BY <1>1, <1>3, <1>5, <1>6, <1>7 DEF a, part

\* A complete archive stays, and stays the newest but for the page's.
LEMMA PageBecomes ==
    ASSUME B!IInv, NEW content \in B!Contents, B!Becomes("page", B!Archive(v8 + 1, content)),
           NEW f \in B!Complete(v7), B!Newest(f)
    PROVE  /\ f \in B!Complete(v7')
           /\ \A g \in v7' : g.n > f.n =>
                  g = B!Archive(v8 + 1, content) /\ B!Unfinished("page") \in v7
<1>1. "page" \in B!Writers
  BY BackupTypes
<1>2. f \in v7 /\ f.content # B!Partial /\ f # B!Unfinished("page")
  BY DEF B!Complete, B!Unfinished, B!Archive
<1>3. f \in B!Complete(v7')
  BY <1>1, <1>2, BecomesFacts DEF B!Complete
<1>4. ASSUME NEW g \in v7', g.n > f.n
      PROVE  g = B!Archive(v8 + 1, content) /\ B!Unfinished("page") \in v7
  <2>1. g \in v7 => g = B!Unfinished("page")
    BY <1>4 DEF B!Newest
  <2>2. \/ g = B!Archive(v8 + 1, content) /\ B!Unfinished("page") \in v7
        \/ g \in v7 /\ g # B!Unfinished("page")
    BY <1>1, <1>4, BecomesFacts
  <2> QED BY <2>1, <2>2
<1> QED BY <1>3, <1>4

LEMMA WriteKeeps == ASSUME B!IInv, NEW w \in B!Writers, B!WriteSome(w) PROVE B!IInv'
<1> DEFINE a == B!Archive(v8 + 1, B!Partial)
           mine == B!Archive(v8 + 1, v9[w].content)
<1>1. /\ B!Becomes(w, a) /\ v9' = [v9 EXCEPT ![w] = mine] /\ v10' = v10 /\ v14' = v14
  BY DEF B!WriteSome
<1>2. B!Partial \in B!Contents
  BY BackupBounds DEF B!Partial
<1>3. /\ v8' = v8 + 1 /\ v8 + 1 \in 1 .. MaxStamps /\ v8 + 1 \in 0 .. MaxStamps
      /\ v9[w] # B!NoArchive
      /\ v7' \subseteq Files /\ \A f \in v7' : f.n <= v8'
      /\ B!Unfinished(w) \in v7 => a \in v7'
      /\ \A f \in v7 : f # B!Unfinished(w) => f \in v7'
      /\ v1' = v1 /\ v2' = v2 /\ v3' = v3 /\ v4' = v4 /\ v5' = v5 /\ v6' = v6
      /\ v11' = v11 /\ v12' = v12 /\ v13' = v13
  BY <1>1, <1>2, BecomesFacts
<1>4. /\ v7 \cup v11 \subseteq Files /\ v9 \in [B!Writers -> Archives] /\ v8 \in 0 .. MaxStamps
      /\ "page" \in B!Writers /\ "schedule" \in B!Writers /\ (w = "page" \/ w = "schedule")
      /\ \A u \in B!Writers : v9[u].n \in 0 .. v8
  BY BackupTypes
<1>5. B!TypeOK /\ B!UndoOrdered /\ B!RestoreUndone /\ B!RunOrdered
  BY DEF B!IInv
<1>6. /\ mine \in Archives /\ mine.n = v8 + 1 /\ mine.content = v9[w].content
      /\ mine # B!NoArchive /\ mine.content # B!Partial
  BY <1>3, <1>4, <1>5, BackupBounds DEF Archives, B!Archive, B!NoArchive, B!RunOrdered
<1> HIDE DEF mine
<1>7. B!TypeOK'
  BY <1>1, <1>3, <1>4, <1>5, <1>6 DEF B!TypeOK, Files, Archives
<1>8. /\ v9'[w] = mine /\ \A u \in B!Writers : u # w => v9'[u] = v9[u]
  BY <1>1, <1>4
<1>9. \A u \in B!Writers : v9'[u] # B!NoArchive =>
          v9'[u].content # B!Partial /\ v9'[u].n \in 1 .. v8'
  BY <1>3, <1>4, <1>5, <1>6, <1>8 DEF B!RunOrdered
<1>10. v9'["schedule"] # B!NoArchive <=> v10' = "write"
  BY <1>1, <1>3, <1>4, <1>5, <1>6, <1>8 DEF B!RunOrdered
<1>11. B!Unfinished(w)' = a
  BY <1>6, <1>8 DEF B!Unfinished
<1>12. v10' = "write" => /\ B!Unfinished("schedule")' \in v7'
                         /\ v9'["page"].n # v9'["schedule"].n
  <2> SUFFICES ASSUME v10 = "write"
               PROVE  /\ B!Unfinished("schedule")' \in v7'
                      /\ v9'["page"].n # v9'["schedule"].n
    BY <1>1
  <2>1. B!Unfinished("schedule") \in v7 /\ v9["page"].n # v9["schedule"].n
    BY <1>5 DEF B!RunOrdered
  <2>2. CASE w = "schedule"
    BY <1>3, <1>4, <1>6, <1>8, <1>11, <2>1, <2>2
  <2>3. CASE w = "page"
    <3>1. B!Unfinished("schedule") # B!Unfinished("page")
      BY <2>1 DEF B!Unfinished, B!Archive
    <3>2. B!Unfinished("schedule")' = B!Unfinished("schedule")
      BY <1>4, <1>8, <2>3 DEF B!Unfinished
    <3> QED BY <1>3, <1>4, <1>6, <1>8, <2>1, <2>3, <3>1, <3>2
  <2> QED BY <1>4, <2>2, <2>3
<1>13. v10' = "prune" /\ ~v14' => \E f \in B!Complete(v7') : B!Newest(f)'
  <2> SUFFICES ASSUME v10 = "prune", ~v14 PROVE \E f \in B!Complete(v7') : B!Newest(f)'
    BY <1>1
  <2>1. PICK f \in B!Complete(v7) : B!Newest(f)
    BY <1>5 DEF B!RunOrdered
  <2>2. w = "page"
    BY <1>3, <1>4, <1>5 DEF B!RunOrdered
  <2>3. f \in B!Complete(v7') /\ \A g \in v7' : g.n > f.n => g = a
    BY <1>1, <1>2, <2>1, <2>2, PageBecomes
  <2> QED BY <1>11, <2>2, <2>3 DEF B!Newest
<1>14. B!RunOrdered'
  BY <1>3, <1>9, <1>10, <1>12, <1>13 DEF B!RunOrdered
<1> QED BY <1>3, <1>5, <1>7, <1>14, UndoUndisturbed DEF B!IInv

LEMMA EndKeeps == ASSUME B!IInv, NEW w \in B!Writers, B!EndArchive(w) PROVE B!IInv'
<1> DEFINE content == v9[w].content
           a == B!Archive(v8 + 1, content)
<1>1. /\ B!Becomes(w, a) /\ v9' = [v9 EXCEPT ![w] = B!NoArchive] /\ v14' = v14
      /\ v10' = IF w = "schedule" THEN "prune" ELSE v10
  BY DEF B!EndArchive
<1>4. /\ v7 \cup v11 \subseteq Files /\ v9 \in [B!Writers -> Archives] /\ v8 \in 0 .. MaxStamps
      /\ "page" \in B!Writers /\ "schedule" \in B!Writers /\ (w = "page" \/ w = "schedule")
      /\ \A u \in B!Writers : v9[u].n \in 0 .. v8
  BY BackupTypes
<1>2. content \in B!Contents
  BY <1>4 DEF Archives
<1> HIDE DEF content
<1>3. /\ v8' = v8 + 1 /\ v8 + 1 \in 1 .. MaxStamps /\ v8 + 1 \in 0 .. MaxStamps
      /\ v9[w] # B!NoArchive
      /\ v7' \subseteq Files /\ \A f \in v7' : f.n <= v8'
      /\ B!Unfinished(w) \in v7 => a \in v7'
      /\ \A f \in v7 : f # B!Unfinished(w) => f \in v7'
      /\ v1' = v1 /\ v2' = v2 /\ v3' = v3 /\ v4' = v4 /\ v5' = v5 /\ v6' = v6
      /\ v11' = v11 /\ v12' = v12 /\ v13' = v13
  BY <1>1, <1>2, BecomesFacts
<1>5. B!TypeOK /\ B!UndoOrdered /\ B!RestoreUndone /\ B!RunOrdered
  BY DEF B!IInv
<1>6. content # B!Partial /\ a.n = v8 + 1 /\ a.content = content
  BY <1>3, <1>5 DEF B!RunOrdered, B!Archive, content
<1> HIDE DEF a
<1>15. B!NoArchive \in Archives /\ B!NoArchive.n = 0
  BY BackupBounds DEF B!NoArchive, B!Archive, B!None, Archives
<1>7. B!TypeOK'
  <2>1. v9' \in [B!Writers -> Archives] /\ v10' \in Runs
    BY <1>1, <1>4, <1>5, <1>15 DEF B!TypeOK, Runs
  <2> QED BY <1>1, <1>3, <1>4, <1>5, <2>1 DEF B!TypeOK, Files, Archives, Runs
<1>8. /\ v9'[w] = B!NoArchive /\ \A u \in B!Writers : u # w => v9'[u] = v9[u]
  BY <1>1, <1>4
<1>9. \A u \in B!Writers : v9'[u] # B!NoArchive =>
          v9'[u].content # B!Partial /\ v9'[u].n \in 1 .. v8'
  BY <1>3, <1>4, <1>5, <1>8 DEF B!RunOrdered
<1>10. v9'["schedule"] # B!NoArchive <=> v10' = "write"
  BY <1>1, <1>4, <1>5, <1>8 DEF B!RunOrdered
<1>12. v10' = "write" => /\ B!Unfinished("schedule")' \in v7'
                         /\ v9'["page"].n # v9'["schedule"].n
  <2> SUFFICES ASSUME v10' = "write"
               PROVE  /\ B!Unfinished("schedule")' \in v7'
                      /\ v9'["page"].n # v9'["schedule"].n
    OBVIOUS
  <2>1. w = "page" /\ v10 = "write"
    BY <1>1, <1>4
  <2>2. B!Unfinished("schedule") \in v7 /\ v9["page"].n # v9["schedule"].n
    BY <1>5, <2>1 DEF B!RunOrdered
  <2>3. B!Unfinished("schedule") # B!Unfinished("page")
    BY <2>2 DEF B!Unfinished, B!Archive
  <2>4. B!Unfinished("schedule")' = B!Unfinished("schedule")
    BY <1>4, <1>8, <2>1 DEF B!Unfinished
  <2>5. v9["schedule"].n \in 1 .. v8
    BY <1>4, <1>5, <2>1 DEF B!RunOrdered
  <2> QED BY <1>3, <1>4, <1>8, <1>15, <2>1, <2>2, <2>3, <2>4, <2>5
<1>13. v10' = "prune" /\ ~v14' => \E f \in B!Complete(v7') : B!Newest(f)'
  <2> SUFFICES ASSUME v10' = "prune", ~v14' PROVE \E f \in B!Complete(v7') : B!Newest(f)'
    OBVIOUS
  <2>1. ASSUME a \in v7' PROVE \E f \in B!Complete(v7') : B!Newest(f)'
    <3>1. PICK f \in v7' : f = a
      BY <2>1
    <3>2. f \in B!Complete(v7')
      BY <1>6, <3>1 DEF B!Complete
    <3>3. \A g \in v7' : ~(g.n > f.n)
      <4>1. \A g \in v7' : g.n \in Nat /\ g.n <= v8 + 1
        BY <1>3 DEF Files
      <4> QED BY <1>4, <1>6, <3>1, <4>1
    <3>4. B!Newest(f)'
      BY <3>3 DEF B!Newest
    <3> QED BY <3>2, <3>4
  <2>2. CASE w = "schedule"
    <3>1. v10 = "write"
      BY <1>3, <1>5, <2>2 DEF B!RunOrdered
    <3>2. a \in v7'
      BY <1>3, <1>5, <2>2, <3>1 DEF B!RunOrdered
    <3> QED BY <2>1, <3>2
  <2>3. CASE w = "page"
    <3>1. v10 = "prune" /\ ~v14
      BY <1>1, <2>3
    <3>2. PICK f \in B!Complete(v7) : B!Newest(f)
      BY <1>5, <3>1 DEF B!RunOrdered
    <3>3. /\ f \in B!Complete(v7')
          /\ \A g \in v7' : g.n > f.n => g = a /\ B!Unfinished("page") \in v7
      BY <1>1, <1>2, <2>3, <3>2, PageBecomes DEF a
    <3>4. CASE B!Unfinished("page") \in v7
      BY <1>3, <2>1, <2>3, <3>4
    <3>5. CASE B!Unfinished("page") \notin v7
      BY <3>3, <3>5 DEF B!Newest
    <3> QED BY <3>4, <3>5
  <2> QED BY <1>4, <2>2, <2>3
<1>14. B!RunOrdered'
  BY <1>3, <1>9, <1>10, <1>12, <1>13 DEF B!RunOrdered
<1> QED BY <1>3, <1>5, <1>7, <1>14, UndoUndisturbed DEF B!IInv

\* A write that fails leaves the schedule idle, or the exception is on record.
LEMMA FailKeeps == ASSUME B!IInv, NEW w \in B!Writers, B!FailArchive(w) PROVE B!IInv'
<1>1. /\ v9[w] # B!NoArchive /\ v9' = [v9 EXCEPT ![w] = B!NoArchive]
      /\ v13 < MaxTroubles /\ v13' = v13 + 1
      /\ v1' = v1 /\ v2' = v2 /\ v3' = v3 /\ v4' = v4 /\ v5' = v5 /\ v6' = v6
      /\ v7' = v7 /\ v8' = v8 /\ v11' = v11
      /\ w = "schedule" => v10' = "idle" /\ v12' = FALSE /\ v14' = FALSE
      /\ w # "schedule" => v10' = v10 /\ v12' = v12 /\ v14' = (v10 = "prune")
  BY DEF B!FailArchive, B!RunOver, B!Trouble
<1>2. /\ v7 \cup v11 \subseteq Files /\ v9 \in [B!Writers -> Archives] /\ v8 \in 0 .. MaxStamps
      /\ "page" \in B!Writers /\ "schedule" \in B!Writers /\ (w = "page" \/ w = "schedule")
      /\ \A u \in B!Writers : v9[u].n \in 0 .. v8
  BY BackupTypes
<1>3. B!TypeOK /\ B!UndoOrdered /\ B!RestoreUndone /\ B!RunOrdered
  BY DEF B!IInv
<1>4. B!NoArchive \in Archives /\ B!NoArchive.n = 0
  BY BackupBounds DEF B!NoArchive, B!Archive, B!None, Archives
<1>5. B!TypeOK'
  <2>1. v9' \in [B!Writers -> Archives]
    BY <1>1, <1>2, <1>4
  <2>2. v10' \in Runs /\ v12' \in BOOLEAN /\ v14' \in BOOLEAN
    BY <1>1, <1>2, <1>3 DEF B!TypeOK, Runs
  <2>3. v13' \in 0 .. MaxTroubles
    BY <1>1, <1>3, BackupBounds DEF B!TypeOK
  <2> QED BY <1>1, <1>3, <2>1, <2>2, <2>3 DEF B!TypeOK, Archives, Runs
<1>6. /\ v9'[w] = B!NoArchive /\ \A u \in B!Writers : u # w => v9'[u] = v9[u]
  BY <1>1, <1>2
<1>7. \A u \in B!Writers : v9'[u] # B!NoArchive =>
          v9'[u].content # B!Partial /\ v9'[u].n \in 1 .. v8'
  BY <1>1, <1>3, <1>6 DEF B!RunOrdered
<1>8. v9'["schedule"] # B!NoArchive <=> v10' = "write"
  BY <1>1, <1>2, <1>3, <1>6 DEF B!RunOrdered
<1>9. v10' = "write" => /\ B!Unfinished("schedule")' \in v7'
                        /\ v9'["page"].n # v9'["schedule"].n
  <2> SUFFICES ASSUME v10' = "write"
               PROVE  /\ B!Unfinished("schedule")' \in v7'
                      /\ v9'["page"].n # v9'["schedule"].n
    OBVIOUS
  <2>1. w = "page" /\ v10 = "write"
    BY <1>1, <1>2
  <2>2. B!Unfinished("schedule")' = B!Unfinished("schedule")
    BY <1>2, <1>6, <2>1 DEF B!Unfinished
  <2>3. v9["schedule"].n \in 1 .. v8
    BY <1>2, <1>3, <2>1 DEF B!RunOrdered
  <2> QED BY <1>1, <1>2, <1>3, <1>4, <1>6, <2>1, <2>2, <2>3 DEF B!RunOrdered
<1>10. ~(v10' = "prune" /\ ~v14')
  BY <1>1
<1>11. B!RunOrdered'
  BY <1>1, <1>3, <1>7, <1>8, <1>9, <1>10 DEF B!RunOrdered
<1> QED BY <1>1, <1>3, <1>5, <1>11, UndoUndisturbed DEF B!IInv

LEMMA SameCardinality == \A set : B!Cardinality(set) = Cardinality(set)
BY DEF B!Cardinality, Cardinality

\* What the newest complete archive is only followed by is one file at most, and
\* two are kept at least.
LEMMA PruneKeepsNewest ==
    ASSUME B!IInv, NEW f \in B!Complete(v7), B!Newest(f)
    PROVE  f \in B!Complete(B!Kept(v7))
<1> DEFINE one == B!Unfinished("page")
<1>1. B!Newer(f, v7) \subseteq {one}
  BY DEF B!Newest, B!Newer
<1> HIDE DEF one
<1>2. IsFiniteSet({one}) /\ Cardinality({one}) = 1
  BY FS_Singleton
<1>3. IsFiniteSet(B!Newer(f, v7)) /\ Cardinality(B!Newer(f, v7)) <= 1
  BY <1>1, <1>2, FS_Subset
<1>4. Cardinality(B!Newer(f, v7)) \in Nat
  BY <1>3, FS_CardinalityType
<1>5. B!Cardinality(B!Newer(f, v7)) < Retain
  BY <1>3, <1>4, BackupsAssumption, SameCardinality
<1>6. f \in v7 /\ f.content # B!Partial
  BY DEF B!Complete
<1>7. f \in B!Kept(v7)
  BY <1>5, <1>6, Zenon DEF B!Kept
<1> QED BY <1>6, <1>7 DEF B!Complete

LEMMA ArchivesKept == B!IInv /\ [B!Next]_B!backupVars => B!ArchiveKept
<1> SUFFICES ASSUME B!IInv, [B!Next]_B!backupVars, B!Complete(v7) # {}, ~v14
             PROVE  B!Complete(v7') # {}
  BY DEF B!ArchiveKept
<1>1. ASSUME v10 = "prune", B!Kept(v7) \subseteq v7' PROVE B!Complete(v7') # {}
  <2>1. PICK f \in B!Complete(v7) : B!Newest(f)
    BY <1>1 DEF B!IInv, B!RunOrdered
  <2> QED BY <1>1, <2>1, PruneKeepsNewest DEF B!Complete
<1>2. ASSUME NEW w \in B!Writers, B!WriteSome(w) \/ B!EndArchive(w) PROVE B!Complete(v7') # {}
  <2>1. \A f \in v7 : f.content # B!Partial => f \in v7'
    BY <1>2 DEF B!WriteSome, B!EndArchive, B!Becomes, B!Unfinished, B!Archive
  <2> QED BY <2>1 DEF B!Complete
<1>3. ASSUME NEW w \in B!Writers, B!BeginArchive(w) PROVE B!Complete(v7') # {}
  BY <1>3 DEF B!BeginArchive, B!Complete
<1>4. CASE v7' = v7
  BY <1>4
<1>5. CASE B!RunFails
  BY <1>1, <1>4, <1>5 DEF B!RunFails
<1>6. CASE B!Prune
  BY <1>1, <1>6 DEF B!Prune
<1> QED BY <1>2, <1>3, <1>4, <1>5, <1>6 DEF B!Next, B!backupVars, B!Change, B!BackupButton,
    B!ScheduleDue, B!BeginScheduled, B!FailArchive, B!TimePasses, B!CopyAndPruneExternal,
    B!BeginRestore, B!SaveBak, B!RestoreRefused, B!ReplaceDatabase, B!DropLog, B!RestoreStep,
    B!Crash, B!Writers

LEMMA BackupsStep == B!IInv /\ [B!Next]_B!backupVars => B!IInv'
<1> SUFFICES ASSUME B!IInv, [B!Next]_B!backupVars PROVE B!IInv'
  OBVIOUS
<1> USE BackupBounds
<1>a. B!TypeOK /\ B!UndoOrdered /\ B!RestoreUndone /\ B!RunOrdered
  BY DEF B!IInv
<1>1. CASE B!Change
  <2>1. /\ v3 < MaxVersion /\ v3' = v3 + 1 /\ v4' = v4 /\ v5' = v5 /\ v7' = v7 /\ v8' = v8
        /\ v9' = v9 /\ v10' = v10 /\ v11' = v11 /\ v12' = v12 /\ v13' = v13 /\ v14' = v14
    BY <1>1 DEF B!Change
  <2>2. v3 + 1 \in 1 .. MaxVersion /\ v3 + 1 \in B!Contents /\ v3 + 1 # B!Partial
    BY <1>a, <2>1 DEF B!TypeOK, B!Partial
  <2>3. CASE UNCHANGED <<v1, v2, v6>>
    <3>1. B!TypeOK'
      BY <1>a, <2>1, <2>2, <2>3 DEF B!TypeOK
    <3> QED BY <1>a, <2>1, <2>3, <3>1, RunUndisturbed, UndoUndisturbed DEF B!IInv
  <2>4. ASSUME NEW content \in {v3 + 1, B!Mixed}, B!Leaves(content) PROVE B!IInv'
    <3>1. content \in B!Contents /\ content # B!Partial
      BY <2>2 DEF B!Partial
    <3>2. B!UndoOrdered' /\ B!RestoreUndone'
      <4>1. v5.at \in {"idle", "bak", "tmp", "wal"}
        BY <1>a DEF B!TypeOK
      <4> QED BY <1>a, <2>1, <2>4, <3>1, <4>1, LeavesKeeps
    <3>3. B!TypeOK'
      BY <1>a, <2>1, <2>2, <2>4, <3>1 DEF B!TypeOK, B!Leaves
    <3> QED BY <1>a, <2>1, <3>2, <3>3, RunUndisturbed DEF B!IInv
  <2> QED BY <1>1, <2>3, <2>4 DEF B!Change
<1>2. CASE B!BackupButton
  <2>1. "page" \in B!Writers
    BY DEF B!Writers
  <2> QED BY <1>2, <2>1, BeginKeeps DEF B!BackupButton
<1>3. CASE B!ScheduleDue
  <2>1. B!TypeOK'
    BY <1>3, <1>a DEF B!ScheduleDue, B!TypeOK
  <2> QED BY <1>3, <1>a, <2>1, RunUndisturbed, UndoUndisturbed DEF B!ScheduleDue, B!IInv
<1>16. CASE B!BeginScheduled
  <2>1. "schedule" \in B!Writers
    BY DEF B!Writers
  <2> QED BY <1>16, <2>1, BeginKeeps DEF B!BeginScheduled
<1>4. CASE B!TimePasses
  <2>1. B!TypeOK'
    BY <1>4, <1>a DEF B!TimePasses, B!TypeOK
  <2> QED BY <1>4, <1>a, <2>1, RunUndisturbed, UndoUndisturbed DEF B!TimePasses, B!IInv
<1>5. ASSUME NEW w \in B!Writers, B!WriteSome(w) \/ B!EndArchive(w) \/ B!FailArchive(w)
      PROVE  B!IInv'
  BY <1>5, WriteKeeps, EndKeeps, FailKeeps
<1>6. CASE B!Prune
  <2>1. B!Kept(v7) \subseteq v7
    BY DEF B!Kept
  <2>2. B!TypeOK'
    BY <1>6, <1>a, <2>1 DEF B!Prune, B!TypeOK
  <2>3. B!RunOrdered'
    BY <1>6, <1>a, <2>1 DEF B!Prune, B!RunOrdered
  <2>4. v1' = v1 /\ v4' = v4 /\ v5' = v5 /\ v6' = v6
    BY <1>6 DEF B!Prune
  <2> QED BY <1>a, <2>2, <2>3, <2>4, UndoUndisturbed DEF B!IInv
<1>7. CASE B!CopyAndPruneExternal
  <2>1. v11' \subseteq v7 \cup v11
    BY <1>7 DEF B!CopyAndPruneExternal, B!Kept
  <2>2. B!TypeOK'
    BY <1>7, <1>a, <2>1 DEF B!CopyAndPruneExternal, B!RunOver, B!TypeOK
  <2>3. B!RunOrdered'
    BY <1>7, <1>a, RunUndisturbed DEF B!CopyAndPruneExternal, B!RunOver
  <2> QED BY <1>7, <1>a, <2>2, <2>3, UndoUndisturbed DEF B!CopyAndPruneExternal, B!IInv
<1>8. CASE B!RunFails
  <2>1. v7' \subseteq v7
    BY <1>8 DEF B!RunFails, B!Kept
  <2>2. B!TypeOK'
    BY <1>8, <1>a, <2>1 DEF B!RunFails, B!RunOver, B!Trouble, B!TypeOK
  <2>3. B!RunOrdered'
    BY <1>8, <1>a, <2>1 DEF B!RunFails, B!RunOver, B!RunOrdered
  <2> QED BY <1>8, <1>a, <2>2, <2>3, UndoUndisturbed DEF B!RunFails, B!IInv
<1>9. CASE B!BeginRestore
  <2>1. B!TypeOK'
    BY <1>9, <1>a DEF B!BeginRestore, B!TypeOK
  <2>2. B!UndoOrdered' /\ B!RestoreUndone'
    BY <1>9, <1>a DEF B!BeginRestore, B!UndoOrdered, B!RestoreUndone
  <2>3. B!RunOrdered'
    BY <1>9, <1>a, RunUndisturbed DEF B!BeginRestore
  <2> QED BY <2>1, <2>2, <2>3 DEF B!IInv
<1>b. B!NoRestore \in [at : {"idle", "bak", "tmp", "wal"}, of : B!Contents]
      /\ B!NoRestore.at = "idle"
  BY DEF B!NoRestore, B!None
<1>10. CASE B!SaveBak
  <2>1. B!TypeOK' /\ B!UndoOrdered' /\ B!RestoreUndone'
    BY <1>10, <1>a DEF B!SaveBak, B!RestoreStep, B!TypeOK, B!UndoOrdered, B!RestoreUndone
  <2>2. B!RunOrdered'
    BY <1>10, <1>a, RunUndisturbed DEF B!SaveBak, B!RestoreStep
  <2> QED BY <2>1, <2>2 DEF B!IInv
<1>11. CASE B!RestoreRefused
  <2>1. B!TypeOK' /\ B!UndoOrdered' /\ B!RestoreUndone'
    BY <1>11, <1>a, <1>b DEF B!RestoreRefused, B!RestoreStep, B!Trouble, B!TypeOK,
       B!UndoOrdered, B!RestoreUndone, B!Partial, B!None
  <2>2. B!RunOrdered'
    BY <1>11, <1>a, RunUndisturbed DEF B!RestoreRefused, B!RestoreStep
  <2> QED BY <2>1, <2>2 DEF B!IInv
<1>12. CASE B!ReplaceDatabase
  <2>1. B!TypeOK' /\ B!UndoOrdered' /\ B!RestoreUndone'
    BY <1>12, <1>a DEF B!ReplaceDatabase, B!RestoreStep, B!TypeOK, B!UndoOrdered, B!RestoreUndone
  <2>2. B!RunOrdered'
    BY <1>12, <1>a, RunUndisturbed DEF B!ReplaceDatabase, B!RestoreStep
  <2> QED BY <2>1, <2>2 DEF B!IInv
<1>13. CASE B!DropLog
  <2>1. B!TypeOK' /\ B!UndoOrdered' /\ B!RestoreUndone'
    BY <1>13, <1>a, <1>b DEF B!DropLog, B!RestoreStep, B!TypeOK,
       B!UndoOrdered, B!RestoreUndone, B!None
  <2>2. B!RunOrdered'
    BY <1>13, <1>a, RunUndisturbed DEF B!DropLog, B!RestoreStep
  <2> QED BY <2>1, <2>2 DEF B!IInv
<1>14. CASE B!Crash
  <2>1. v1' = B!Opened /\ v2' = v1' /\ B!Opened \in {v1, B!Mixed}
    BY <1>14 DEF B!Crash, B!Opened
  <2>2. v4' \in {v4, B!Partial} /\ (v5.at # "bak" => v4' = v4)
    BY <1>14 DEF B!Crash
  <2>3. v6' = IF v5.at \in {"bak", "tmp"} THEN B!None ELSE v6
    BY <1>14 DEF B!Crash
  <2>4. /\ v5' = B!NoRestore /\ v3' = v3 /\ v7' = v7 /\ v8' = v8 /\ v10' = "idle" /\ v14' = FALSE
        /\ v11' = v11 /\ v12' = v12 /\ v13 < MaxTroubles /\ v13' = v13 + 1
        /\ v9' = [w \in B!Writers |-> B!NoArchive]
    BY <1>14 DEF B!Crash, B!Trouble
  <2>5. v9' \in [B!Writers -> Archives]
    BY <2>4 DEF Archives, B!NoArchive, B!Archive, B!None
  <2>6. B!TypeOK'
    BY <1>a, <1>b, <2>1, <2>2, <2>3, <2>4, <2>5 DEF B!TypeOK, Archives, B!Partial, B!None
  <2>7. B!UndoOrdered' /\ B!RestoreUndone'
    BY <1>a, <1>b, <2>1, <2>2, <2>3, <2>4 DEF B!TypeOK, B!UndoOrdered, B!RestoreUndone,
       B!Partial, B!None
  <2>8. "schedule" \in B!Writers
    BY DEF B!Writers
  <2>9. B!RunOrdered'
    BY <1>a, <2>4, <2>8 DEF B!RunOrdered
  <2> QED BY <2>6, <2>7, <2>9 DEF B!IInv
<1>15. CASE UNCHANGED B!backupVars
  <2>1. B!TypeOK'
    BY <1>15, <1>a DEF B!backupVars, B!TypeOK
  <2> QED BY <1>15, <1>a, <2>1, RunUndisturbed, UndoUndisturbed DEF B!backupVars, B!IInv
<1> QED BY <1>1, <1>2, <1>3, <1>4, <1>5, <1>6, <1>7, <1>8, <1>9, <1>10, <1>11, <1>12, <1>13,
    <1>14, <1>15, <1>16 DEF B!Next

-----------------------------------------------------------------------------
(* Accessory ids, and the places of network devices.                       *)

LEMMA AidsKept == K!IInv /\ [K!Next]_K!homekitVars => K!AidKept
<1> SUFFICES ASSUME K!IInv, [K!Next]_K!homekitVars PROVE K!AidKept
  OBVIOUS
<1>1. v2 \in [KitCameras -> K!AccessoryIds]
  BY DEF K!IInv, K!TypeOK
<1>2. ASSUME v2' \in K!NewAids(v8.chosen), NEW c \in KitCameras,
             v2[c] # K!Unexposed, v2'[c] # K!Unexposed
      PROVE  v2'[c] = v2[c]
  BY <1>2 DEF K!NewAids, K!Exposed
<1>3. CASE K!StoreCameras
  BY <1>2, <1>3 DEF K!StoreCameras, K!AidKept
<1>4. ASSUME NEW d \in KitCameras, K!DeleteCamera(d) PROVE K!AidKept
  BY <1>1, <1>4 DEF K!DeleteCamera, K!AidKept, K!Unexposed
<1>5. ASSUME v2' = v2 PROVE K!AidKept
  BY <1>5 DEF K!AidKept
<1> QED BY <1>3, <1>4, <1>5 DEF K!Next, K!homekitVars, K!Dies, K!Pair, K!Restart, K!BootRead,
    K!BootStart, K!SaveBegins, K!StreamChanges, K!StoreEnabled, K!StoreFails, K!StartIfEnabled, K!StartFails, K!ResetBegins, K!ResetPairing

LEMMA NetworkBounds ==
    /\ "unknown" \notin Uplinks /\ "offline" \notin Uplinks
    /\ MaxMoves \in Nat /\ 0 \in 0 .. MaxMoves
    /\ \A n \in 0 .. MaxMoves : n < MaxMoves => n + 1 \in 0 .. MaxMoves
    /\ MaxTroubles \in Nat /\ 0 \in 0 .. MaxTroubles
    /\ \A n \in 0 .. MaxTroubles : n < MaxTroubles => n + 1 \in 0 .. MaxTroubles
BY NetworkAssumption, TroublesAssumption

LEMMA NetworkInit == N!Init => N!IInv
<1> SUFFICES ASSUME N!Init PROVE N!IInv
  OBVIOUS
<1>1. v4 \in [N!Callers -> [at : {"none", "ask", "answered"},
                            saw : Uplinks \cup {N!Offline, N!Unknown}]]
      /\ \A c \in N!Callers : v4[c].at = "none"
  BY DEF N!Init, N!NoProbe
<1>2. v8 \in N!Places /\ v9 \in N!Places
  BY DEF N!Init, N!None, N!Places
<1>3. v3 \in Uplinks /\ v7 = N!Unknown /\ v10 = 0 /\ v11 = 0
      /\ v1 = TRUE /\ v2 = FALSE /\ v5 = FALSE /\ v6 = FALSE
  BY DEF N!Init
<1> QED BY <1>1, <1>2, <1>3, NetworkBounds DEF N!IInv, N!TypeOK, N!Ordered

LEMMA NetworkStep == N!IInv /\ [N!Next]_N!networkVars => N!IInv'
<1> SUFFICES ASSUME N!IInv, [N!Next]_N!networkVars PROVE N!IInv'
  OBVIOUS
<1> DEFINE Probes == [at : {"none", "ask", "answered"},
                      saw : Uplinks \cup {"offline", "unknown"}]
<1> USE NetworkBounds DEF N!IInv, N!TypeOK, N!Ordered, N!NoProbe, N!Unknown, N!Offline, N!Quiet, N!Idle
<1>1. v4 \in [N!Callers -> Probes]
  OBVIOUS
<1>2. ASSUME NEW c \in N!Callers, N!Asks(c), {v5, v5', v6'} \subseteq BOOLEAN PROVE N!IInv'
  <2>1. v4'[c].at = "ask" /\ v4' \in [N!Callers -> Probes]
    BY <1>1, <1>2 DEF N!Asks
  <2> QED BY <1>2, <2>1 DEF N!Asks
<1>3. N!PollAsks \/ N!PageAsks \/ N!TestAsks \/ N!PickerAsks => N!IInv'
  BY <1>2 DEF N!PollAsks, N!PageAsks, N!TestAsks, N!PickerAsks, N!ButtonAsks, N!Callers, N!Marking
<1>4. ASSUME NEW c \in N!Callers, N!Answered(c) PROVE N!IInv'
  <2>1. v3 \in Uplinks \cup {"offline"} /\ v3 # "unknown"
    OBVIOUS
  <2>2. [at |-> "answered", saw |-> v3] \in Probes
    BY <2>1
  <2>3. v4' \in [N!Callers -> Probes]
        /\ \A d \in N!Callers : v4'[d] = IF d = c THEN [at |-> "answered", saw |-> v3] ELSE v4[d]
    BY <1>1, <1>4, <2>2 DEF N!Answered
  <2> QED BY <1>4, <2>1, <2>3 DEF N!Answered
<1>5. ASSUME NEW c \in N!Callers, N!Done(c)
      PROVE  /\ v4' \in [N!Callers -> Probes] /\ v5' \in BOOLEAN
             /\ \A d \in N!Callers : v4'[d] = IF d = c THEN N!NoProbe ELSE v4[d]
  <2>1. N!NoProbe \in Probes
    OBVIOUS
  <2> QED BY <1>1, <1>5, <2>1 DEF N!Done
<1>6. ASSUME NEW c \in N!Callers, N!ProbeFails(c) PROVE N!IInv'
  <2>1. N!Done(c)
    BY <1>6 DEF N!ProbeFails
  <2> QED BY <1>5, <1>6, <2>1 DEF N!ProbeFails
<1>7. ASSUME NEW c \in N!Callers, N!Records(c) PROVE N!IInv'
  <2>1. N!Done(c) /\ v4[c].saw \in Uplinks \cup {"offline"}
    BY <1>1, <1>7 DEF N!Records
  <2>2. N!Found(v4[c].saw) \in N!Places
    BY <2>1 DEF N!Found, N!Places
  <2>3. N!Logged(N!Found(v4[c].saw)) \in N!Places
    BY <2>2 DEF N!Logged
  <2>4. v6' \in BOOLEAN
    BY <1>7 DEF N!Records
  <2>5. v8' \in N!Places /\ v9' \in N!Places
    BY <1>7, <2>2, <2>3 DEF N!Records
  <2>6. v7' \in Uplinks \cup {"offline", "unknown"}
    BY <1>7, <2>1 DEF N!Records
  <2>7. UNCHANGED <<v1, v2, v3, v10, v11>>
    BY <1>7 DEF N!Records
  <2>8. N!Ordered'
    BY <1>5, <2>1
  <2> QED BY <1>5, <2>1, <2>4, <2>5, <2>6, <2>7, <2>8
<1>8. CASE N!MapCamera
  <2>1. ASSUME N!MayKick
        PROVE  /\ v4' \in [N!Callers -> Probes]
               /\ \A d \in N!Callers : v4'[d].at = "answered" => v4'[d] = v4[d]
    <3>1. PICK c \in N!Callers : v4' = [v4 EXCEPT ![c].at = "ask"]
      BY <1>8, <2>1 DEF N!MapCamera, N!Callers, N!Marking
    <3> QED BY <1>1, <3>1
  <2>2. v4' \in [N!Callers -> Probes]
        /\ \A d \in N!Callers : v4'[d].at = "answered" => v4'[d] = v4[d]
    BY <1>1, <1>8, <2>1 DEF N!MapCamera
  <2>3. v5' \in BOOLEAN
    BY <1>8 DEF N!MapCamera
  <2> QED BY <1>8, <2>2, <2>3 DEF N!MapCamera
<1>9. CASE N!UnmapCamera
  BY <1>9 DEF N!UnmapCamera
<1>10. CASE N!DeleteAccount
  BY <1>10 DEF N!DeleteAccount
<1>11. CASE N!CoolingEnds
  BY <1>11 DEF N!CoolingEnds
<1>12. CASE N!Moves
  BY <1>12 DEF N!Moves
<1>13. CASE UNCHANGED N!networkVars
  BY <1>13 DEF N!networkVars
<1> QED BY <1>3, <1>4, <1>6, <1>7, <1>8, <1>9, <1>10, <1>11, <1>12, <1>13 DEF N!Next

LEMMA PlacesKept == N!IInv /\ [N!Next]_N!networkVars => N!PlaceKept
<1> SUFFICES ASSUME N!IInv, [N!Next]_N!networkVars PROVE N!PlaceKept
  OBVIOUS
<1>1. ASSUME NEW c \in N!Callers, N!Records(c) PROVE N!PlaceKept
  <2>1. v4[c].saw # N!Unknown
    BY <1>1 DEF N!IInv, N!Ordered, N!Records
  <2>2. N!Found(v4[c].saw).uplink # N!Unknown \/ v8.uplink = N!Unknown
    BY <2>1 DEF N!IInv, N!TypeOK, N!Places, N!Found
  <2> QED BY <1>1, <2>2 DEF N!Records, N!PlaceKept, N!Logged
<1>2. ASSUME v8' = v8 PROVE N!PlaceKept
  BY <1>2 DEF N!PlaceKept
<1> QED BY <1>1, <1>2 DEF N!Next, N!networkVars, N!PollAsks, N!PageAsks, N!TestAsks,
    N!PickerAsks, N!ButtonAsks, N!Asks, N!Answered, N!ProbeFails, N!CoolingEnds,
    N!MapCamera, N!UnmapCamera, N!DeleteAccount, N!Moves, N!Idle

-----------------------------------------------------------------------------
(* The references of the tables.                                           *)

\* How many references lie below a table, at most.
Level(t) ==
    IF t \in {"users", "storage_targets", "notification_channels", "known_faces",
              "known_plates", "network_accounts"} THEN 0
    ELSE IF t = "cameras" THEN 1
    ELSE IF t \in {"recordings", "camera_detection_zones"} THEN 2 ELSE 3

\* What the proofs need to know of SCHEMA.
LEMMA ReferenceFacts ==
    ASSUME NEW r \in S!References
    PROVE  /\ Level(r.to) < Level(r.table)
           /\ r.to \notin {"user_recovery_codes", "user_camera_access", "backup_schedule",
                           "notification_event_templates", "birdseye_cameras",
                           "homekit_cameras", "camera_recording_triggers"}
           /\ r.table = "camera_recording_triggers" => r.to = "cameras"
           /\ r.on \in {"cascade", "null", "kept"}
           /\ r.on = "kept" =>
                  \/ r \in S!Forgotten
                  \/ /\ r.to = "storage_targets"
                     /\ r.table = "cameras" /\ r.column = "recording_storage_id"
                  \/ /\ r.to = "network_accounts"
                     /\ r.table = "cameras" /\ r.column = "network_account_id"
           /\ r.table \in {"retention_rules", "automation_rules"}
              /\ r.column = "camera_id" => r.on = "cascade"
<1> USE DEF S!Reference, S!Forgotten, Level
<1>1. CASE r \in S!AccountReferences
  BY <1>1 DEF S!AccountReferences
<1>2. CASE r \in S!CameraReferences
  BY <1>2 DEF S!CameraReferences
<1>3. CASE r \in S!AccessReferences
  BY <1>3 DEF S!AccessReferences
<1>4. CASE r \in S!ScheduleReferences
  BY <1>4 DEF S!ScheduleReferences
<1>5. CASE r \in S!CameraPartReferences
  BY <1>5 DEF S!CameraPartReferences, S!CameraParts
<1>6. CASE r \in S!ArchiveReferences
  BY <1>6 DEF S!ArchiveReferences
<1>7. CASE r \in S!TemplateReferences
  BY <1>7 DEF S!TemplateReferences
<1>8. CASE r \in S!HealthReferences
  BY <1>8 DEF S!HealthReferences
<1>9. CASE r \in S!TokenReferences
  BY <1>9 DEF S!TokenReferences
<1>10. CASE r \in S!WallReferences
  BY <1>10 DEF S!WallReferences
<1>11. CASE r \in S!RecognitionReferences
  BY <1>11 DEF S!RecognitionReferences
<1>12. CASE r \in S!EmbeddingReferences
  BY <1>12 DEF S!EmbeddingReferences
<1>13. CASE r \in S!CrossingReferences
  BY <1>13 DEF S!CrossingReferences
<1>14. CASE r \in S!AutomationReferences
  BY <1>14 DEF S!AutomationReferences
<1>15. CASE r \in S!NetworkReferences
  BY <1>15 DEF S!NetworkReferences
<1> QED BY <1>1, <1>2, <1>3, <1>4, <1>5, <1>6, <1>7, <1>8, <1>9, <1>10, <1>11, <1>12,
           <1>13, <1>14, <1>15 DEF S!References

\* The ids of a table are 1, 2, ... in the order of its rows.
LEMMA NumberedIds ==
    ASSUME S!IInv
    PROVE  /\ \A t \in S!Named : /\ Len(v3[t]) \in Nat /\ DOMAIN v3[t] = 1..Len(v3[t])
                                 /\ S!NextId(t) = Len(v3[t]) + 1
           /\ \A r \in v1 : r.to \in S!Named /\ \A n \in DOMAIN v3[r.to] : S!Id(r, n) = n
<1>1. ASSUME NEW t \in S!Named
      PROVE  /\ Len(v3[t]) \in Nat /\ DOMAIN v3[t] = 1..Len(v3[t])
             /\ S!NextId(t) = Len(v3[t]) + 1
  <2> DEFINE ids == {0} \cup {v3[t][n] : n \in DOMAIN v3[t]}
             last == Len(v3[t])
  <2>1. v3[t] \in Seq(1..MaxRows)
    BY DEF S!IInv, S!TypeOK
  <2>2. last \in Nat /\ DOMAIN v3[t] = 1..last
    BY <2>1, LenProperties
  <2>3. \A n \in 1..last : v3[t][n] = n
    BY <2>2 DEF S!IInv, S!Numbered
  <2> HIDE DEF last
  <2>4. ids = 0..last
    BY <2>2, <2>3
  <2>5. S!Max(0..last) = last
    <3>1. last \in 0..last /\ \A y \in 0..last : last >= y
      BY <2>2
    <3>2. \A x \in 0..last : (\A y \in 0..last : x >= y) => x = last
      BY <2>2
    <3> QED BY <3>1, <3>2 DEF S!Max
  <2>6. S!NextId(t) = 1 + S!Max(ids)
    BY DEF S!NextId
  <2> HIDE DEF ids
  <2>7. S!Max(ids) = last
    BY <2>4, <2>5
  <2> QED BY <2>2, <2>6, <2>7 DEF last
<1>2. ASSUME NEW r \in v1 PROVE r.to \in S!Named /\ \A n \in DOMAIN v3[r.to] : S!Id(r, n) = n
  <2>1. r.to \in S!Named
    BY DEF S!Named
  <2> QED BY <2>1 DEF S!IInv, S!Numbered, S!Id
<1> QED BY <1>1, <1>2

\* A set of rows that a table may hold.
Right(t, set) ==
    /\ set \subseteq S!RowsOf(t)
    /\ \A x \in set : S!Refers(t, x.refs)
    /\ t \in S!Named => /\ \A x \in set : x.id = x.made /\ x.made \in DOMAIN v3[t]
                        /\ \A x, y \in set : x.made = y.made => x = y

LEMMA RightRows == ASSUME S!IInv, NEW t \in S!Tables PROVE Right(t, v2[t])
BY DEF S!IInv, S!TypeOK, S!Numbered, Right

LEMMA RightKeepsIInv ==
    ASSUME S!IInv, UNCHANGED <<v1, v3>>, DOMAIN v2' = S!Tables,
           \A t \in S!Tables : Right(t, v2'[t])
    PROVE  S!IInv'
<1>1. S!Named \subseteq S!Tables /\ S!Tables' = S!Tables /\ S!Named' = S!Named
  BY DEF S!Named, S!Tables
<1>2. \A t \in S!Tables : S!RowsOf(t)' = S!RowsOf(t)
  BY DEF S!RowsOf, S!Columns, S!Of
<1>3. S!TypeOK'
  BY <1>1, <1>2 DEF S!IInv, S!TypeOK, Right
<1>4. S!Numbered'
  BY <1>1 DEF S!IInv, S!Numbered, Right, S!Refers, S!Of
<1> QED BY <1>3, <1>4 DEF S!IInv

LEMMA AskedRefers ==
    ASSUME NEW t, NEW refs \in S!Asked(t)
    PROVE  refs \in [S!Columns(t) -> 0..MaxRows] /\ S!Refers(t, refs)
BY DEF S!Asked, S!Refers

\* Without a row that goes, a step deletes nothing.
LEMMA NothingGone ==
    ASSUME \A r \in v1 : \A y \in v2[r.to] : \E z \in v2'[r.to] : z.made = y.made
    PROVE  S!DeletionExact
BY DEF S!DeletionExact, S!Gone

\* INSERT: the row has the next number.
LEMMA InsertKeeps ==
    ASSUME S!IInv, NEW t \in S!Tables, NEW refs \in [S!Columns(t) -> 0..MaxRows],
           S!Refers(t, refs), S!InsertRow(t, refs)
    PROVE  S!IInv' /\ S!DeletionExact
<1> DEFINE row == S!Row(t, refs)
           last == Len(v3[t])
<1>1. /\ S!Named \subseteq S!Tables /\ S!Tables' = S!Tables /\ S!Named' = S!Named
      /\ v1' = v1 /\ v2' = [v2 EXCEPT ![t] = v2[t] \cup {row}]
      /\ \A u \in S!Tables : S!RowsOf(u)' = S!RowsOf(u)
      /\ \A u \in S!Tables : v2'[u] = IF u = t THEN v2[t] \cup {row} ELSE v2[u]
      /\ DOMAIN v2' = S!Tables
  BY DEF S!InsertRow, S!Named, S!Tables, S!RowsOf, S!Columns, S!Of, S!IInv, S!TypeOK
<1>2. MaxRows \in Nat /\ 0 \in 0..MaxRows
  BY SchemaAssumption
<1>3. CASE t \notin S!Named
  <2>1. v3' = v3 /\ row = [id |-> 0, made |-> 0, refs |-> refs]
    BY <1>3 DEF S!InsertRow, S!Row
  <2>2. row \in S!RowsOf(t) /\ row.refs = refs
    BY <1>2, <2>1 DEF S!RowsOf
  <2> HIDE DEF row
  <2>3. \A u \in S!Tables : Right(u, v2'[u])
    BY <1>1, <1>3, <2>2, RightRows DEF Right
  <2>4. S!IInv'
    BY <1>1, <2>1, <2>3, RightKeepsIInv
  <2> QED BY <1>1, <2>4, NothingGone DEF S!Tables
<1>4. CASE t \in S!Named
  <2>1. /\ last \in Nat /\ DOMAIN v3[t] = 1..last /\ S!NextId(t) = last + 1
        /\ last < MaxRows /\ v3' = [v3 EXCEPT ![t] = Append(v3[t], last + 1)]
    BY <1>4, NumberedIds DEF S!InsertRow
  <2>2. row = [id |-> last + 1, made |-> last + 1, refs |-> refs]
    BY <1>4, <2>1 DEF S!Row
  <2> HIDE DEF last, row
  <2>3. last + 1 \in 0..MaxRows /\ last + 1 \in 1..MaxRows
    BY <1>2, <2>1
  <2>4. row \in S!RowsOf(t) /\ row.refs = refs /\ row.id = last + 1 /\ row.made = last + 1
    BY <2>2, <2>3 DEF S!RowsOf
  <2>5. v3[t] \in Seq(1..MaxRows) /\ \A n \in 1..last : v3[t][n] = n
    BY <1>4, <2>1 DEF S!IInv, S!TypeOK, S!Numbered
  <2> DEFINE longer == Append(v3[t], last + 1)
  <2>6. /\ longer \in Seq(1..MaxRows) /\ DOMAIN longer = 1..(last + 1)
        /\ \A n \in 1..(last + 1) : longer[n] = n
    <3>1. /\ longer \in Seq(1..MaxRows) /\ Len(longer) = last + 1
          /\ \A n \in 1..last : longer[n] = v3[t][n]
          /\ longer[last + 1] = last + 1
      BY <2>3, <2>5, AppendProperties DEF last
    <3>2. DOMAIN longer = 1..(last + 1)
      BY <3>1, LenProperties
    <3>3. \A n \in 1..(last + 1) : n \in 1..last \/ n = last + 1
      BY <2>1
    <3> QED BY <2>5, <3>1, <3>2, <3>3
  <2> HIDE DEF longer
  <2>7. /\ v3' \in [S!Named -> Seq(1..MaxRows)]
        /\ \A u \in S!Named : v3'[u] = IF u = t THEN longer ELSE v3[u]
    BY <1>4, <2>1, <2>6 DEF S!IInv, S!TypeOK, longer
  <2>8. \A u \in S!Named : DOMAIN v3[u] \subseteq DOMAIN v3'[u]
    <3>1. 1..last \subseteq 1..(last + 1)
      BY <2>1
    <3> QED BY <2>1, <2>6, <2>7, <3>1
  <2>9. S!TypeOK'
    BY <1>1, <2>4, <2>7, RightRows DEF S!IInv, S!TypeOK, Right
  <2>10. \A u \in S!Tables : \A x \in v2'[u] : S!Refers(u, x.refs)
    BY <1>1, <2>4, RightRows DEF Right
  <2>11. \A u \in S!Tables : \A x \in v2'[u] : S!Refers(u, x.refs)'
    BY <1>1, <2>8, <2>10, NumberedIds DEF S!Refers, S!Of
  <2>12. \A u \in S!Named : \A n \in DOMAIN v3'[u] : v3'[u][n] = n
    <3>1. \A n \in DOMAIN longer : longer[n] = n
      BY <2>6
    <3>2. \A u \in S!Named : \A n \in DOMAIN v3[u] : v3[u][n] = n
      BY DEF S!IInv, S!Numbered
    <3>3. ASSUME NEW u \in S!Named PROVE v3'[u] = longer \/ v3'[u] = v3[u]
      BY <2>7
    <3> QED BY <3>1, <3>2, <3>3
  <2>13. last + 1 \in DOMAIN v3'[t] /\ last + 1 \notin DOMAIN v3[t]
    <3>1. last + 1 \in 1..(last + 1) /\ last + 1 \notin 1..last
      BY <2>1
    <3> QED BY <1>4, <2>1, <2>6, <2>7, <3>1
  <2>14. \A u \in S!Named :
            /\ \A x \in v2'[u] : x.id = x.made /\ x.made \in DOMAIN v3'[u]
            /\ \A x, y \in v2'[u] : x.made = y.made => x = y
    <3>1. \A u \in S!Named :
            /\ \A x \in v2[u] : x.id = x.made /\ x.made \in DOMAIN v3[u]
            /\ \A x, y \in v2[u] : x.made = y.made => x = y
      BY DEF S!IInv, S!Numbered
    <3> QED BY <1>1, <2>4, <2>8, <2>13, <3>1
  <2>15. S!IInv'
    BY <1>1, <2>9, <2>11, <2>12, <2>14 DEF S!IInv, S!Numbered
  <2> QED BY <1>1, <2>15, NothingGone DEF S!Tables
<1> QED BY <1>3, <1>4

\* UPDATE and the replacements: rows of the same numbers, or of none.
LEMMA InsertsKeep == ASSUME S!IInv, NEW t, S!Insert(t) PROVE S!IInv' /\ S!DeletionExact
BY InsertKeeps, AskedRefers DEF S!Insert

LEMMA Rewritten ==
    ASSUME S!IInv, NEW t \in S!Tables, NEW x \in v2[t],
           NEW refs \in [S!Columns(t) -> 0..MaxRows], S!Refers(t, refs)
    PROVE  LET new == [x EXCEPT !.refs = refs]
           IN  /\ new.made = x.made /\ new.refs = refs
               /\ Right(t, (v2[t] \ {x}) \cup {new})
<1> DEFINE new == [x EXCEPT !.refs = refs]
<1>1. x \in S!RowsOf(t)
  BY RightRows DEF Right
<1>2. new \in S!RowsOf(t) /\ new.made = x.made /\ new.id = x.id /\ new.refs = refs
  BY <1>1 DEF S!RowsOf
<1> HIDE DEF new
<1>3. Right(t, (v2[t] \ {x}) \cup {new})
  <2>1. (v2[t] \ {x}) \cup {new} \subseteq S!RowsOf(t)
    BY <1>2, RightRows DEF Right
  <2>2. \A y \in (v2[t] \ {x}) \cup {new} : S!Refers(t, y.refs)
    BY <1>2, RightRows DEF Right
  <2>3. t \in S!Named =>
           /\ \A y \in (v2[t] \ {x}) \cup {new} : y.id = y.made /\ y.made \in DOMAIN v3[t]
           /\ \A y, z \in (v2[t] \ {x}) \cup {new} : y.made = z.made => y = z
    BY <1>2, RightRows DEF Right
  <2> QED BY <2>1, <2>2, <2>3 DEF Right
<1> QED BY <1>2, <1>3 DEF new

LEMMA UpdateKeeps ==
    ASSUME S!IInv, NEW t, NEW columns, S!Update(t, columns)
    PROVE  S!IInv' /\ S!DeletionExact
<1>1. PICK x \in v2[t], refs \in S!Asked(t) :
          v2' = [v2 EXCEPT ![t] = (v2[t] \ {x}) \cup {[x EXCEPT !.refs = refs]}]
  BY DEF S!Update
<1>2. t \in S!Tables /\ v1' = v1 /\ v3' = v3 /\ DOMAIN v2 = S!Tables
  BY DEF S!Update, S!IInv, S!TypeOK
<1> DEFINE new == [x EXCEPT !.refs = refs]
           set == (v2[t] \ {x}) \cup {new}
<1>3. new.made = x.made /\ Right(t, set)
  BY <1>2, AskedRefers, Rewritten
<1>4. DOMAIN v2' = S!Tables /\ \A u \in S!Tables : v2'[u] = IF u = t THEN set ELSE v2[u]
  BY <1>1, <1>2
<1>5. new \in set /\ \A y \in v2[t] : y \in set \/ y = x
  OBVIOUS
<1> HIDE DEF new, set
<1>6. S!IInv'
  BY <1>2, <1>3, <1>4, RightRows, RightKeepsIInv
<1>7. \A u \in S!Tables : \A y \in v2[u] : \E z \in v2'[u] : z.made = y.made
  BY <1>3, <1>4, <1>5
<1> QED BY <1>6, <1>7, NothingGone DEF S!Tables

\* New rows of a table that no reference names.
LEMMA NewRows ==
    ASSUME S!IInv, NEW t \in S!Tables, t \notin S!Named,
           NEW new \in SUBSET {S!Row(t, refs) : refs \in S!Asked(t)}
    PROVE  Right(t, new)
<1>1. 0 \in 0..MaxRows
  BY SchemaAssumption
<1>2. ASSUME NEW refs \in S!Asked(t)
      PROVE  S!Row(t, refs) \in S!RowsOf(t) /\ S!Row(t, refs).refs = refs
  BY <1>1, AskedRefers DEF S!Row, S!RowsOf
<1> QED BY <1>2, AskedRefers DEF Right

LEMMA ReplacedKeeps ==
    ASSUME S!IInv, NEW t \in S!Tables, t \notin S!Named, NEW set, Right(t, set),
           v2' = [v2 EXCEPT ![t] = set], UNCHANGED <<v1, v3>>
    PROVE  S!IInv' /\ S!DeletionExact
<1>1. /\ DOMAIN v2' = S!Tables
      /\ \A u \in S!Tables : v2'[u] = IF u = t THEN set ELSE v2[u]
  BY DEF S!IInv, S!TypeOK
<1>2. S!IInv'
  BY <1>1, RightRows, RightKeepsIInv
<1>3. \A r \in v1 : r.to \in S!Tables /\ r.to # t
  BY DEF S!Tables, S!Named
<1> QED BY <1>1, <1>2, <1>3, NothingGone

LEMMA ReplaceOfKeeps ==
    ASSUME S!IInv, NEW t, t \notin S!Named, NEW column, S!ReplaceOf(t, column)
    PROVE  S!IInv' /\ S!DeletionExact
<1>1. PICK r \in S!Of(t), new \in SUBSET {S!Row(t, refs) : refs \in S!Asked(t)} :
        \E owner \in DOMAIN v3[r.to] :
            v2' = [v2 EXCEPT ![t] =
                      {x \in v2[t] : S!Id(r, x.refs[column]) # S!Id(r, owner)} \cup new]
  BY DEF S!ReplaceOf
<1>2. PICK owner \in DOMAIN v3[r.to] :
          v2' = [v2 EXCEPT ![t] =
                    {x \in v2[t] : S!Id(r, x.refs[column]) # S!Id(r, owner)} \cup new]
  BY <1>1
<1> DEFINE set == {x \in v2[t] : S!Id(r, x.refs[column]) # S!Id(r, owner)} \cup new
<1>3. t \in S!Tables /\ UNCHANGED <<v1, v3>>
  BY DEF S!ReplaceOf
<1>4. Right(t, set)
  BY <1>3, NewRows, RightRows DEF Right
<1> HIDE DEF set
<1> QED BY <1>2, <1>3, <1>4, ReplacedKeeps DEF set

LEMMA ReplaceAllKeeps ==
    ASSUME S!IInv, NEW t, t \notin S!Named, S!ReplaceAll(t)
    PROVE  S!IInv' /\ S!DeletionExact
BY NewRows, ReplacedKeeps DEF S!ReplaceAll

LEMMA CreateCameraKeeps == ASSUME S!IInv, S!CreateCamera PROVE S!IInv' /\ S!DeletionExact
<1> DEFINE refs == [c \in S!Columns("cameras") |-> 0]
<1>1. refs \in [S!Columns("cameras") -> 0..MaxRows] /\ S!Refers("cameras", refs)
  BY SchemaAssumption DEF S!Refers, S!Columns
<1> QED BY <1>1, InsertKeeps DEF S!CreateCamera

LEMMA TriggersKeep ==
    ASSUME S!IInv, S!UpdateCameraRecordingSettings
    PROVE  S!IInv' /\ S!DeletionExact
<1> DEFINE triggers == "camera_recording_triggers"
<1>1. PICK x \in v2["cameras"], refs \in S!Asked("cameras") :
          v2' = [t \in S!Tables |->
                    CASE t = "cameras" -> (v2[t] \ {x}) \cup {[x EXCEPT !.refs = refs]}
                      [] t = triggers ->
                            v2[t] \cup {S!Row(t, [c \in S!Columns(t) |-> x.made])}
                      [] OTHER -> v2[t]]
  BY DEF S!UpdateCameraRecordingSettings
<1>2. "cameras" \in S!Tables /\ UNCHANGED <<v1, v3>>
  BY DEF S!UpdateCameraRecordingSettings
<1> DEFINE new == [x EXCEPT !.refs = refs]
           set == (v2["cameras"] \ {x}) \cup {new}
           row == S!Row(triggers, [c \in S!Columns(triggers) |-> x.made])
<1>3. new.made = x.made /\ Right("cameras", set)
  BY <1>2, AskedRefers, Rewritten
<1>4. new \in set /\ \A y \in v2["cameras"] : y \in set \/ y = x
  OBVIOUS
<1>5. /\ DOMAIN v2' = S!Tables
      /\ \A t \in S!Tables : v2'[t] = IF t = "cameras" THEN set
                                     ELSE IF t = triggers THEN v2[t] \cup {row} ELSE v2[t]
  BY <1>1
<1>6. ASSUME triggers \in S!Tables PROVE Right(triggers, v2[triggers] \cup {row})
  <2>1. triggers \notin S!Named
    BY ReferenceFacts DEF S!Named, S!IInv, S!TypeOK
  <2> DEFINE own == [c \in S!Columns(triggers) |-> x.made]
  <2>2. x.made \in 0..MaxRows /\ 0 \in 0..MaxRows
    BY <1>2, RightRows, SchemaAssumption DEF Right, S!RowsOf
  <2>3. own \in [S!Columns(triggers) -> 0..MaxRows]
    BY <2>2
  <2>4. row = [id |-> 0, made |-> 0, refs |-> own]
    BY <2>1 DEF S!Row
  <2>5. ASSUME NEW r \in S!Of(triggers) PROVE own[r.column] \in DOMAIN v3[r.to]
    <3>1. r.to = "cameras" /\ r.to \in S!Named /\ r.column \in S!Columns(triggers)
      BY ReferenceFacts DEF S!Of, S!Named, S!Columns, S!IInv, S!TypeOK
    <3> QED BY <3>1 DEF S!IInv, S!Numbered
  <2> HIDE DEF own, row
  <2>6. row \in S!RowsOf(triggers) /\ row.refs = own
    BY <2>2, <2>3, <2>4 DEF S!RowsOf
  <2>7. S!Refers(triggers, row.refs)
    BY <2>5, <2>6 DEF S!Refers
  <2> QED BY <1>6, <2>1, <2>6, <2>7, RightRows DEF Right
<1> HIDE DEF new, set, row
<1>7. S!IInv'
  <2>1. \A t \in S!Tables : Right(t, v2'[t])
    BY <1>3, <1>5, <1>6, RightRows
  <2> QED BY <1>2, <1>5, <2>1, RightKeepsIInv
<1>8. \A t \in S!Tables : \A y \in v2[t] : \E z \in v2'[t] : z.made = y.made
  BY <1>3, <1>4, <1>5
<1> QED BY <1>7, <1>8, NothingGone DEF S!Tables

\* A row that stays, without what it named that is gone.
LEMMA UnnamedRow ==
    ASSUME S!IInv, NEW t \in S!Tables, NEW y \in v2[t], NEW gone, NEW columns
    PROVE  LET z == S!Unnamed(y, t, gone, columns)
           IN  /\ z \in S!RowsOf(t) /\ z.id = y.id /\ z.made = y.made
               /\ S!Refers(t, z.refs)
               /\ \A c \in S!Columns(t) : z.refs[c] =
                      IF \E r \in S!Of(t) :
                            /\ r.column = c /\ y.refs[c] # 0
                            /\ r.on = "null" \/ <<t, c>> \in columns
                            /\ \E w \in gone[r.to] : w.id = S!Id(r, y.refs[c])
                      THEN 0 ELSE y.refs[c]
<1> DEFINE refs == [c \in S!Columns(t) |->
        IF \E r \in S!Of(t) : /\ r.column = c /\ y.refs[c] # 0
                              /\ r.on = "null" \/ <<t, c>> \in columns
                              /\ \E w \in gone[r.to] : w.id = S!Id(r, y.refs[c])
        THEN 0 ELSE y.refs[c]]
<1>1. S!Unnamed(y, t, gone, columns) = [y EXCEPT !.refs = refs]
  BY DEF S!Unnamed
<1>2. y \in S!RowsOf(t) /\ S!Refers(t, y.refs)
  BY RightRows DEF Right
<1>3. refs \in [S!Columns(t) -> 0..MaxRows]
  BY <1>2, SchemaAssumption DEF S!RowsOf
<1>4. \A c \in S!Columns(t) : refs[c] = 0 \/ refs[c] = y.refs[c]
  OBVIOUS
<1>5. S!Refers(t, refs)
  BY <1>2, <1>4 DEF S!Refers, S!Columns
<1>6. \A c \in S!Columns(t) : refs[c] =
          IF \E r \in S!Of(t) : /\ r.column = c /\ y.refs[c] # 0
                                /\ r.on = "null" \/ <<t, c>> \in columns
                                /\ \E w \in gone[r.to] : w.id = S!Id(r, y.refs[c])
          THEN 0 ELSE y.refs[c]
  OBVIOUS
<1> HIDE DEF refs
<1>7. [y EXCEPT !.refs = refs] \in S!RowsOf(t)
      /\ [y EXCEPT !.refs = refs].refs = refs
      /\ [y EXCEPT !.refs = refs].made = y.made
      /\ [y EXCEPT !.refs = refs].id = y.id
  BY <1>2, <1>3 DEF S!RowsOf
<1> QED BY <1>1, <1>5, <1>6, <1>7

\* What falls with a row: the row, and what names, by a cascade, what falls.
Mentions(y, r, z) == y.refs[r.column] # 0 /\ z.id = S!Id(r, y.refs[r.column])

Fall(table, x) == S!Fallen([t \in S!Tables |-> IF t = table THEN {x} ELSE {}])

LEMMA Falls ==
    ASSUME S!IInv, NEW table \in S!Tables, NEW x \in v2[table]
    PROVE  /\ \A t \in S!Tables : Fall(table, x)[t] \subseteq v2[t]
           /\ x \in Fall(table, x)[table]
           /\ \A r \in v1 : r.on = "cascade" =>
                  \A y \in v2[r.table], z \in Fall(table, x)[r.to] :
                      Mentions(y, r, z) => y \in Fall(table, x)[r.table]
           /\ \A t \in S!Tables : \A y \in Fall(table, x)[t] :
                  \/ t = table /\ y = x
                  \/ \E r \in S!Of(t) : \E z \in Fall(table, x)[r.to] : Mentions(y, r, z)
<1> DEFINE gone == Fall(table, x)
           first == [t \in S!Tables |-> IF t = table THEN {x} ELSE {}]
           more == S!Naming(first, "cascade")
           once == [t \in S!Tables |-> first[t] \cup more[t]]
           twice == S!Naming(once, "cascade")
<1>1. \A t \in S!Tables : gone[t] = once[t] \cup twice[t]
  BY DEF Fall, S!Fallen
<1>2. \A t \in S!Tables : first[t] = (IF t = table THEN {x} ELSE {})
                          /\ once[t] = first[t] \cup more[t]
  OBVIOUS
<1>3. \A t \in S!Tables : \A y : y \in more[t] <=>
          y \in v2[t] /\ \E r \in S!Of(t) : r.on = "cascade" /\ \E z \in first[r.to] : Mentions(y, r, z)
  BY DEF S!Naming, Mentions
<1>4. \A t \in S!Tables : \A y : y \in twice[t] <=>
          y \in v2[t] /\ \E r \in S!Of(t) : r.on = "cascade" /\ \E z \in once[r.to] : Mentions(y, r, z)
  BY DEF S!Naming, Mentions
<1>5. \A r \in v1 : r.to \in S!Tables /\ r.table \in S!Tables /\ r \in S!Of(r.table)
  BY DEF S!Tables, S!Of
<1>6. \A t : \A r \in S!Of(t) : r \in v1 /\ r.table = t
  BY DEF S!Of
<1> HIDE DEF gone, first, more, once, twice
<1>7. \A t \in S!Tables : gone[t] \subseteq v2[t] /\ x \in gone[table]
  BY <1>1, <1>2, <1>3, <1>4
<1>8. ASSUME NEW r \in v1, r.on = "cascade", NEW y \in v2[r.table], NEW z \in gone[r.to],
             Mentions(y, r, z)
      PROVE  y \in gone[r.table]
  <2>1. CASE z \in once[r.to]
    BY <1>1, <1>4, <1>5, <1>8, <2>1
  <2>2. CASE z \in twice[r.to]
    <3>1. PICK s \in S!Of(r.to) : s.on = "cascade" /\ \E w \in once[s.to] : Mentions(z, s, w)
      BY <1>4, <1>5, <2>2
    <3>2. PICK w \in once[s.to] : Mentions(z, s, w)
      BY <3>1
    <3>3. CASE w \in first[s.to]
      <4>1. z \in more[r.to]
        BY <1>1, <1>3, <1>5, <1>7, <3>1, <3>2, <3>3
      <4> QED BY <1>2, <1>5, <2>1, <4>1
    <3>4. CASE w \in more[s.to]
      <4>1. PICK q \in S!Of(s.to) : q.on = "cascade"
        BY <1>3, <1>5, <1>6, <3>4
      <4>2. {r, s, q} \subseteq S!References
        BY <1>6 DEF S!IInv, S!TypeOK
      <4>3. Level(s.table) < Level(r.table) /\ Level(q.table) < Level(s.table)
        BY <1>6, <4>2, ReferenceFacts
      <4>4. \A t : Level(t) \in Nat
        BY DEF Level
      <4>5. r # s /\ s # q /\ r # q
        BY <4>3, <4>4
      <4>6. \E a, b : v1 = {a, b}
        <5>1. \E p \in S!References \X S!References : v1 = {p[1], p[2]}
          BY DEF S!IInv, S!Numbered, S!Slices
        <5> QED BY <5>1
      <4> QED BY <1>6, <4>5, <4>6
    <3> QED BY <1>2, <1>5, <1>6, <3>2, <3>3, <3>4
  <2> QED BY <1>1, <1>5, <2>1, <2>2
<1>9. ASSUME NEW t \in S!Tables, NEW y \in gone[t]
      PROVE  \/ t = table /\ y = x
             \/ \E r \in S!Of(t) : \E z \in gone[r.to] : Mentions(y, r, z)
  <2>1. CASE y \in first[t]
    BY <1>2, <2>1
  <2>2. CASE y \in more[t]
    <3>1. PICK r \in S!Of(t) : \E z \in first[r.to] : Mentions(y, r, z)
      BY <1>3, <2>2
    <3>2. r.to \in S!Tables
      BY <1>5, <1>6
    <3>3. first[r.to] \subseteq gone[r.to]
      BY <1>1, <1>2, <3>2
    <3> QED BY <3>1, <3>3
  <2>3. CASE y \in twice[t]
    <3>1. PICK r \in S!Of(t) : \E z \in once[r.to] : Mentions(y, r, z)
      BY <1>4, <2>3
    <3>2. r.to \in S!Tables
      BY <1>5, <1>6
    <3> QED BY <1>1, <3>1, <3>2
  <2> QED BY <1>1, <1>2, <2>1, <2>2, <2>3
<1> QED BY <1>7, <1>8, <1>9 DEF gone

\* A statement clears what has no foreign key, and no rule's camera.
Clears(table, columns) ==
    /\ \A r \in v1 \ S!Forgotten : r.on = "kept" /\ r.to = table =>
           <<r.table, r.column>> \in columns
    /\ \A t \in {"retention_rules", "automation_rules"} : <<t, "camera_id">> \notin columns

LEMMA SameCardinalities == \A set : S!Cardinality(set) = Cardinality(set)
BY DEF S!Cardinality, Cardinality

LEMMA DeleteKeeps ==
    ASSUME S!IInv, NEW table, NEW columns, S!Delete(table, columns), Clears(table, columns)
    PROVE  S!IInv' /\ S!DeletionExact
<1>1. PICK x \in v2[table] :
        v2' = [t \in S!Tables |->
                  {S!Unnamed(y, t, Fall(table, x), columns) : y \in v2[t] \ Fall(table, x)[t]}]
  BY DEF S!Delete, Fall
<1>2. table \in S!Tables /\ UNCHANGED <<v1, v3>>
  BY DEF S!Delete
<1> DEFINE gone == Fall(table, x)
           After(y, t) == S!Unnamed(y, t, gone, columns)
           set(t) == {After(y, t) : y \in v2[t] \ gone[t]}
<1>3. /\ \A t \in S!Tables : gone[t] \subseteq v2[t]
      /\ x \in gone[table]
      /\ \A r \in v1 : r.on = "cascade" =>
             \A y \in v2[r.table], z \in gone[r.to] : Mentions(y, r, z) => y \in gone[r.table]
      /\ \A t \in S!Tables : \A y \in gone[t] :
             \/ t = table /\ y = x
             \/ \E r \in S!Of(t) : \E z \in gone[r.to] : Mentions(y, r, z)
  BY <1>2, Falls
<1>4. DOMAIN v2' = S!Tables /\ \A t \in S!Tables : v2'[t] = set(t)
  BY <1>1
<1> HIDE DEF gone
<1>5. ASSUME NEW t \in S!Tables, NEW y \in v2[t]
      PROVE  LET z == After(y, t)
             IN  /\ z \in S!RowsOf(t) /\ z.id = y.id /\ z.made = y.made
                 /\ S!Refers(t, z.refs)
                 /\ \A c \in S!Columns(t) : z.refs[c] =
                        IF \E r \in S!Of(t) :
                              /\ r.column = c /\ y.refs[c] # 0
                              /\ r.on = "null" \/ <<t, c>> \in columns
                              /\ \E w \in gone[r.to] : w.id = S!Id(r, y.refs[c])
                        THEN 0 ELSE y.refs[c]
  BY UnnamedRow
<1> HIDE DEF After
<1>6. ASSUME NEW t \in S!Tables PROVE Right(t, set(t))
  <2>1. set(t) \subseteq S!RowsOf(t) /\ \A z \in set(t) : S!Refers(t, z.refs)
    BY <1>5
  <2>2. ASSUME t \in S!Named
        PROVE  /\ \A z \in set(t) : z.id = z.made /\ z.made \in DOMAIN v3[t]
               /\ \A y, z \in set(t) : y.made = z.made => y = z
    <3>1. /\ \A y \in v2[t] : y.id = y.made /\ y.made \in DOMAIN v3[t]
          /\ \A y, z \in v2[t] : y.made = z.made => y = z
      BY <2>2, RightRows DEF Right
    <3>2. \A z \in set(t) : \E y \in v2[t] : z = After(y, t) /\ z.id = y.id /\ z.made = y.made
      BY <1>5
    <3> QED BY <3>1, <3>2
  <2> QED BY <2>1, <2>2 DEF Right
<1>7. S!IInv'
  BY <1>2, <1>4, <1>6, RightKeepsIInv
\* What is gone, by number and by name.
<1>8. ASSUME NEW r \in v1
      PROVE  /\ r.to \in S!Tables /\ r.table \in S!Tables /\ r \in S!Of(r.table)
             /\ r.column \in S!Columns(r.table) /\ r \in S!References
             /\ r.to \in S!Named
  BY DEF S!Tables, S!Of, S!Columns, S!Named, S!IInv, S!TypeOK
<1>9. ASSUME NEW r \in v1, NEW m PROVE m \in S!Gone(r) <=> \E z \in gone[r.to] : z.made = m
  <2>1. \A y, z \in v2[r.to] : y.made = z.made => y = z
    BY <1>8, RightRows DEF Right
  <2>2. \A z \in v2'[r.to] : \E y \in v2[r.to] \ gone[r.to] : z.made = y.made
    BY <1>4, <1>5, <1>8
  <2>3. \A y \in v2[r.to] \ gone[r.to] : \E z \in v2'[r.to] : z.made = y.made
    BY <1>4, <1>5, <1>8
  <2> QED BY <1>3, <1>8, <2>1, <2>2, <2>3 DEF S!Gone
<1>10. ASSUME NEW r \in v1, NEW y \in v2[r.table], NEW z \in gone[r.to]
       PROVE  Mentions(y, r, z) <=> y.refs[r.column] = z.made
  <2>1. z.id = z.made /\ z.made \in DOMAIN v3[r.to] /\ z.made # 0
    BY <1>3, <1>8, NumberedIds, RightRows DEF Right
  <2>2. y.refs[r.column] # 0 => S!Id(r, y.refs[r.column]) = y.refs[r.column]
    BY <1>8, NumberedIds, RightRows DEF Right, S!Refers
  <2> QED BY <2>1, <2>2 DEF Mentions
<1>11. ASSUME NEW r \in v1 \ S!Forgotten, NEW z \in v2'[r.table]
       PROVE  z.refs[r.column] \notin S!Gone(r)
  <2>1. PICK y \in v2[r.table] \ gone[r.table] : z = After(y, r.table)
    BY <1>4, <1>8
  <2>2. SUFFICES ASSUME NEW w \in gone[r.to], z.refs[r.column] = w.made PROVE FALSE
    BY <1>9
  <2>3. w.made # 0
    BY <1>3, <1>8, NumberedIds, RightRows DEF Right
  <2>4. z.refs[r.column] = y.refs[r.column] /\ ~(r.on = "null" \/ <<r.table, r.column>> \in columns)
    <3>1. z.refs[r.column] = y.refs[r.column]
      BY <1>5, <1>8, <2>1, <2>2, <2>3
    <3>2. Mentions(y, r, w)
      BY <1>10, <2>2, <3>1
    <3> QED BY <1>5, <1>8, <2>1, <2>2, <2>3, <3>1, <3>2 DEF Mentions
  <2>5. Mentions(y, r, w)
    BY <1>10, <2>2, <2>4
  <2>6. r.on = "kept"
    BY <1>3, <1>8, <2>1, <2>4, <2>5, ReferenceFacts
  <2>7. Level(r.to) = 0
    BY <1>8, <2>6, ReferenceFacts DEF Level
  <2>8. r.to = table
    <3>1. \A t : Level(t) \in Nat
      BY DEF Level
    <3>2. \A q \in S!Of(r.to) : Level(q.to) < Level(r.to)
      BY ReferenceFacts, <1>8 DEF S!Of
    <3> QED BY <1>3, <1>8, <2>7, <3>1, <3>2
  <2> QED BY <2>4, <2>6, <2>8 DEF Clears
<1>12. ASSUME NEW t \in S!Tables, NEW y \in v2[t],
              \A r \in S!Of(t) : y.refs[r.column] \notin S!Gone(r),
              y \notin v2'[t]
       PROVE  t = table /\ y = x
  <2>1. \A r \in S!Of(t) : r \in v1 /\ r.table = t
    BY DEF S!Of
  <2>2. \A r \in S!Of(t) : \A z \in gone[r.to] : ~Mentions(y, r, z)
    BY <1>9, <1>10, <1>12, <2>1
  <2>3. CASE y \in gone[t]
    BY <1>3, <2>2, <2>3
  <2>4. CASE y \notin gone[t]
    <3>1. y \in S!RowsOf(t) /\ After(y, t) \in S!RowsOf(t)
          /\ After(y, t).id = y.id /\ After(y, t).made = y.made
      BY <1>5, RightRows DEF Right
    <3>2. \A c \in S!Columns(t) : After(y, t).refs[c] = y.refs[c]
      <4>1. ASSUME NEW c \in S!Columns(t)
            PROVE  ~\E r \in S!Of(t) :
                       /\ r.column = c /\ y.refs[c] # 0
                       /\ r.on = "null" \/ <<t, c>> \in columns
                       /\ \E w \in gone[r.to] : w.id = S!Id(r, y.refs[c])
        BY <2>2 DEF Mentions
      <4> QED BY <1>5, <4>1
    <3>3. After(y, t).refs = y.refs
      BY <3>1, <3>2 DEF S!RowsOf
    <3>4. After(y, t) = y
      BY <3>1, <3>3 DEF S!RowsOf
    <3> QED BY <1>4, <1>12, <2>4, <3>4
  <2> QED BY <2>3, <2>4
<1>13. LET spared == {p \in UNION {{t} \X v2[t] : t \in S!Tables} :
                          \A r \in S!Of(p[1]) : p[2].refs[r.column] \notin S!Gone(r)}
       IN  S!Cardinality({p \in spared : p[2] \notin v2'[p[1]]}) <= 1
  <2> DEFINE spared == {p \in UNION {{t} \X v2[t] : t \in S!Tables} :
                           \A r \in S!Of(p[1]) : p[2].refs[r.column] \notin S!Gone(r)}
             lost == {p \in spared : p[2] \notin v2'[p[1]]}
  <2>1. lost \subseteq {<<table, x>>}
    BY <1>12
  <2> HIDE DEF lost
  <2>2. Cardinality(lost) <= 1
    <3>1. IsFiniteSet({<<table, x>>}) /\ Cardinality({<<table, x>>}) = 1
      BY FS_Singleton
    <3> QED BY <2>1, <3>1, FS_Subset
  <2> QED BY <2>2, SameCardinalities DEF lost
<1>14. ASSUME NEW r \in v1, r.table \in {"retention_rules", "automation_rules"},
              r.column = "camera_id", \A y \in v2[r.table] : y.refs[r.column] # 0,
              NEW z \in v2'[r.table]
       PROVE  z.refs[r.column] # 0
  <2>1. PICK y \in v2[r.table] \ gone[r.table] : z = After(y, r.table)
    BY <1>4, <1>8
  <2>2. \A q \in S!Of(r.table) : q.column = "camera_id" => q.on = "cascade"
    BY <1>8, <1>14, ReferenceFacts DEF S!Of
  <2>3. <<r.table, r.column>> \notin columns
    BY <1>14 DEF Clears
  <2>4. z.refs[r.column] = y.refs[r.column]
    BY <1>5, <1>8, <1>14, <2>1, <2>2, <2>3
  <2> QED BY <1>14, <2>1, <2>4
<1> QED BY <1>7, <1>11, <1>13, <1>14 DEF S!DeletionExact

LEMMA SchemaInit == S!Init => S!IInv
<1> SUFFICES ASSUME S!Init PROVE S!IInv
  OBVIOUS
<1>1. v1 \in S!Slices /\ v1 \subseteq S!References
  <2>1. PICK p \in S!References \X S!References : v1 = {p[1], p[2]}
    BY DEF S!Init, S!Slices
  <2> QED BY <2>1 DEF S!Init
<1>2. v2 = [t \in S!Tables |-> {}] /\ v3 = [t \in S!Named |-> <<>>]
  BY DEF S!Init
<1>3. <<>> \in Seq(1..MaxRows) /\ \A n : n \notin DOMAIN <<>>
  OBVIOUS
<1>4. \A t \in S!Named : t \in S!Tables /\ v2[t] = {} /\ v3[t] = <<>>
  BY <1>2 DEF S!Named, S!Tables
<1> QED BY <1>1, <1>2, <1>3, <1>4 DEF S!IInv, S!TypeOK, S!Numbered

LEMMA SchemaStep ==
    ASSUME S!IInv, [S!Next]_S!vars
    PROVE  S!IInv' /\ S!DeletionExact
<1>1. ASSUME UNCHANGED S!vars PROVE S!IInv' /\ S!DeletionExact
  <2>1. v1' = v1 /\ v2' = v2 /\ v3' = v3
    BY <1>1 DEF S!vars
  <2>2. S!IInv'
    <3>1. DOMAIN v2 = S!Tables
      BY DEF S!IInv, S!TypeOK
    <3> QED BY <2>1, <3>1, RightRows, RightKeepsIInv
  <2> QED BY <2>1, <2>2, NothingGone
<1>2. \A t \in {"user_recovery_codes", "user_camera_access", "backup_schedule",
                "notification_event_templates", "birdseye_cameras", "homekit_cameras"} :
          t \notin S!Named
  BY ReferenceFacts DEF S!Named, S!IInv, S!TypeOK
<1>3. ASSUME NEW table, NEW columns,
             table \notin {"storage_targets", "network_accounts"},
             \A t \in {"retention_rules", "automation_rules"} : <<t, "camera_id">> \notin columns
      PROVE  Clears(table, columns)
  BY <1>3, ReferenceFacts DEF Clears, S!IInv, S!TypeOK
<1>4. ASSUME NEW columns
      PROVE  /\ columns = {<<"cameras", "recording_storage_id">>, <<"backup_schedule", "storage_id">>}
                => Clears("storage_targets", columns)
             /\ columns = {<<"cameras", "network_account_id">>}
                => Clears("network_accounts", columns)
  BY ReferenceFacts DEF Clears, S!IInv, S!TypeOK
<1>5. CASE S!Users
  BY <1>2, <1>3, <1>5, InsertsKeep, DeleteKeeps, ReplaceOfKeeps
     DEF S!Users, S!CreateUser, S!DeleteUser, S!ReplaceRecoveryCodes, S!DropRecoveryCodes,
         S!SetUserCameraAccess, S!CreateApiToken, S!DeleteApiToken, S!RecordAuditEvent
<1>6. CASE S!Places
  BY <1>2, <1>4, <1>6, InsertsKeep, DeleteKeeps, ReplaceAllKeeps
     DEF S!Places, S!CreateStorageTarget, S!DeleteStorageTarget, S!UpdateBackupSchedule,
         S!CreateNetworkAccount, S!DeleteNetworkAccount
<1>7. CASE S!Cameras
  BY <1>3, <1>7, CreateCameraKeeps, DeleteKeeps, TriggersKeep, UpdateKeeps
     DEF S!Cameras, S!DeleteCamera, S!UpdateCameraContinuousSettings,
         S!SetCameraNetworkMapping
<1>8. CASE S!Parts
  BY <1>2, <1>3, <1>8, InsertsKeep, DeleteKeeps, ReplaceAllKeeps
     DEF S!Parts, S!Upsert, S!UpsertCameraChannels, S!ReplaceDetections,
         S!UpdateCameraDetectionSettings, S!UpdateCameraAudioDetectionSettings,
         S!CreateCameraDetectionZone, S!DeleteCameraDetectionZone,
         S!IncrementZoneCrossingCount, S!ResetZoneCrossingCounts, S!SetBirdseyeCameraIds,
         S!SetHomekitCameraIds, S!SetLiveLayoutItem, S!UpsertHealthStatus,
         S!UpsertNetworkDeviceStatus
<1>9. CASE S!Archive
  BY <1>3, <1>9, InsertsKeep, DeleteKeeps, UpdateKeeps
     DEF S!Archive, S!Upsert, S!RecordEvent, S!CreateRecording, S!DeleteRecordingMetadata,
         S!CreateRetentionRule, S!UpdateRetentionRule, S!DeleteRetentionRule,
         S!UpsertRecordingEmbedding
<1>10. CASE S!Recognition
  BY <1>3, <1>10, InsertsKeep, DeleteKeeps
     DEF S!Recognition, S!CreateKnownFace, S!DeleteKnownFace, S!CreateKnownPlate,
         S!DeleteKnownPlate, S!CreateRecognitionEvent
<1>11. CASE S!Rules
  BY <1>2, <1>3, <1>11, InsertsKeep, DeleteKeeps, UpdateKeeps, ReplaceOfKeeps
     DEF S!Rules, S!CreateNotificationChannel, S!UpdateNotificationChannel,
         S!DeleteNotificationChannel, S!CreateAutomationRule, S!UpdateAutomationRule,
         S!DeleteAutomationRule
<1> QED BY <1>1, <1>5, <1>6, <1>7, <1>8, <1>9, <1>10, <1>11 DEF S!Next

LEMMA NamesKept == S!IInv => S!NamesWhatItNamed
<1> SUFFICES ASSUME S!IInv, NEW r \in v1, NEW x \in v2[r.table], NEW y \in v2[r.to],
                    x.refs[r.column] # 0, y.id = S!Id(r, x.refs[r.column])
             PROVE  y.made = x.refs[r.column]
  BY DEF S!NamesWhatItNamed
<1>1. r.table \in S!Tables /\ r \in S!Of(r.table) /\ r.to \in S!Named /\ r.to \in S!Tables
  BY DEF S!Tables, S!Of, S!Named
<1>2. y.id = y.made /\ x.refs[r.column] \in DOMAIN v3[r.to]
  BY <1>1, RightRows DEF Right, S!Refers
<1> QED BY <1>2, NumberedIds

-----------------------------------------------------------------------------
(* Accounts and health checks, proved in modules of their own.             *)

AP == INSTANCE Accounts_proofs WITH
    user <- v1, session <- v2, fails <- v3, locked <- v4, wrong <- v5
HP1 == INSTANCE HealthChecks_proofs WITH
    Order <- <<"camera", "stream">>, Buttons <- {1},
    camera <- v1, disk <- v2, broker <- v3, status <- v4, events <- v5,
    round <- v6, lastId <- v7, firstRun <- v8, told <- v9, mixed <- v10,
    changes <- v11, troubles <- v12
HP2 == INSTANCE HealthChecks_proofs WITH
    Order <- <<"storage", "mqtt">>, Buttons <- {1}, MaxEvents <- MaxEvents + 1,
    camera <- v1, disk <- v2, broker <- v3, status <- v4, events <- v5,
    round <- v6, lastId <- v7, firstRun <- v8, told <- v9, mixed <- v10,
    changes <- v11, troubles <- v12

\* The proofs are about the machines of this module: what they say of the
\* program is defined alike.
LEMMA AccountsAlike ==
    /\ A!Init => AP!Init
    /\ [A!Next]_A!accountVars => [AP!Next]_AP!accountVars
    /\ AP!SomeoneRemains <=> A!SomeoneRemains
    /\ AP!GuessesCount <=> A!GuessesCount
<1>1. A!Init => AP!Init
  BY DEF A!Init, AP!Init, A!Fresh, AP!Fresh, A!SignedOut, AP!SignedOut, A!NoUser, AP!NoUser,
         A!NewUser, AP!NewUser, A!NoName, AP!NoName
<1>2. [A!Next]_A!accountVars => [AP!Next]_AP!accountVars
  BY DEF
    A!accountVars, AP!accountVars, A!NoUser, AP!NoUser, A!Roles, AP!Roles,
    A!Fresh, AP!Fresh, A!SignedOut, AP!SignedOut, A!There, AP!There, A!Codes,
    AP!Codes, A!Current, AP!Current, A!Admin, AP!Admin, A!Dismissed,
    AP!Dismissed, A!Failed, AP!Failed, A!Forgiven, AP!Forgiven, A!SignedIn,
    AP!SignedIn, A!Login, AP!Login, A!LoginWrong, AP!LoginWrong, A!Pending,
    AP!Pending, A!Answerable, AP!Answerable, A!VerifyStale, AP!VerifyStale,
    A!VerifyWrong, AP!VerifyWrong, A!Used, AP!Used, A!Verify, AP!Verify,
    A!LockEnds, AP!LockEnds, A!Logout, AP!Logout, A!Refreshed, AP!Refreshed,
    A!OfferSecret, AP!OfferSecret, A!EnableFactor, AP!EnableFactor,
    A!WithoutFactor, AP!WithoutFactor, A!DisableFactor, AP!DisableFactor,
    A!ByAdmin, AP!ByAdmin, A!CreateUser, AP!CreateUser, A!UpdateUser,
    AP!UpdateUser, A!RemoveUser, AP!RemoveUser, A!RescueFactor,
    AP!RescueFactor, A!NewUser, AP!NewUser, A!NoName, AP!NoName, A!Pardoned,
    AP!Pardoned, A!FailedAndPruned, AP!FailedAndPruned, A!Guessed,
    AP!Guessed, A!LoginUnknown, AP!LoginUnknown, A!Restart, AP!Restart,
    A!Next, AP!Next
<1>3. /\ AP!SomeoneRemains <=> A!SomeoneRemains
      /\ AP!GuessesCount <=> A!GuessesCount
  BY DEF A!SomeoneRemains, AP!SomeoneRemains, A!Present, AP!Present, A!There, AP!There,
         A!GuessesCount, AP!GuessesCount
<1> QED BY <1>1, <1>2, <1>3

LEMMA AccountsParams == AP!Params
BY AccountsAssumption DEF AP!Params, AP!NoUser

LEMMA HealthParams == HP1!Params /\ HP2!Params
<1>1. /\ <<"camera", "stream">> \in Seq({"camera", "stream", "storage", "mqtt"})
      /\ <<"storage", "mqtt">> \in Seq({"camera", "stream", "storage", "mqtt"})
      /\ <<"camera", "stream">> # <<>> /\ <<"storage", "mqtt">> # <<>>
  OBVIOUS
<1> QED BY <1>1, HealthAssumption DEF HP1!Params, HP2!Params

LEMMA HealthAlike ==
    /\ (H1!Init => HP1!Init) /\ (H2!Init => HP2!Init)
    /\ [H1!Next]_H1!healthVars => [HP1!Next]_HP1!healthVars
    /\ [H2!Next]_H2!healthVars => [HP2!Next]_HP2!healthVars
    /\ HP1!IInv => H1!ToldOnceInOrder /\ H1!HistoryIsAChain
    /\ HP2!IInv => H2!ToldOnceInOrder /\ H2!HistoryIsAChain
<1>1. H1!Init => HP1!Init
  BY DEF
    H1!Init, HP1!Init, H1!Components, HP1!Components, H1!Rounds, HP1!Rounds,
    H1!Range, HP1!Range, H1!Last, HP1!Last, H1!Loop, HP1!Loop, H1!None, HP1!None, H1!Resting, HP1!Resting
<1>2. [H1!Next]_H1!healthVars => [HP1!Next]_HP1!healthVars
  BY DEF
    H1!healthVars, HP1!healthVars, H1!Range, HP1!Range, H1!Last, HP1!Last, H1!Loop, HP1!Loop, H1!Rounds, HP1!Rounds,
    H1!Components, HP1!Components, H1!Statuses, HP1!Statuses, H1!None,
    HP1!None, H1!Resting, HP1!Resting, H1!Change, HP1!Change,
    H1!CameraChanges, HP1!CameraChanges, H1!DiskChanges, HP1!DiskChanges,
    H1!BrokerChanges, HP1!BrokerChanges, H1!CameraStatus, HP1!CameraStatus,
    H1!StreamStatus, HP1!StreamStatus, H1!StorageStatus, HP1!StorageStatus,
    H1!MqttStatus, HP1!MqttStatus, H1!Found, HP1!Found, H1!Busy, HP1!Busy,
    H1!Begin, HP1!Begin, H1!Look, HP1!Look, H1!Recorded, HP1!Recorded,
    H1!Ended, HP1!Ended, H1!Write, HP1!Write, H1!Known, HP1!Known,
    H1!NewEvents, HP1!NewEvents, H1!Advanced, HP1!Advanced, H1!Report,
    HP1!Report, H1!Fails, HP1!Fails, H1!Restart, HP1!Restart, H1!Next,
    HP1!Next
<1>3. HP1!IInv => H1!ToldOnceInOrder /\ H1!HistoryIsAChain
  BY DEF HP1!IInv, H1!Range, HP1!Range,
    H1!ToldOnceInOrder, HP1!ToldOnceInOrder, H1!NoneSince, HP1!NoneSince,
    H1!Follows, HP1!Follows, H1!HistoryIsAChain, HP1!HistoryIsAChain,
    H1!Components, HP1!Components, H1!None, HP1!None
<1>4. H2!Init => HP2!Init
  BY DEF
    H2!Init, HP2!Init, H2!Components, HP2!Components, H2!Rounds, HP2!Rounds,
    H2!Range, HP2!Range, H2!Last, HP2!Last, H2!Loop, HP2!Loop, H2!None, HP2!None, H2!Resting, HP2!Resting
<1>5. [H2!Next]_H2!healthVars => [HP2!Next]_HP2!healthVars
  BY DEF
    H2!healthVars, HP2!healthVars, H2!Range, HP2!Range, H2!Last, HP2!Last, H2!Loop, HP2!Loop, H2!Rounds, HP2!Rounds,
    H2!Components, HP2!Components, H2!Statuses, HP2!Statuses, H2!None,
    HP2!None, H2!Resting, HP2!Resting, H2!Change, HP2!Change,
    H2!CameraChanges, HP2!CameraChanges, H2!DiskChanges, HP2!DiskChanges,
    H2!BrokerChanges, HP2!BrokerChanges, H2!CameraStatus, HP2!CameraStatus,
    H2!StreamStatus, HP2!StreamStatus, H2!StorageStatus, HP2!StorageStatus,
    H2!MqttStatus, HP2!MqttStatus, H2!Found, HP2!Found, H2!Busy, HP2!Busy,
    H2!Begin, HP2!Begin, H2!Look, HP2!Look, H2!Recorded, HP2!Recorded,
    H2!Ended, HP2!Ended, H2!Write, HP2!Write, H2!Known, HP2!Known,
    H2!NewEvents, HP2!NewEvents, H2!Advanced, HP2!Advanced, H2!Report,
    HP2!Report, H2!Fails, HP2!Fails, H2!Restart, HP2!Restart, H2!Next,
    HP2!Next
<1>6. HP2!IInv => H2!ToldOnceInOrder /\ H2!HistoryIsAChain
  BY DEF HP2!IInv, H2!Range, HP2!Range,
    H2!ToldOnceInOrder, HP2!ToldOnceInOrder, H2!NoneSince, HP2!NoneSince,
    H2!Follows, HP2!Follows, H2!HistoryIsAChain, HP2!HistoryIsAChain,
    H2!Components, HP2!Components, H2!None, HP2!None
<1> QED BY <1>1, <1>2, <1>3, <1>4, <1>5, <1>6

-----------------------------------------------------------------------------
(* The theorems: each says what its machines promise.                      *)

\* Nothing but its own steps changes the variables of the machine chosen.
LEMMA Alone ==
    ASSUME [Next]_serviceVars
    PROVE  /\ which' = which
           /\ which = "accounts" => [A!Next]_A!accountVars
           /\ which = "cloud" => [C!Next]_C!cloudVars
           /\ which = "backups" => [B!Next]_B!backupVars
           /\ which = "homekit" => [K!Next]_K!homekitVars
           /\ which = "webrtc" => [G!Next]_G!gatewayVars
           /\ which = "cameras" => [H1!Next]_H1!healthVars
           /\ which = "storage" => [H2!Next]_H2!healthVars
           /\ which = "startup" => [D!Next]_D!vars
           /\ which = "images" => [I!Next]_I!snapshotVars
           /\ which = "network" => [N!Next]_N!networkVars
           /\ which = "schema" => [S!Next]_S!vars
           /\ which = "packages" => [P!Next]_P!vars
<1>1. which' = which
  BY DEF Next, serviceVars, Install, Locate, SignIn, LogIn, BackUp, Bridge, Stream,
      CheckCameras, CheckStorage, WriteRows, StartUp, TakeImages
<1>2. which = "accounts" => [A!Next]_A!accountVars
  BY DEF Next, serviceVars, A!accountVars, Install, Locate, SignIn, LogIn, BackUp, Bridge, Stream,
      CheckCameras, CheckStorage, WriteRows, StartUp, TakeImages
<1>3. which = "cloud" => [C!Next]_C!cloudVars
  BY DEF Next, serviceVars, C!cloudVars, Install, Locate, SignIn, LogIn, BackUp, Bridge, Stream,
      CheckCameras, CheckStorage, WriteRows, StartUp, TakeImages
<1>4. which = "backups" => [B!Next]_B!backupVars
  BY DEF Next, serviceVars, B!backupVars, Install, Locate, SignIn, LogIn, BackUp, Bridge, Stream,
      CheckCameras, CheckStorage, WriteRows, StartUp, TakeImages
<1>5. which = "homekit" => [K!Next]_K!homekitVars
  BY DEF Next, serviceVars, K!homekitVars, Install, Locate, SignIn, LogIn, BackUp, Bridge, Stream,
      CheckCameras, CheckStorage, WriteRows, StartUp, TakeImages
<1>6. which = "webrtc" => [G!Next]_G!gatewayVars
  BY DEF Next, serviceVars, G!gatewayVars, Install, Locate, SignIn, LogIn, BackUp, Bridge, Stream,
      CheckCameras, CheckStorage, WriteRows, StartUp, TakeImages
<1>7. which = "cameras" => [H1!Next]_H1!healthVars
  BY DEF Next, serviceVars, H1!healthVars, Install, Locate, SignIn, LogIn, BackUp, Bridge, Stream,
      CheckCameras, CheckStorage, WriteRows, StartUp, TakeImages
<1>8. which = "storage" => [H2!Next]_H2!healthVars
  BY DEF Next, serviceVars, H2!healthVars, Install, Locate, SignIn, LogIn, BackUp, Bridge, Stream,
      CheckCameras, CheckStorage, WriteRows, StartUp, TakeImages
<1>9. which = "startup" => [D!Next]_D!vars
  BY DEF Next, serviceVars, D!vars, D!database, D!secret, Install, Locate, SignIn, LogIn, BackUp, Bridge, Stream,
      CheckCameras, CheckStorage, WriteRows, StartUp, TakeImages
<1>10. which = "images" => [I!Next]_I!snapshotVars
  BY DEF Next, serviceVars, I!snapshotVars, Install, Locate, SignIn, LogIn, BackUp, Bridge, Stream,
      CheckCameras, CheckStorage, WriteRows, StartUp, TakeImages
<1>11. which = "network" => [N!Next]_N!networkVars
  BY DEF Next, serviceVars, N!networkVars, Install, Locate, SignIn, LogIn, BackUp, Bridge, Stream,
      CheckCameras, CheckStorage, WriteRows, StartUp, TakeImages
<1>12. which = "schema" => [S!Next]_S!vars
  BY DEF Next, serviceVars, S!vars, Install, Locate, SignIn, LogIn, BackUp, Bridge, Stream,
      CheckCameras, CheckStorage, WriteRows, StartUp, TakeImages
<1>13. which = "packages" => [P!Next]_P!vars
  BY DEF Next, serviceVars, P!vars, P!installVars, P!sourceVars, Install, Locate, SignIn, LogIn, BackUp,
      Bridge, Stream, CheckCameras, CheckStorage, WriteRows, StartUp, TakeImages
<1> QED BY <1>1, <1>2, <1>3, <1>4, <1>5, <1>6, <1>7, <1>8, <1>9, <1>10, <1>11, <1>12, <1>13

\* A machine that is chosen satisfies its inductive invariant; of what another
\* holds in the same variables nothing is said.
Inductive ==
    /\ which = "accounts" => AP!IInv
    /\ which = "cloud" => C!IInv
    /\ which = "backups" => B!IInv
    /\ which = "homekit" => K!IInv
    /\ which = "webrtc" => G!IInv
    /\ which = "cameras" => HP1!IInv
    /\ which = "storage" => HP2!IInv
    /\ which = "startup" => D!IInv
    /\ which = "images" => I!IInv
    /\ which = "network" => N!IInv
    /\ which = "schema" => S!IInv
    /\ which = "packages" => P!IInv

LEMMA InitInductive == Init => Inductive
<1>1. /\ A!Init => AP!IInv
      /\ H1!Init => HP1!IInv
      /\ H2!Init => HP2!IInv
  BY AccountsAlike, AccountsParams, AP!InitIInv,
     HealthAlike, HealthParams, HP1!InitIInv, HP2!InitIInv
<1> QED BY <1>1, CloudInit, BackupsInit, HomeKitInit, GatewayInit, StartupInit, ImagesInit,
           NetworkInit, SchemaInit, PackagesInit
    DEF Init, Inductive

LEMMA StepInductive == Inductive /\ [Next]_serviceVars => Inductive'
<1> SUFFICES ASSUME Inductive, [Next]_serviceVars PROVE Inductive'
  OBVIOUS
<1>1. which' = which
  BY Alone
<1>2. which = "accounts" => AP!IInv'
  BY Alone, AccountsAlike, AccountsParams, AP!StepKeepsIInv DEF Inductive
<1>3. which = "cloud" => C!IInv'
  BY Alone, CloudStep DEF Inductive
<1>4. which = "backups" => B!IInv'
  BY Alone, BackupsStep DEF Inductive
<1>5. which = "homekit" => K!IInv'
  BY Alone, HomeKitStep DEF Inductive
<1>6. which = "webrtc" => G!IInv'
  BY Alone, GatewayStep DEF Inductive
<1>7. which = "cameras" => HP1!IInv'
  BY Alone, HealthAlike, HealthParams, HP1!StepKeepsIInv DEF Inductive
<1>8. which = "storage" => HP2!IInv'
  BY Alone, HealthAlike, HealthParams, HP2!StepKeepsIInv DEF Inductive
<1>9. which = "startup" => D!IInv'
  BY Alone, StartupStep DEF Inductive
<1>10. which = "images" => I!IInv'
  BY Alone, ImagesStep DEF Inductive
<1>11. which = "network" => N!IInv'
  BY Alone, NetworkStep DEF Inductive
<1>12. which = "schema" => S!IInv'
  BY Alone, SchemaStep DEF Inductive
<1>13. which = "packages" => P!IInv'
  BY Alone, PackagesStep DEF Inductive
<1> QED BY <1>1, <1>2, <1>3, <1>4, <1>5, <1>6, <1>7, <1>8, <1>9, <1>10, <1>11, <1>12, <1>13
    DEF Inductive

LEMMA Reached == Spec => []Inductive
BY InitInductive, StepInductive, PTL DEF Spec

\* Every machine keeps its variables in their types, for every value of the
\* constants.
THEOREM TypesAreKept == Spec => []TypeOK
<1>1. AP!IInv => A!TypeOK
  BY DEF AP!IInv, AP!TypeOK, A!TypeOK, AP!NoUser, A!NoUser, AP!Roles, A!Roles, AP!Codes, A!Codes,
         AP!NoName, A!NoName
<1>2. HP1!IInv => H1!TypeOK
  BY DEF HP1!IInv, HP1!TypeOK, H1!TypeOK, HP1!Components, H1!Components, HP1!Answers, H1!Answers,
         HP1!Statuses, H1!Statuses, HP1!None, H1!None, HP1!Rounds, H1!Rounds,
         HP1!Range, H1!Range, HP1!Loop, H1!Loop
<1>3. HP2!IInv => H2!TypeOK
  BY DEF HP2!IInv, HP2!TypeOK, H2!TypeOK, HP2!Components, H2!Components, HP2!Answers, H2!Answers,
         HP2!Statuses, H2!Statuses, HP2!None, H2!None, HP2!Rounds, H2!Rounds,
         HP2!Range, H2!Range, HP2!Loop, H2!Loop
<1>4. Inductive => TypeOK
  BY <1>1, <1>2, <1>3 DEF Inductive, TypeOK, P!IInv, N!IInv, C!IInv, B!IInv, K!IInv, G!IInv,
                          S!IInv, D!IInv, I!IInv
<1> QED BY <1>4, Reached, PTL

\* However synchronisations, uploads, checks and pushes overlap, the source
\* names the commit that is installed, and one error or restart never costs a
\* package in use, for any number of commits and synchronisations, whichever of
\* them are refused (plugin_sources.py, camera_modules/packages.py).
THEOREM PackagesAreWhole == Spec => []PackagesHold
<1>1. Inductive => PackagesHold
  BY PackagesHoldIfOrdered DEF Inductive, PackagesHold
<1> QED BY <1>1, Reached, PTL

\* The last account is never deleted, from however many browsers and with
\* however many users (routers/users.py, remove_user).
THEOREM LastAccountStays == Spec => []SomeoneRemains
<1>1. Inductive => SomeoneRemains
  BY AccountsAlike DEF Inductive, SomeoneRemains, AP!IInv
<1> QED BY <1>1, Reached, PTL

\* The counter that locks an account holds every wrong guess at it, at
\* whichever step and from whichever browser, since its name last signed in
\* completely, it was last renamed, or the counter was last dropped: by pruning
\* while it was not locked, or by a restart (routers/auth.py, main.py).
THEOREM GuessesAreCounted == Spec => []GuessesCount
<1>1. AP!IInv => AP!GuessesCount
  BY DEF AP!IInv, AP!TypeOK, AP!Counted, AP!There, AP!Present, AP!GuessesCount
<1>2. Inductive => GuessesCount
  BY <1>1, AccountsAlike DEF Inductive, GuessesCount
<1> QED BY <1>2, Reached, PTL

\* What an administrator sets outlasts the login attempts, saves and callers
\* that were under way, however many; and no start with another key makes a
\* secret unreadable, for any number of keys (cloud_accounts.py, database.py,
\* cameras.py).
THEOREM EditsSurvive == Spec => []EditSurvives
<1>1. /\ C!IInv => C!EditSurvives
      /\ D!IInv => D!NothingPlain
      /\ I!IInv => I!OldImageExplained
  BY DEF C!IInv, D!IInv, I!IInv
<1>2. Inductive => EditSurvives
  BY <1>1, ReadableIfOrdered DEF Inductive, EditSurvives
<1> QED BY <1>2, Reached, PTL

\* A restore can be undone wherever it stops, pruning keeps a complete archive
\* when at least two are retained, and the program runs only on a complete
\* database, whichever migrations there are (backup.py, database.py).
THEOREM BackupsAreSafe == Spec => BackupsHold
<1>1. /\ B!IInv => B!RestoreUndone
      /\ D!IInv => D!StartsComplete
  BY DEF B!IInv, D!IInv
<1>2. Inductive => /\ which = "backups" => B!RestoreUndone
                   /\ which = "startup" => D!StartsComplete
  BY <1>1 DEF Inductive
<1>3. Inductive /\ [Next]_serviceVars => [which = "backups" => B!ArchiveKept]_serviceVars
  BY Alone, ArchivesKept DEF Inductive
<1> QED BY <1>2, <1>3, Reached, PTL DEF Spec, BackupsHold

\* The bridge, go2rtc and ffmpeg run as the settings and the clock ask, for any
\* cameras, saves, offers and callers (homekit.py, live.py, snapshots.py).
THEOREM ProcessesAreAsSet == Spec => []ProcessesMatch
<1>1. /\ K!IInv => K!ShowsSelection
      /\ G!IInv => G!SettingMatches
      /\ I!IInv => I!TakenWhenDue
  BY DEF K!IInv, G!IInv, I!IInv
<1>2. Inductive => ProcessesMatch
  BY <1>1 DEF Inductive, ProcessesMatch
<1> QED BY <1>2, Reached, PTL

\* No event is told twice or out of order, and histories are chains, with any
\* limit and any number of events and changes (main.py, database.py).
THEOREM HealthIsToldOnce == Spec => []HealthIsTold
<1>1. Inductive => HealthIsTold
  BY HealthAlike DEF Inductive, HealthIsTold
<1> QED BY <1>1, Reached, PTL

\* Whatever is saved, probed or deleted: a camera that stays selected keeps its
\* accessory id, a known place is not erased and its changes are logged, and a
\* deletion takes what belongs to the row and nothing else, for all references
\* of SCHEMA and any number of rows (database.py, set_homekit_camera_ids,
\* upsert_network_device_status and SCHEMA).
THEOREM IdentityIsKept == Spec => KeepsIdentity
<1>1. Inductive => (which = "schema" => S!NamesWhatItNamed)
  BY NamesKept DEF Inductive
<1>2. Inductive /\ [Next]_serviceVars =>
          [/\ which = "homekit" => K!AidKept
           /\ which = "network" => N!PlaceKept
           /\ which = "schema" => S!DeletionExact]_serviceVars
  BY Alone, AidsKept, PlacesKept, SchemaStep DEF Inductive
<1> QED BY <1>1, <1>2, Reached, PTL DEF Spec, KeepsIdentity
=============================================================================
