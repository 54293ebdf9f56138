------------------------------- MODULE Schema -------------------------------
(***************************************************************************)
(* Which rows of the database name which, and what becomes of them when a  *)
(* row is deleted: app/tbc/database.py, SCHEMA and the functions that      *)
(* write it.  Some references are foreign keys, which SQLite checks at     *)
(* every write and follows at every deletion; others are plain numbers,    *)
(* which only the code looks after.                                        *)
(*                                                                         *)
(* Init chooses a slice, one or two references that touch each other, and  *)
(* the state holds the rows of their tables.  A caller may come with any   *)
(* id it ever saw: a page rendered, or a row read, before a deletion.      *)
(***************************************************************************)
EXTENDS Naturals, Sequences, FiniteSets, FiniteSetsExt

CONSTANT MaxRows    \* bound: rows ever made of a table that others name

VARIABLES
    slice,  \* the references looked at
    rows,   \* table -> its rows; a row that others name has an id
    ever    \* table -> the ids it gave, in the order of the rows made

vars == <<slice, rows, ever>>

Reference(table, column, to, on) == [table |-> table, column |-> column, to |-> to, on |-> on]

-----------------------------------------------------------------------------
(* The tables.  `on` is "cascade" or "null" for ON DELETE CASCADE and SET  *)
(* NULL, and "kept" if there is no foreign key.                            *)

AccountReferences ==
    {Reference("user_recovery_codes", "user_id", "users", "cascade")}

CameraReferences ==
    {Reference("cameras", "recording_storage_id", "storage_targets", "kept"),
     Reference("cameras", "continuous_storage_id", "storage_targets", "kept")}

AccessReferences ==
    {Reference("user_camera_access", "user_id", "users", "cascade"),
     Reference("user_camera_access", "camera_id", "cameras", "cascade")}

ScheduleReferences ==
    {Reference("backup_schedule", "storage_id", "storage_targets", "null")}

\* The tables of the parts and the settings of one camera.
CameraParts ==
    {"camera_channels", "camera_detections", "camera_recording_triggers",
     "camera_detection_settings", "camera_audio_detection_settings",
     "camera_detection_zones"}

CameraPartReferences ==
    {Reference(part, "camera_id", "cameras", "cascade") : part \in CameraParts}

\* Mutant: a rule of a deleted camera becomes one of all cameras.
ArchiveReferencesNulled ==
    {Reference("camera_events", "camera_id", "cameras", "cascade"),
     Reference("recordings", "camera_id", "cameras", "cascade"),
     Reference("recordings", "storage_id", "storage_targets", "null"),
     Reference("retention_rules", "camera_id", "cameras", "null")}

ArchiveReferences ==
    {Reference("camera_events", "camera_id", "cameras", "cascade"),
     Reference("recordings", "camera_id", "cameras", "cascade"),
     Reference("recordings", "storage_id", "storage_targets", "null"),
     Reference("retention_rules", "camera_id", "cameras", "cascade")}

TemplateReferences ==
    {Reference("notification_event_templates", "channel_id", "notification_channels",
               "cascade")}

HealthReferences == {Reference("health_status", "component_id", "cameras", "kept")}

TokenReferences ==
    {Reference("api_tokens", "created_by_user_id", "users", "null"),
     Reference("audit_log", "user_id", "users", "kept")}

WallReferences ==
    {Reference("live_layout", "live_key", "cameras", "kept"),
     Reference("birdseye_cameras", "camera_id", "cameras", "cascade"),
     Reference("homekit_cameras", "camera_id", "cameras", "cascade")}

RecognitionReferences ==
    {Reference("recognition_events", "recording_id", "recordings", "cascade"),
     Reference("recognition_events", "camera_id", "cameras", "cascade"),
     Reference("recognition_events", "matched_face_id", "known_faces", "null"),
     Reference("recognition_events", "matched_plate_id", "known_plates", "null")}

EmbeddingReferences ==
    {Reference("recording_embeddings", "recording_id", "recordings", "cascade")}

CrossingReferences ==
    {Reference("camera_zone_crossing_counts", "zone_id", "camera_detection_zones",
               "cascade")}

AutomationReferences ==
    {Reference("automation_rules", "camera_id", "cameras", "cascade"),
     Reference("automation_rules", "matched_face_id", "known_faces", "null"),
     Reference("automation_rules", "matched_plate_id", "known_plates", "null"),
     Reference("automation_rules", "notification_channel_id", "notification_channels",
               "cascade")}

NetworkReferences ==
    {Reference("network_device_status", "camera_id", "cameras", "cascade"),
     Reference("network_device_events", "camera_id", "cameras", "cascade"),
     Reference("cameras", "network_account_id", "network_accounts", "kept")}

References ==
    AccountReferences \cup CameraReferences \cup AccessReferences \cup ScheduleReferences
    \cup CameraPartReferences \cup ArchiveReferences \cup TemplateReferences
    \cup HealthReferences \cup TokenReferences \cup WallReferences
    \cup RecognitionReferences \cup EmbeddingReferences \cup CrossingReferences
    \cup AutomationReferences \cup NetworkReferences

\* Columns that may be NULL: those that are not declared NOT NULL.
Optional(r) ==
    \/ r.on \in {"null", "kept"} /\ r.column \notin {"component_id", "live_key"}
    \/ r.table = "recognition_events" /\ r.column = "recording_id"
    \/ r.table \in {"retention_rules", "automation_rules"} /\ r.column = "camera_id"

\* What nobody clears: the storage target of continuous recording, and what
\* the health page, the audit log and the arrangement of the live wall keep.
Forgotten ==
    {r \in References : \/ r.column = "continuous_storage_id"
                        \/ r.table \in {"health_status", "audit_log", "live_layout"}}

-----------------------------------------------------------------------------
(* Rows.  A reference is the number of the row it was made for, 0 if NULL; *)
(* what the code sees of it is the id that row was given.                  *)

Tables == {r.table : r \in slice} \cup {r.to : r \in slice}
Named == {r.to : r \in slice}
Of(table) == {r \in slice : r.table = table}
Columns(table) == {r.column : r \in Of(table)}

Id(r, made) == ever[r.to][made]

\* Mutant: without AUTOINCREMENT, one more than the largest id in the table.
NextFreeId(table) == 1 + Max({0} \cup {x.id : x \in rows[table]})

\* INTEGER PRIMARY KEY AUTOINCREMENT: one more than the largest id ever given.
NextId(table) == 1 + Max({0} \cup {ever[table][n] : n \in DOMAIN ever[table]})

Exists(r, made) == \E x \in rows[r.to] : x.id = Id(r, made)

\* What a caller may ask for, and what the foreign keys let through.
Asked(table) ==
    {refs \in [Columns(table) -> 0..MaxRows] :
        \A r \in Of(table) :
            IF refs[r.column] = 0 THEN Optional(r)
            ELSE refs[r.column] \in DOMAIN ever[r.to]}

Passes(table, refs) ==
    \A r \in Of(table) :
        r.on # "kept" /\ refs[r.column] # 0 => Exists(r, refs[r.column])

Row(table, refs) ==
    IF table \in Named
    THEN [id |-> NextId(table), made |-> Len(ever[table]) + 1, refs |-> refs]
    ELSE [id |-> 0, made |-> 0, refs |-> refs]

-----------------------------------------------------------------------------
(* The kinds of statements.  Each is one transaction: a foreign key that   *)
(* does not hold undoes it.                                                *)

InsertRow(table, refs) ==
    /\ Passes(table, refs)
    /\ table \in Named => Len(ever[table]) < MaxRows
    /\ rows' = [rows EXCEPT ![table] = @ \cup {Row(table, refs)}]
    /\ ever' = IF table \in Named
               THEN [ever EXCEPT ![table] = Append(@, NextId(table))]
               ELSE ever
    /\ UNCHANGED slice

Insert(table) == table \in Tables /\ \E refs \in Asked(table) : InsertRow(table, refs)

\* ON CONFLICT DO UPDATE: the row of the same key, if there is one, stays.  No
\* row names one of these, so that two rows that name the same are one here.
Upsert(table) == Insert(table)

\* UPDATE ... WHERE id = ?
Update(table, columns) ==
    /\ table \in Tables /\ columns \cap Columns(table) # {}
    /\ \E x \in rows[table], refs \in Asked(table) :
        /\ \A c \in Columns(table) \ columns : refs[c] = x.refs[c]
        /\ Passes(table, refs)
        /\ rows' = [rows EXCEPT ![table] = (@ \ {x}) \cup {[x EXCEPT !.refs = refs]}]
    /\ UNCHANGED <<slice, ever>>

\* DELETE ... WHERE column = ?, then INSERT for each of the new values.
ReplaceOf(table, column) ==
    /\ table \in Tables
    /\ \E r \in Of(table), new \in SUBSET {Row(table, refs) : refs \in Asked(table)} :
        /\ r.column = column
        /\ \E owner \in DOMAIN ever[r.to] :
            /\ \A x \in new : x.refs[column] = owner /\ Passes(table, x.refs)
            /\ rows' = [rows EXCEPT ![table] =
                   {x \in @ : Id(r, x.refs[column]) # Id(r, owner)} \cup new]
    /\ UNCHANGED <<slice, ever>>

\* DELETE of the whole table, then INSERT.
ReplaceAll(table) ==
    /\ table \in Tables
    /\ \E new \in SUBSET {Row(table, refs) : refs \in Asked(table)} :
        /\ \A x \in new : Passes(table, x.refs)
        /\ rows' = [rows EXCEPT ![table] = new]
    /\ UNCHANGED <<slice, ever>>

\* The rows that name one of `gone`, through a reference declared `on`.
Naming(gone, on) ==
    [t \in Tables |->
        {x \in rows[t] : \E r \in Of(t) :
            /\ r.on = on /\ x.refs[r.column] # 0
            /\ \E y \in gone[r.to] : y.id = Id(r, x.refs[r.column])}]

\* What falls with `first`; two steps reach the end of a slice.
Fallen(first) ==
    LET once  == [t \in Tables |-> first[t] \cup Naming(first, "cascade")[t]]
        twice == Naming(once, "cascade")
    IN  [t \in Tables |-> once[t] \cup twice[t]]

Unnamed(x, t, gone, columns) ==
    [x EXCEPT !.refs = [c \in Columns(t) |->
        IF \E r \in Of(t) : /\ r.column = c /\ x.refs[c] # 0
                            /\ r.on = "null" \/ <<t, c>> \in columns
                            /\ \E y \in gone[r.to] : y.id = Id(r, x.refs[c])
        THEN 0 ELSE x.refs[c]]]

\* DELETE ... WHERE id = ?, after the statements that clear `columns`.
Delete(table, columns) ==
    /\ table \in Tables
    /\ \E x \in rows[table] :
        LET gone == Fallen([t \in Tables |-> IF t = table THEN {x} ELSE {}])
        IN  rows' = [t \in Tables |->
                {Unnamed(y, t, gone, columns) : y \in rows[t] \ gone[t]}]
    /\ UNCHANGED <<slice, ever>>

-----------------------------------------------------------------------------
(* The functions.                                                          *)

CreateUser == Insert("users")
DeleteUser == Delete("users", {})
ReplaceRecoveryCodes == ReplaceOf("user_recovery_codes", "user_id")
DropRecoveryCodes == Delete("user_recovery_codes", {})
SetUserCameraAccess == ReplaceOf("user_camera_access", "user_id")
CreateApiToken == Insert("api_tokens")
DeleteApiToken == Delete("api_tokens", {})
RecordAuditEvent == Insert("audit_log")

CreateStorageTarget == Insert("storage_targets")
DeleteStorageTarget == Delete("storage_targets", {<<"cameras", "recording_storage_id">>,
                                                  <<"backup_schedule", "storage_id">>})
UpdateBackupSchedule == ReplaceAll("backup_schedule")

CreateCamera ==
    "cameras" \in Tables /\ InsertRow("cameras", [c \in Columns("cameras") |-> 0])
DeleteCamera == Delete("cameras", {})

\* update_camera_recording_settings writes the row and the camera's triggers.
UpdateCameraRecordingSettings ==
    /\ "cameras" \in Tables
    /\ {"camera_recording_triggers"} \cap Tables # {}
       \/ "recording_storage_id" \in Columns("cameras")
    /\ \E x \in rows["cameras"], refs \in Asked("cameras") :
        /\ \A c \in Columns("cameras") \ {"recording_storage_id"} : refs[c] = x.refs[c]
        /\ rows' = [t \in Tables |->
                CASE t = "cameras" -> (rows[t] \ {x}) \cup {[x EXCEPT !.refs = refs]}
                  [] t = "camera_recording_triggers" ->
                        rows[t] \cup {Row(t, [c \in Columns(t) |-> x.made])}
                  [] OTHER -> rows[t]]
    /\ UNCHANGED <<slice, ever>>
UpdateCameraContinuousSettings == Update("cameras", {"continuous_storage_id"})

UpsertCameraChannels == Upsert("camera_channels")
ReplaceDetections == Upsert("camera_detections")
UpdateCameraDetectionSettings == Upsert("camera_detection_settings")
UpdateCameraAudioDetectionSettings == Upsert("camera_audio_detection_settings")
CreateCameraDetectionZone == Insert("camera_detection_zones")
DeleteCameraDetectionZone == Delete("camera_detection_zones", {})
IncrementZoneCrossingCount == Upsert("camera_zone_crossing_counts")
ResetZoneCrossingCounts == Delete("camera_zone_crossing_counts", {})
SetBirdseyeCameraIds == ReplaceAll("birdseye_cameras")
SetHomekitCameraIds == ReplaceAll("homekit_cameras")
SetLiveLayoutItem == Upsert("live_layout")
UpsertHealthStatus == Upsert("health_status")

CreateNetworkAccount == Insert("network_accounts")
\* Mutant: the cameras keep the account.
DeleteNetworkAccountOnly == Delete("network_accounts", {})
DeleteNetworkAccount == Delete("network_accounts", {<<"cameras", "network_account_id">>})
SetCameraNetworkMapping == Update("cameras", {"network_account_id"})
UpsertNetworkDeviceStatus == Upsert("network_device_status") \/ Insert("network_device_events")

RecordEvent == Insert("camera_events")
CreateRecording == Insert("recordings")
DeleteRecordingMetadata == Delete("recordings", {})
CreateRetentionRule == Insert("retention_rules")
UpdateRetentionRule == Update("retention_rules", {"camera_id"})
DeleteRetentionRule == Delete("retention_rules", {})
UpsertRecordingEmbedding == Upsert("recording_embeddings")

CreateKnownFace == Insert("known_faces")
DeleteKnownFace == Delete("known_faces", {})
CreateKnownPlate == Insert("known_plates")
DeleteKnownPlate == Delete("known_plates", {})
CreateRecognitionEvent == Insert("recognition_events")

CreateNotificationChannel == Insert("notification_channels")
UpdateNotificationChannel == ReplaceOf("notification_event_templates", "channel_id")
DeleteNotificationChannel == Delete("notification_channels", {})
CreateAutomationRule == Insert("automation_rules")
UpdateAutomationRule == Update("automation_rules", Columns("automation_rules"))
DeleteAutomationRule == Delete("automation_rules", {})

Users ==
    \/ CreateUser \/ DeleteUser \/ ReplaceRecoveryCodes \/ DropRecoveryCodes
    \/ SetUserCameraAccess \/ CreateApiToken \/ DeleteApiToken \/ RecordAuditEvent
Places ==
    \/ CreateStorageTarget \/ DeleteStorageTarget \/ UpdateBackupSchedule
    \/ CreateNetworkAccount \/ DeleteNetworkAccount
Cameras ==
    \/ CreateCamera \/ DeleteCamera \/ UpdateCameraRecordingSettings
    \/ UpdateCameraContinuousSettings \/ SetCameraNetworkMapping
Parts ==
    \/ UpsertCameraChannels \/ ReplaceDetections \/ UpdateCameraDetectionSettings
    \/ UpdateCameraAudioDetectionSettings \/ CreateCameraDetectionZone
    \/ DeleteCameraDetectionZone \/ IncrementZoneCrossingCount
    \/ ResetZoneCrossingCounts \/ SetBirdseyeCameraIds \/ SetHomekitCameraIds
    \/ SetLiveLayoutItem \/ UpsertHealthStatus \/ UpsertNetworkDeviceStatus
Archive ==
    \/ RecordEvent \/ CreateRecording \/ DeleteRecordingMetadata
    \/ CreateRetentionRule \/ UpdateRetentionRule \/ DeleteRetentionRule
    \/ UpsertRecordingEmbedding
Recognition ==
    \/ CreateKnownFace \/ DeleteKnownFace \/ CreateKnownPlate \/ DeleteKnownPlate
    \/ CreateRecognitionEvent
Rules ==
    \/ CreateNotificationChannel \/ UpdateNotificationChannel
    \/ DeleteNotificationChannel \/ CreateAutomationRule \/ UpdateAutomationRule
    \/ DeleteAutomationRule

Next == Users \/ Places \/ Cameras \/ Parts \/ Archive \/ Recognition \/ Rules

\* A slice is a reference alone, or two of one table, or one after the other.
Slices ==
    {{p[1], p[2]} : p \in {p \in References \X References :
        p[1].table = p[2].table \/ p[1].to = p[2].table}}

Init ==
    /\ slice \in Slices
    /\ rows = [t \in Tables |-> {}]
    /\ ever = [t \in Named |-> <<>>]

Spec == Init /\ [][Next]_vars

-----------------------------------------------------------------------------
(* Properties.                                                             *)

RowsOf(t) == [id : 0..MaxRows, made : 0..MaxRows, refs : [Columns(t) -> 0..MaxRows]]

TypeOK ==
    /\ slice \in SUBSET References
    /\ ever \in [Named -> Seq(1..MaxRows)]
    /\ DOMAIN rows = Tables /\ \A t \in Tables : rows[t] \subseteq RowsOf(t)

\* What names a row never comes to name another one, not even what no foreign
\* key checks or what a page kept while the row was deleted: an id is not given
\* twice (AUTOINCREMENT in SCHEMA).
NamesWhatItNamed ==
    \A r \in slice : \A x \in rows[r.table] : \A y \in rows[r.to] :
        x.refs[r.column] # 0 /\ y.id = Id(r, x.refs[r.column]) => y.made = x.refs[r.column]

Gone(r) == {y.made : y \in rows[r.to]} \ {y.made : y \in rows'[r.to]}

\* A deletion takes what belongs to the row and nothing else: no reference to
\* it stays but those nobody clears (Forgotten); a row whose references all
\* survive survives, except the deleted one; and a retention or automation rule
\* made for one camera never comes to hold for all (SCHEMA, delete_...).
DeletionExact ==
    (\E r \in slice : Gone(r) # {}) =>
        /\ \A r \in slice \ Forgotten : \A x \in rows'[r.table] :
               x.refs[r.column] \notin Gone(r)
        /\ LET spared == {p \in UNION {{t} \X rows[t] : t \in Tables} :
                             \A r \in Of(p[1]) : p[2].refs[r.column] \notin Gone(r)}
           IN  Cardinality({p \in spared : p[2] \notin rows'[p[1]]}) <= 1
        /\ \A r \in slice :
               /\ r.table \in {"retention_rules", "automation_rules"}
               /\ r.column = "camera_id"
               /\ \A x \in rows[r.table] : x.refs[r.column] # 0
               => \A x \in rows'[r.table] : x.refs[r.column] # 0

\* Why it holds: since no id is given twice, a row's id says which row of its
\* table it was.
Refers(t, refs) ==
    \A r \in Of(t) : refs[r.column] # 0 => refs[r.column] \in DOMAIN ever[r.to]
Numbered ==
    /\ slice \in Slices
    /\ \A t \in Named : \A n \in DOMAIN ever[t] : ever[t][n] = n
    /\ \A t \in Named : /\ \A x \in rows[t] : x.id = x.made /\ x.made \in DOMAIN ever[t]
                        /\ \A x, y \in rows[t] : x.made = y.made => x = y
    /\ \A t \in Tables : \A x \in rows[t] : Refers(t, x.refs)

IInv == TypeOK /\ Numbered
=============================================================================
