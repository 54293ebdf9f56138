------------------------------- MODULE Startup -------------------------------
(***************************************************************************)
(* The start of the database and the secrets in it: app/tbc/database.py,   *)
(* initialize and _encrypt_plaintext_secrets_in_place, the functions that  *)
(* write and read secrets, and app/tbc/security.py.                        *)
(*                                                                         *)
(* A start may be cut short anywhere, on a database of any earlier version,*)
(* and TBC_SECRET_KEY may be another one at each start.  One secret is     *)
(* followed, of the `field` that Init chooses.                             *)
(***************************************************************************)
EXTENDS Naturals, Sequences, SequencesExt

CONSTANTS
    Migrations,     \* the columns that MIGRATIONS adds, in its order
    InSchema,       \* those of them that CREATE TABLE has as well
    Keys,           \* values of TBC_SECRET_KEY
    MaxText,        \* bound: secrets an administrator types
    MaxStops        \* bound: stops and crashes

\* Fields with a secret: the password of a camera; of a storage target or the
\* MQTT broker, which their pages show; of a cloud account, as "secret" and as
\* a field that its module names; and likewise of a network account.
Fields == {"camera", "page", "cloud", "cloud_own", "network", "network_own"}

VARIABLES
    phase,      \* down, tables, columns, secrets or running
    exists,     \* the tables exist
    columns,    \* the migrated columns that exist
    at,         \* the next of MIGRATIONS
    settings,   \* the rows with id 1: none, default, or as somebody set them
    targets,    \* the storage targets: the default one, others
    key,        \* the secret key of this process, or the next
    field,      \* the field that is followed
    stored,     \* what the database holds of it
    form,       \* what a page shows of it, until it is posted
    typed,      \* ghost: the text last set
    under,      \* ghost: the key it was encrypted with
    mixed,      \* ghost: what one key encrypted was written back under another
    stops       \* stops and crashes so far

database == <<exists, columns, settings, targets>>
secret == <<field, stored, form, typed, under, mixed>>
vars == <<phase, at, key, stops, database, secret>>

None == "none"

-----------------------------------------------------------------------------
(* Encryption.  A value is a text inside the layers of the keys that it    *)
(* was encrypted with, the outermost last; text 0 is no secret.            *)

Plain(text) == [layers |-> <<>>, text |-> text]

\* encrypt_secret: nothing stays nothing, and all else gets one more layer.
Encrypted(value) ==
    IF value.text = 0 THEN value ELSE [value EXCEPT !.layers = Append(@, key)]

\* decrypt_secret and _decrypt_field: plaintext, and what the key does not fit,
\* come back as they are.
Decrypted(value, k) ==
    IF value.layers # <<>> /\ Last(value.layers) = k
    THEN [layers |-> Front(value.layers), text |-> value.text] ELSE value

IsEncrypted(value) == value.layers # <<>>

\* _encrypt_sensitive_config_values, with the keys the caller passes.
Sensitive(value, named) ==
    IF field \in {"cloud_own", "network_own"} /\ ~named THEN value ELSE Encrypted(value)

-----------------------------------------------------------------------------
(* Start.                                                                  *)

Begin ==
    /\ phase = "down"
    /\ phase' = "tables" /\ at' = 1
    /\ UNCHANGED <<key, stops, database, secret>>

\* CREATE TABLE IF NOT EXISTS
CreateTables ==
    /\ phase = "tables"
    /\ phase' = "columns" /\ exists' = TRUE
    /\ columns' = IF exists THEN columns ELSE InSchema
    /\ UNCHANGED <<at, key, stops, settings, targets, secret>>

\* Mutant: a column that is there already ends the migrations.
AddColumnOnce ==
    /\ phase = "columns" /\ at <= Len(Migrations)
    /\ columns' = columns \cup {Migrations[at]}
    /\ at' = IF Migrations[at] \in columns THEN Len(Migrations) + 1 ELSE at + 1
    /\ UNCHANGED <<phase, key, stops, exists, settings, targets, secret>>

\* ALTER TABLE commits by itself; "duplicate column name" is passed over.
AddColumn ==
    /\ phase = "columns" /\ at <= Len(Migrations)
    /\ columns' = columns \cup {Migrations[at]}
    /\ at' = at + 1
    /\ UNCHANGED <<phase, key, stops, exists, settings, targets, secret>>

\* One transaction: a storage target if there is none, INSERT OR IGNORE.
InsertDefaults ==
    /\ phase = "columns" /\ at > Len(Migrations)
    /\ phase' = "secrets"
    /\ targets' = IF targets = {} THEN {"default"} ELSE targets
    /\ settings' = IF settings = None THEN "default" ELSE settings
    /\ UNCHANGED <<at, key, stops, exists, columns, secret>>

\* Mutant: encrypts again what is encrypted.
Doubly(value) == Encrypted(value)

\* The fields that the pass goes through, and "secret" of the cloud accounts.
Upgraded(value) == IF IsEncrypted(value) THEN value ELSE Encrypted(value)

EncryptPlaintext ==
    /\ phase = "secrets"
    /\ phase' = "running"
    /\ IF field \in {"camera", "page", "cloud"}
       THEN /\ stored' = Upgraded(stored)
            /\ under' = IF IsEncrypted(stored) THEN under ELSE key
       ELSE UNCHANGED <<stored, under>>
    /\ UNCHANGED <<at, key, stops, database, field, form, typed, mixed>>

\* A stop or a crash; what the transaction had done is undone.
Stop ==
    /\ phase # "down" /\ stops < MaxStops
    /\ phase' = "down" /\ stops' = stops + 1
    /\ UNCHANGED <<at, key, database, secret>>

ChangeKey(k) ==
    /\ phase = "down" /\ k # key
    /\ key' = k
    /\ UNCHANGED <<phase, at, stops, database, secret>>

-----------------------------------------------------------------------------
(* Running.                                                                *)

SaveSettings ==
    /\ phase = "running"
    /\ settings' = "set"
    /\ UNCHANGED <<phase, at, key, stops, exists, columns, targets, secret>>

SaveTargets(to) ==
    /\ phase = "running"
    /\ targets' = to
    /\ UNCHANGED <<phase, at, key, stops, exists, columns, settings, secret>>

\* What is written becomes what should be read, unless another key's ciphertext
\* was taken for the secret itself.
Write(value, encrypted) ==
    /\ stored' = encrypted
    /\ IF IsEncrypted(value)
       THEN mixed' = TRUE /\ UNCHANGED <<typed, under>>
       ELSE mixed' = FALSE /\ typed' = value.text /\ under' = key
    /\ UNCHANGED <<phase, at, key, stops, database, field>>

\* A camera is added or edited; an empty password keeps the old one.
SaveCamera(text) ==
    /\ phase = "running" /\ field = "camera"
    /\ Write(Plain(text), Encrypted(Plain(text)))
    /\ UNCHANGED form

\* The page shows the secret, and what it shows comes back with the others.
ShowPage ==
    /\ phase = "running" /\ field = "page"
    /\ form' = <<Decrypted(stored, key)>>
    /\ UNCHANGED <<phase, at, key, stops, database, field, stored, typed, under, mixed>>

CreateTarget(text) ==
    /\ phase = "running" /\ field = "page" /\ stored.text = 0
    /\ Write(Plain(text), Encrypted(Plain(text)))
    /\ UNCHANGED form

Posted(text) ==
    /\ phase = "running" /\ field = "page" /\ form # <<>>
    /\ LET value == IF text = 0 THEN form[1] ELSE Plain(text)
       IN  Write(value, Encrypted(value))
    /\ form' = <<>>

SaveTarget(text) == Posted(text)
SaveMqtt(text) == Posted(text)

\* An account is added, or edited: an empty password stands for the old one.
SaveCloudAccount(text) ==
    /\ phase = "running" /\ field \in {"cloud", "cloud_own"}
    /\ LET value == IF text = 0 THEN Decrypted(stored, key) ELSE Plain(text)
       IN  Write(value, Sensitive(value, TRUE))
    /\ UNCHANGED form

SaveNetworkAccount(text) ==
    /\ phase = "running" /\ field \in {"network", "network_own"}
    /\ LET value == IF text = 0 THEN Decrypted(stored, key) ELSE Plain(text)
       IN  Write(value, Sensitive(value, TRUE))
    /\ UNCHANGED form

\* clear_cloud_account_configuration_fields writes the configuration back, and
\* does not say which of its keys are passwords.
ClearFields ==
    /\ phase = "running" /\ field \in {"cloud", "cloud_own"}
    /\ LET value == Decrypted(stored, key)
       IN  Write(value, Sensitive(value, FALSE))
    /\ UNCHANGED form

-----------------------------------------------------------------------------
Next ==
    \/ Begin \/ CreateTables \/ AddColumn \/ InsertDefaults \/ EncryptPlaintext \/ Stop
    \/ \E k \in Keys : ChangeKey(k)
    \/ SaveSettings
    \/ \E to \in SUBSET {"default", "other"} : SaveTargets(to)
    \/ \E text \in 1..MaxText : SaveCamera(text) \/ CreateTarget(text)
    \/ ShowPage
    \/ \E text \in 0..MaxText :
        SaveTarget(text) \/ SaveMqtt(text) \/ SaveCloudAccount(text) \/ SaveNetworkAccount(text)
    \/ ClearFields

\* No database, or one of an earlier version with or without a secret, which
\* was kept as plaintext then.
Init ==
    /\ phase = "down" /\ at = 1 /\ stops = 0
    /\ key \in Keys /\ field \in Fields
    /\ \/ /\ exists = FALSE /\ columns = {} /\ settings = None /\ targets = {}
          /\ stored = Plain(0)
       \/ /\ exists = TRUE /\ settings \in {None, "set"} /\ targets \in SUBSET {"default", "other"}
          /\ \E n \in 0..Len(Migrations) : columns = {Migrations[i] : i \in 1..n}
          /\ stored \in {Plain(0), Plain(1)}
    /\ form = <<>> /\ typed = stored.text /\ under = key /\ mixed = FALSE

Spec == Init /\ [][Next]_vars

-----------------------------------------------------------------------------
(* Properties.                                                             *)

Secrets == [layers : Seq(Keys), text : 0..MaxText]
TypeOK ==
    /\ phase \in {"down", "tables", "columns", "secrets", "running"}
    /\ columns \subseteq ToSet(Migrations) /\ at \in 1..(Len(Migrations) + 1)
    /\ settings \in {None, "default", "set"} /\ targets \subseteq {"default", "other"}
    /\ key \in Keys /\ under \in Keys /\ field \in Fields
    /\ exists \in BOOLEAN /\ mixed \in BOOLEAN
    /\ stored \in Secrets /\ typed \in 0..MaxText
    /\ form = <<>> \/ form[1] \in Secrets

\* Whatever the version of the database and wherever earlier starts were cut
\* short, the program only runs on a database with every table, every column
\* and the rows that its pages take for granted (initialize).
StartsComplete ==
    phase = "running" =>
        /\ exists /\ columns = ToSet(Migrations) /\ settings # None

\* A secret reads as it was typed under the key it was stored with, however
\* often the program was started in between, with whatever key, unless a form
\* or a login attempt wrote it back under a key that does not fit.
SecretReadable ==
    ~mixed /\ typed # 0 => Decrypted(stored, under) = Plain(typed)

\* While the program runs, no secret that the upgrade pass knows is plaintext,
\* whether it was typed, shown and posted, or written back after a login.
NothingPlain ==
    phase = "running" /\ field \in {"camera", "page", "cloud"} =>
        stored.text = 0 \/ IsEncrypted(stored)

\* Not so for a password of a cloud account that is not called "secret": a login
\* attempt that clears a one-time code stores it as plaintext.
OwnStaysEncrypted ==
    IsEncrypted(stored) => stored'.text = 0 \/ IsEncrypted(stored')

\* Why it holds: AddColumn passes over nothing, and what is not written back
\* under another key has at most the one layer it was stored with.
Ordered ==
    /\ phase = "tables" => at = 1
    /\ phase \in {"columns", "secrets", "running"} => exists
    /\ phase = "columns" => {Migrations[i] : i \in 1..(at - 1)} \subseteq columns
    /\ phase \in {"secrets", "running"} =>
           columns = ToSet(Migrations) /\ settings # None
    /\ ~mixed => stored.text = typed /\ stored.layers \in {<<>>, <<under>>}

IInv == TypeOK /\ StartsComplete /\ NothingPlain /\ Ordered
=============================================================================
