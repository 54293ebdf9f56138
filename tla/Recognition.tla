----------------------------- MODULE Recognition -----------------------------
(***************************************************************************)
(* Face and plate recognition, the notifications it sends and the          *)
(* automation rules it fires: detection/recognition.py, notifications.py,  *)
(* automation.py, routers/automation.py, routers/detection_recognition.py. *)
(* Each call of process_recognition runs in a thread of its own; the pages *)
(* write the same tables between any two of its statements.                *)
(***************************************************************************)
EXTENDS Naturals, Sequences, FiniteSets

CONSTANTS
    Workers,    \* threads that run process_recognition
    Ids,        \* ids of known faces or plates, from 1; none is used again
    Looks,      \* faces or plate texts that can be told apart, from 1
    Rules,      \* automation rules on recognition events
    Cooldowns,  \* values of cooldown_seconds an administrator saves
    MaxClock,   \* bound: seconds that pass
    MaxEvents,  \* bound: calls of process_recognition
    MaxEdits    \* bound: writes of the pages

VARIABLES
    kind,       \* "face" or "plate"
    settings,   \* recognition_settings of that kind
    known,      \* known_faces or known_plates: id -> look
    rule,       \* automation_rules
    channel,    \* the notification channel of the rules
    event,      \* recognition_events, by the number of the call
    worker,     \* where each thread stands, and its local variables
    clock,      \* CURRENT_TIMESTAMP
    calls,      \* bound: calls so far
    edits,      \* bound: writes so far
    claims,     \* history: the claims of each rule
    sent        \* history: messages that left, [call, via]

recognitionVars == <<kind, settings, known, rule, channel, event, worker,
                     clock, calls, edits, claims, sent>>

Unset == 0          \* no id, and a rule that is not limited to one
Nobody == 1000      \* unknown_only
Unused == 0         \* an id that was never given
Removed == 1000     \* an id whose row is deleted
Never == MaxClock + 1   \* last_fired_at IS NULL: no time of the clock
Modes == {"snapshot", "live"}
Built == 0          \* notify_event, in place of a rule

\* "saved" is history: the number of the edit that wrote the row
NoRule == [is |-> "unused", enabled |-> FALSE, scope |-> Unset, last |-> Never,
           cooldown |-> 0, saved |-> 0]
NoEvent == [is |-> FALSE, id |-> Unset, named |-> FALSE]
Idle == [pc |-> "idle", call |-> 0, look |-> 0, match |-> Unset, todo |-> {}, rule |-> Unset]

AnyRule(cooldown) == [NoRule EXCEPT !.is = "there", !.enabled = TRUE, !.cooldown = cooldown]

\* An installation where recognition was switched on and a channel set up;
\* there may be a known row and rules already.
Init ==
    /\ kind \in {"face", "plate"}
    /\ settings = [enabled |-> TRUE, mode |-> "snapshot"]
    /\ \E used \in BOOLEAN, cooldown \in Cooldowns :
         /\ known = [i \in Ids |-> IF used /\ i = 1 THEN 1 ELSE Unused]
         /\ rule = [r \in Rules |-> IF used THEN AnyRule(cooldown) ELSE NoRule]
    /\ channel = "on"
    /\ event = [n \in 1..MaxEvents |-> NoEvent]
    /\ worker = [w \in Workers |-> Idle]
    /\ clock = 0
    /\ calls = 0
    /\ edits = 0
    /\ claims = [r \in Rules |-> <<>>]
    /\ sent = {}

Enrolled(i) == known[i] \notin {Unused, Removed}
There(r) == rule[r].is = "there"

At(w, pc) == worker[w].pc = pc
Finish(w) == worker' = [worker EXCEPT ![w] = Idle]
Goto(w, pc) == worker' = [worker EXCEPT ![w].pc = pc]

-----------------------------------------------------------------------------
(* One call of process_recognition.                                        *)

\* The settings decide once, at the start, whether this call site counts.
Start(w, look, mode) ==
    /\ At(w, "idle")
    /\ calls < MaxEvents
    /\ settings.enabled
    /\ settings.mode = mode
    /\ calls' = calls + 1
    /\ worker' = [worker EXCEPT ![w] = [Idle EXCEPT !.pc = "match", !.call = calls + 1, !.look = look]]
    /\ UNCHANGED <<kind, settings, known, rule, channel, event, clock, edits, claims, sent>>

\* match_known_face: the best known face above the threshold
FaceMatches(look) == {i \in Ids : known[i] = look}
\* match_known_plate: a known plate with the same normalised text
PlateMatches(look) == {i \in Ids : Enrolled(i) /\ known[i] = look}
Matches(look) == IF kind = "face" THEN FaceMatches(look) ELSE PlateMatches(look)

\* detect_and_embed, recognize: no face or no plate in the crop ends the call.
NothingSeen(w) ==
    /\ At(w, "match")
    /\ Finish(w)
    /\ UNCHANGED <<kind, settings, known, rule, channel, event, clock, calls, edits, claims, sent>>

\* The known rows are read; the match is an id from now on.
Match(w) ==
    /\ At(w, "match")
    /\ \E id \in IF Matches(worker[w].look) = {} THEN {Unset} ELSE Matches(worker[w].look) :
         worker' = [worker EXCEPT ![w].pc = "record", ![w].match = id]
    /\ UNCHANGED <<kind, settings, known, rule, channel, event, clock, calls, edits, claims, sent>>

RecordAnyway(w) == \* mutant
    /\ At(w, "record")
    /\ Goto(w, "announce")
    /\ event' = [event EXCEPT ![worker[w].call].is = worker[w].match # Unset => Enrolled(worker[w].match)]
    /\ UNCHANGED <<kind, settings, known, rule, channel, clock, calls, edits, claims, sent>>

\* create_recognition_event; the row of the match may be gone by now, and
\* the foreign key then refuses the event: process_recognition swallows it.
Record(w) ==
    LET id == worker[w].match IN
    /\ At(w, "record")
    /\ \/ /\ id # Unset => Enrolled(id)
          /\ event' = [event EXCEPT ![worker[w].call] = [is |-> TRUE, id |-> id, named |-> id # Unset]]
          /\ Goto(w, "announce")
       \/ /\ id # Unset /\ ~Enrolled(id)
          /\ Finish(w)
          /\ UNCHANGED event
    /\ UNCHANGED <<kind, settings, known, rule, channel, clock, calls, edits, claims, sent>>

\* notify_event: a channel that is on and takes this event; delivery may fail.
Announce(w) ==
    /\ At(w, "announce")
    /\ Goto(w, "select")
    /\ \/ channel = "on" /\ sent' = sent \cup {<<worker[w].call, Built>>}
       \/ UNCHANGED sent
    /\ UNCHANGED <<kind, settings, known, rule, channel, event, clock, calls, edits, claims>>

\* list_matching_automation_rules
Applies(r, match) ==
    /\ There(r)
    /\ rule[r].enabled
    /\ \/ rule[r].scope = Unset
       \/ rule[r].scope = Nobody /\ match = Unset
       \/ match # Unset /\ rule[r].scope = match

CopyOf(r) == [id |-> r, last |-> rule[r].last, cooldown |-> rule[r].cooldown, saved |-> rule[r].saved]

\* evaluate_and_fire: from here on the call works on copies of the rules.
Select(w) ==
    /\ At(w, "select")
    /\ worker' = [worker EXCEPT ![w].pc = "fire",
                                ![w].todo = {CopyOf(r) : r \in {s \in Rules : Applies(s, worker[w].match)}}]
    /\ UNCHANGED <<kind, settings, known, rule, channel, event, clock, calls, edits, claims, sent>>

Rested(last, cooldown) == last = Never \/ last + cooldown <= clock

ClaimByCopy(copy) == There(copy.id) /\ Rested(copy.last, copy.cooldown) \* mutant
\* try_fire_automation_rule: one conditional UPDATE, of the row as it is, by
\* the cooldown of the copy
Claimable(copy) == There(copy.id) /\ Rested(rule[copy.id].last, copy.cooldown)

\* A claim: its time, the cooldown it went by, the one the row had, and
\* whether the row was written since the copy was made.
ClaimBy(copy) == [at |-> clock, by |-> copy.cooldown, own |-> rule[copy.id].cooldown,
                  edited |-> rule[copy.id].saved # copy.saved]

\* _fire_rule up to the claim
Claim(w) == \E copy \in worker[w].todo :
    /\ At(w, "fire")
    /\ IF Claimable(copy)
       THEN /\ rule' = [rule EXCEPT ![copy.id].last = clock]
            /\ claims' = [claims EXCEPT ![copy.id] = Append(@, ClaimBy(copy))]
            /\ worker' = [worker EXCEPT ![w].todo = @ \ {copy}, ![w].pc = "send", ![w].rule = copy.id]
       ELSE /\ worker' = [worker EXCEPT ![w].todo = @ \ {copy}]
            /\ UNCHANGED <<rule, claims>>
    /\ UNCHANGED <<kind, settings, known, channel, event, clock, calls, edits, sent>>

\* _fire_rule after the claim: the channel is read now, delivery may fail,
\* and evaluate_and_fire goes on with the next rule.
Send(w) ==
    /\ At(w, "send")
    /\ worker' = [worker EXCEPT ![w].pc = "fire", ![w].rule = Unset]
    /\ \/ channel \in {"on", "quiet"} /\ sent' = sent \cup {<<worker[w].call, worker[w].rule>>}
       \/ UNCHANGED sent
    /\ UNCHANGED <<kind, settings, known, rule, channel, event, clock, calls, edits, claims>>

Done(w) ==
    /\ At(w, "fire")
    /\ worker[w].todo = {}
    /\ Finish(w)
    /\ UNCHANGED <<kind, settings, known, rule, channel, event, clock, calls, edits, claims, sent>>

-----------------------------------------------------------------------------
(* The pages.                                                              *)

Edit ==
    /\ edits < MaxEdits
    /\ edits' = edits + 1
    /\ UNCHANGED <<kind, worker, clock, calls, sent>>

\* update_recognition_settings_route
SaveSettings(enabled, mode) ==
    /\ Edit
    /\ settings' = [enabled |-> enabled, mode |-> mode]
    /\ UNCHANGED <<known, rule, channel, event, claims>>

\* create_known_face_route and create_known_plate_route
Enrol(of, i, look) ==
    /\ kind = of
    /\ Edit
    /\ known[i] = Unused
    /\ \A j \in Ids : j < i => known[j] # Unused
    /\ known' = [known EXCEPT ![i] = look]
    /\ UNCHANGED <<settings, rule, channel, event, claims>>

EnrolFace(i, look) == Enrol("face", i, look)
EnrolPlate(i, look) == Enrol("plate", i, look)

\* update_known_plate_route
Retype(i, look) ==
    /\ Edit
    /\ kind = "plate"
    /\ Enrolled(i)
    /\ known[i] # look
    /\ known' = [known EXCEPT ![i] = look]
    /\ UNCHANGED <<settings, rule, channel, event, claims>>

\* delete_known_face and delete_known_plate: ON DELETE SET NULL in the
\* events and in the rules
Forget(of, i) ==
    /\ kind = of
    /\ Edit
    /\ Enrolled(i)
    /\ known' = [known EXCEPT ![i] = Removed]
    /\ event' = [n \in DOMAIN event |->
                    IF event[n].id = i THEN [event[n] EXCEPT !.id = Unset] ELSE event[n]]
    /\ rule' = [r \in Rules |->
                   IF rule[r].scope = i THEN [rule[r] EXCEPT !.scope = Unset] ELSE rule[r]]
    /\ UNCHANGED <<settings, channel, claims>>

ForgetFace(i) == Forget("face", i)
ForgetPlate(i) == Forget("plate", i)

\* parse_identity_filter: any, unknown, or one known id of the page's lists
Identities == {Unset, Nobody} \cup {i \in Ids : Enrolled(i)}

\* create_automation
CreateRule(r, scope, cooldown) ==
    /\ Edit
    /\ channel # "gone"
    /\ rule[r].is = "unused"
    /\ scope \in Identities
    /\ rule' = [rule EXCEPT ![r] = [is |-> "there", enabled |-> TRUE, scope |-> scope, last |-> Never,
                                     cooldown |-> cooldown, saved |-> edits + 1]]
    /\ UNCHANGED <<settings, known, channel, event, claims>>

\* update_automation: last_fired_at stays
UpdateRule(r, enabled, scope, cooldown) ==
    /\ Edit
    /\ There(r)
    /\ scope \in Identities
    /\ rule' = [rule EXCEPT ![r] = [@ EXCEPT !.enabled = enabled, !.scope = scope,
                                                  !.cooldown = cooldown, !.saved = edits + 1]]
    /\ UNCHANGED <<settings, known, channel, event, claims>>

\* delete_automation
DeleteRule(r) ==
    /\ Edit
    /\ There(r)
    /\ rule' = [rule EXCEPT ![r].is = "gone"]
    /\ UNCHANGED <<settings, known, channel, event, claims>>

\* update_notification_channel: off, on for this event, or on without it
UpdateChannel(state) ==
    /\ Edit
    /\ channel # "gone"
    /\ channel' = state
    /\ UNCHANGED <<settings, known, rule, event, claims>>

\* delete_notification_channel: ON DELETE CASCADE takes its rules
DeleteChannel ==
    /\ Edit
    /\ channel # "gone"
    /\ channel' = "gone"
    /\ rule' = [r \in Rules |-> IF There(r) THEN [rule[r] EXCEPT !.is = "gone"] ELSE rule[r]]
    /\ UNCHANGED <<settings, known, event, claims>>

Tick ==
    /\ clock < MaxClock
    /\ clock' = clock + 1
    /\ UNCHANGED <<kind, settings, known, rule, channel, event, worker, calls, edits, claims, sent>>

Next ==
    \/ \E w \in Workers : \E look \in Looks, mode \in Modes : Start(w, look, mode)
    \/ \E w \in Workers : NothingSeen(w) \/ Match(w) \/ Record(w) \/ Announce(w)
    \/ \E w \in Workers : Select(w) \/ Claim(w) \/ Send(w) \/ Done(w)
    \/ \E enabled \in BOOLEAN, mode \in Modes : SaveSettings(enabled, mode)
    \/ \E i \in Ids :
          \/ \E look \in Looks : EnrolFace(i, look) \/ EnrolPlate(i, look) \/ Retype(i, look)
          \/ ForgetFace(i)
          \/ ForgetPlate(i)
    \/ \E r \in Rules, scope \in Identities, cooldown \in Cooldowns :
         \/ CreateRule(r, scope, cooldown)
         \/ \E enabled \in BOOLEAN : UpdateRule(r, enabled, scope, cooldown)
    \/ \E r \in Rules : DeleteRule(r)
    \/ \E state \in {"on", "quiet", "off"} : UpdateChannel(state)
    \/ DeleteChannel
    \/ Tick

Spec == Init /\ [][Next]_recognitionVars

-----------------------------------------------------------------------------
Times == 0..MaxClock \cup {Never}
RuleRows == [is : {"unused", "there", "gone"}, enabled : BOOLEAN,
             scope : Ids \cup {Unset, Nobody}, last : Times,
             cooldown : Cooldowns \cup {0}, saved : 0..MaxEdits]
Copies == [id : Rules, last : Times, cooldown : Cooldowns \cup {0}, saved : 0..MaxEdits]
Claims == [at : 0..MaxClock, by : Cooldowns \cup {0}, own : Cooldowns \cup {0}, edited : BOOLEAN]
EventRows == [is : BOOLEAN, id : Ids \cup {Unset}, named : BOOLEAN]
Places == {"idle", "match", "record", "announce", "select", "fire", "send"}
Threads == [pc : Places, call : 0..MaxEvents, look : Looks \cup {0}, match : Ids \cup {Unset},
            todo : SUBSET Copies, rule : Rules \cup {Unset}]

TypeOK ==
    /\ kind \in {"face", "plate"}
    /\ settings \in [enabled : BOOLEAN, mode : Modes]
    /\ known \in [Ids -> Looks \cup {Unused, Removed}]
    /\ rule \in [Rules -> RuleRows]
    /\ channel \in {"on", "quiet", "off", "gone"}
    /\ event \in [1..MaxEvents -> EventRows]
    /\ worker \in [Workers -> Threads]
    /\ clock \in 0..MaxClock
    /\ calls \in 0..MaxEvents
    /\ edits \in 0..MaxEdits
    /\ claims \in [Rules -> Seq(Claims)]
    /\ sent \subseteq (1..MaxEvents) \X (Rules \cup {Built})

\* However many threads evaluate a rule at once, a claim comes at least the
\* rule's cooldown after the claim before it, unless the rule was saved between
\* the moment the claiming thread listed it and the claim: then it keeps the
\* cooldown that thread had listed (database.py, try_fire_automation_rule).
Spaced(before, claim) ==
    /\ ~claim.edited => before.at + claim.own <= claim.at
    /\ before.at + claim.by <= claim.at
CooldownKept == \A r \in Rules : \A n \in 1..(Len(claims[r]) - 1) :
    Spaced(claims[r][n], claims[r][n + 1])

\* A message, of the built-in notification or of a rule, is only sent of an
\* event the history page shows.
ToldIsRecorded == \A m \in sent : event[m[1]].is

\* What the two rest on.  last_fired_at is the time of the last claim: nothing
\* but a claim writes it, and the id of a deleted rule is not given again.
LastIsTheLastClaim == \A r \in Rules :
    /\ claims[r] = <<>> => rule[r].last = Never
    /\ claims[r] # <<>> => rule[r].last = claims[r][Len(claims[r])].at
    /\ rule[r].is = "unused" => claims[r] = <<>>

\* A copy has the cooldown of its rule until the rule is saved again.
Aged(copy) ==
    /\ copy.saved <= rule[copy.id].saved
    /\ copy.saved = rule[copy.id].saved => copy.cooldown = rule[copy.id].cooldown
CopiesAgeByEdits ==
    /\ \A r \in Rules : rule[r].saved <= edits
    /\ \A w \in Workers : \A copy \in worker[w].todo : Aged(copy)

\* A call has its number from its start, and from the announcement on its
\* event is in the table.
Telling == {"announce", "select", "fire", "send"}
CallsAreRecorded == \A w \in Workers :
    /\ worker[w].pc # "idle" => worker[w].call \in 1..MaxEvents
    /\ worker[w].pc \in Telling => event[worker[w].call].is
    /\ worker[w].pc = "send" => worker[w].rule \in Rules

IInv ==
    /\ TypeOK /\ LastIsTheLastClaim /\ CopiesAgeByEdits /\ CallsAreRecorded
    /\ CooldownKept /\ ToldIsRecorded

\* The comment of _process_plate: an event of a known face or plate is not
\* relabelled as unknown when that row is deleted later.  The "unknown" filter
\* of the history page goes by the ids, which ON DELETE SET NULL clears.
ListedAsUnknown(n) == event[n].is /\ event[n].id = Unset
HistoryStaysKnown == \A n \in DOMAIN event : ListedAsUnknown(n) => ~event[n].named
=============================================================================
