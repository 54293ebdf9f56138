--------------------------- MODULE RetentionRules ---------------------------
(***************************************************************************)
(* What a retention pass selects: cleanup_preview and its helpers          *)
(* (src/app/tbc/maintenance.py).  Retention.tla takes the selection as     *)
(* given and looks at when it is acted upon; this module looks at the      *)
(* selection alone, over every small archive and pair of rules.            *)
(*                                                                         *)
(* A recording is the number of its place in started_at order, so a larger *)
(* number is a newer clip.  Sizes are in units of the limits.  A rule may  *)
(* be restricted to one camera; a detection key and a storage target       *)
(* restrict it in the same way and are not modelled separately.            *)
(***************************************************************************)
EXTENDS Integers

CONSTANTS
    MaxRecording,  \* recordings 1 .. MaxRecording
    Sizes,         \* size_bytes
    Cameras,
    Cutoffs,       \* recordings before the cutoff are too old; 0: no max age
    Limits         \* max_size_gb; NoLimit: none

ASSUME ParamsAssumption ==
    /\ MaxRecording \in Nat /\ Sizes \subseteq Nat
    /\ Cutoffs \subseteq Nat /\ Limits \subseteq Nat \cup {-1}

Recordings == 1 .. MaxRecording
AnyCamera == "any"
NoLimit == -1
Rules == [camera : Cameras \cup {AnyCamera}, cutoff : Cutoffs, limit : Limits]

VARIABLES
    size,     \* recordings.size_bytes
    cameraOf, \* recordings.camera_id
    locked,   \* recordings.locked
    rules,    \* the enabled rules, storage targets' own limits among them
    present,  \* recordings that still exist
    passes    \* cleanups done

archive == <<size, cameraOf, locked, rules>>
vars == <<size, cameraOf, locked, rules, present, passes>>

\* list_ready_recordings_for_cleanup
CandidatesAndLocked == present                     \* mutant: lock forgotten
Candidates == present \ locked

\* _matches_rule
Matches(r, rule) == rule.camera \in {AnyCamera, cameraOf[r]}
Matching(rule) == {r \in Candidates : Matches(r, rule)}

Total(S) ==
    LET upTo[n \in 0 .. MaxRecording] ==
          IF n = 0 THEN 0 ELSE upTo[n - 1] + (IF n \in S THEN size[n] ELSE 0)
    IN upTo[MaxRecording]

TooOld(rule) == {r \in Matching(rule) : r < rule.cutoff}

\* From the newest to the oldest: a recording is kept if it still fits beside
\* those kept before it.  from[n] is what is kept among n and newer.
KeptBeside(kept, r, limit) ==                      \* mutant: its own size left out
    Total(kept) <= limit
Fits(kept, r, limit) == Total(kept) + size[r] <= limit

Kept(rule) ==
    LET from[n \in 1 .. MaxRecording + 1] ==
          IF n > MaxRecording THEN {}
          ELSE LET kept == from[n + 1] IN
               IF n \in Matching(rule) /\ Fits(kept, n, rule.limit)
               THEN kept \cup {n} ELSE kept
    IN from[1]

OverLimit(rule) ==
    IF rule.limit = NoLimit THEN {} ELSE Matching(rule) \ Kept(rule)

\* cleanup_preview
Preview == UNION {TooOld(rule) \cup OverLimit(rule) : rule \in rules}

Init ==
    /\ size \in [Recordings -> Sizes]
    /\ cameraOf \in [Recordings -> Cameras]
    /\ locked \in SUBSET Recordings
    /\ \E mine, other \in Rules : rules = {mine, other}
    /\ present = Recordings
    /\ passes = 0

\* Mutant: a return inside the loop.
ApplyCleanupOne ==
    /\ passes < 2
    /\ passes' = passes + 1
    /\ present' = present \ {r \in Preview : \A q \in Preview : r <= q}
    /\ UNCHANGED archive

\* apply_cleanup, undisturbed.
ApplyCleanup ==
    /\ passes < 2
    /\ passes' = passes + 1
    /\ present' = present \ Preview
    /\ UNCHANGED archive

Next == ApplyCleanup

Spec == Init /\ [][Next]_vars

-----------------------------------------------------------------------------
(* Properties.                                                             *)

\* One cleanup is enough: afterwards every rule's age and size hold for the
\* recordings it may delete, although the rules overlap and each is evaluated
\* as if the others deleted nothing.
RulesHoldAfterwards ==
    passes > 0 => \A rule \in rules :
        /\ \A r \in Matching(rule) : r >= rule.cutoff
        /\ rule.limit # NoLimit => Total(Matching(rule)) <= rule.limit

\* A cleanup that follows at once deletes nothing: a selection does not depend
\* on recordings that are about to go.
SecondPassFindsNothing == passes = 1 => Preview = {}

\* Nothing is deleted without need: some rule that applies to the recording is
\* broken by the recordings it applies to.
DeletedForAReason ==
    \A r \in Preview : \E rule \in rules :
        /\ Matches(r, rule) /\ r \notin locked
        /\ \/ r < rule.cutoff
           \/ rule.limit # NoLimit /\ Total(Matching(rule)) > rule.limit

\* What makes the first two inductive: the recordings and their sizes.
TypeOK ==
    /\ size \in [Recordings -> Sizes] /\ cameraOf \in [Recordings -> Cameras]
    /\ locked \subseteq Recordings /\ present \subseteq Recordings
    /\ rules \subseteq Rules /\ passes \in 0 .. 2
IInv == TypeOK /\ RulesHoldAfterwards

\* The quota hint says the oldest unlocked clips are deleted first: a clip that
\* is deleted for its size is not newer than one of the same rule that stays.
OldestFirst ==
    \A rule \in rules : \A r \in OverLimit(rule) :
        \A q \in Matching(rule) : q < r => q \in Preview
=============================================================================
