--------------------------- MODULE LearnedFrames ---------------------------
(***************************************************************************)
(* The frames the coordinator learns from the official app (coordinator.py, *)
(* command_builder.py): captured on the command channel, validated, filed   *)
(* under start, stop or wake, persisted two seconds later, validated again  *)
(* when Home Assistant starts and when they are sent, and the source of the *)
(* identity the integration opens cloud sessions with.                      *)
(*                                                                         *)
(* A frame keeps what the checks tell apart; press is the button that made  *)
(* the app send it, which the code cannot see.                              *)
(***************************************************************************)
EXTENDS Naturals

CONSTANTS
    Beverages,
    NoBeverage,
    Signatures,    \* device signatures
    NoSignature,
    NoFrame,
    NoTable,
    Traffic,       \* the frames other applications write
    OldStores      \* what an earlier version may have stored

WakeKey  == <<"wake", NoBeverage>>
Keys     == ({"start", "stop"} \X Beverages) \cup {WakeKey}
KeysOf(action) == {action} \X Beverages

\* wire is the action byte: 2, or 1 for the other two start actions; intact:
\* CRC, length and Eletta layout are right; refresh: a power-family packet that
\* is no power-on.
Frames == [press     : {"start", "stop", "wake", "refresh"},
           beverage  : Beverages \cup {NoBeverage},
           wire      : {1, 2},
           signature : Signatures \cup {NoSignature},
           intact    : BOOLEAN]

Tables == [Keys -> Frames \cup {NoFrame}]

ASSUME FramesAssumption ==
    /\ NoBeverage \notin Beverages
    /\ NoSignature \notin Signatures
    /\ NoFrame \notin Frames
    /\ NoTable \notin Tables
    /\ Traffic \subseteq Frames
    /\ \A f \in Traffic :
          /\ f.press = "stop" => f.wire = 2
          /\ f.press \in {"start", "stop"} => f.beverage \in Beverages
    /\ OldStores \subseteq Tables

VARIABLES
    learned,      \* learned_start_frames, learned_stop_frames, wake frame
    active,       \* active_beverage_id
    identity,     \* _default_app_id: a signature, or none for the built-in id
    discarded,    \* _discarded_learning_keys
    issue,        \* the persistent repair issue exists
    pendingSave,  \* a delayed save is scheduled
    lateSave,     \* tables a coordinator unloaded meanwhile is still to save
    store,        \* the stored tables
    preparing,    \* the monitor shows a preparation
    owed,         \* history: discarded and not learned again since
    raced,        \* history: a reload found a save pending
    unread        \* history: the coordinator in use could not read its store

vars == <<learned, active, identity, discarded, issue, pendingSave, lateSave,
          store, preparing, owed, raced, unread>>

---------------------------------------------------------------------------
(* Validation. *)

\* validate_replayed_beverage_frame for an Eletta, a start or a stop.
Replayable(f, k, expected) ==
    /\ f.press \in {"start", "stop"} /\ f.intact
    /\ f.beverage = k[2]
    /\ k[1] = "stop" => f.wire = 2
    /\ f.signature # NoSignature
    /\ expected \in {NoSignature, f.signature}

\* validate_replayed_wake_frame, is_wake_power_frame.
Waking(f, expected) ==
    /\ f.press = "wake" /\ f.intact
    /\ f.signature # NoSignature
    /\ expected \in {NoSignature, f.signature}

Valid(f, k, expected) ==
    IF k = WakeKey THEN Waking(f, expected) ELSE Replayable(f, k, expected)

SignaturesIn(table, keys) ==
    {table[k].signature : k \in {k \in keys : table[k] # NoFrame}}
        \ {NoSignature}

OrNone(signatures) ==
    IF signatures = {} THEN {NoSignature} ELSE signatures

\* _learned_device_signature.
Known(table) == OrNone(SignaturesIn(table, Keys))

\* Faulty: the identity stays what it was.
RestoresNothing(table) == UNCHANGED identity

\* _restore_device_app_id: a learned signature replaces the identity.
Restores(table) ==
    \E s \in Known(table) :
        identity' = IF s = NoSignature THEN identity ELSE s

---------------------------------------------------------------------------
(* Loading, async_load_learned. *)

\* The first beverage frame that is valid by itself, starts before stops, sets
\* the signature the others must carry.  The order within a stored dictionary
\* is any, but the same at every load.
FirstSignature(table) ==
    LET Ones(action) ==
            SignaturesIn(table, {k \in KeysOf(action) :
                table[k] # NoFrame /\ Replayable(table[k], k, NoSignature)})
    IN  CHOOSE s \in IF Ones("start") # {} THEN Ones("start")
                     ELSE OrNone(Ones("stop")) : TRUE

Kept(table, k, expected) == table[k] # NoFrame /\ Valid(table[k], k, expected)

\* Faulty: a stored wake frame is kept as it is.
RestoredAnyWake(table, expected) ==
    [k \in Keys |-> IF k = WakeKey \/ Kept(table, k, expected)
                    THEN table[k] ELSE NoFrame]

Restored(table, expected) ==
    [k \in Keys |-> IF Kept(table, k, expected) THEN table[k] ELSE NoFrame]

\* Faulty: a wake frame is dropped without asking for it again.
DroppedBeverages(table, expected) ==
    {k \in Keys \ {WakeKey} : table[k] # NoFrame /\ ~Kept(table, k, expected)}

Dropped(table, expected) ==
    {k \in Keys : table[k] # NoFrame /\ ~Kept(table, k, expected)}

EmptyTable == [k \in Keys |-> NoFrame]

Loads(table) ==
    LET expected == FirstSignature(table) IN
        /\ learned' = Restored(table, expected)
        /\ discarded' = Dropped(table, expected)
        /\ issue' = (Dropped(table, expected) # {})
        /\ owed' = owed \cup Dropped(table, expected)
        /\ \E s \in Known(Restored(table, expected)) : identity' = s
        /\ unread' = FALSE

\* The store cannot be read: the tables stay empty, the issue of an earlier run
\* is left as it is.
LoadFails ==
    /\ learned' = EmptyTable
    /\ discarded' = {}
    /\ identity' = NoSignature
    /\ unread' = TRUE
    /\ UNCHANGED <<issue, owed>>

\* A new coordinator, from the tables it finds stored.
Boot(table) ==
    /\ Loads(table) \/ LoadFails
    /\ active' = NoBeverage
    /\ pendingSave' = FALSE

Loaded ==
    LET expected == FirstSignature(store) IN
        /\ learned = Restored(store, expected)
        /\ discarded = Dropped(store, expected)
        /\ issue = (Dropped(store, expected) # {})
        /\ owed = Dropped(store, expected)
        /\ identity \in Known(Restored(store, expected))
        /\ unread = FALSE

LoadFailed ==
    /\ learned = EmptyTable
    /\ discarded = {}
    /\ issue \in BOOLEAN
    /\ owed = {}
    /\ identity = NoSignature
    /\ unread = TRUE

Init ==
    /\ store \in OldStores
    /\ Loaded \/ LoadFailed
    /\ active = NoBeverage
    /\ pendingSave = FALSE
    /\ lateSave = NoTable
    /\ preparing \in BOOLEAN
    /\ raced = FALSE

---------------------------------------------------------------------------
(* Capturing, _maybe_learn_frame. *)

\* Faulty: a wake frame schedules no save.
FilesWakeUnsaved(k, f) ==
    /\ learned' = [learned EXCEPT ![k] = f]
    /\ Restores([learned EXCEPT ![k] = f])
    /\ pendingSave' = (pendingSave \/ k # WakeKey)

\* A new or changed entry is filed, restores the identity and schedules a save.
\* The same press again has another timestamp and counts as changed, unless it
\* is the very frame.
Files(k, f) ==
    \/ /\ learned' = [learned EXCEPT ![k] = f]
       /\ Restores([learned EXCEPT ![k] = f])
       /\ pendingSave' = TRUE
    \/ /\ learned[k] = f
       /\ UNCHANGED <<learned, identity, pendingSave>>

\* Faulty: the repair issue is left to the next start.
RelearnsQuietly(k) ==
    /\ owed' = owed \ {k}
    /\ discarded' = discarded \ {k}
    /\ UNCHANGED issue

\* The repair issue is brought up to date only when a key was awaited.
Relearns(k) ==
    /\ owed' = owed \ {k}
    /\ discarded' = discarded \ {k}
    /\ issue' = IF k \in discarded THEN discarded \ {k} # {} ELSE issue

\* A 0x02 frame is a stop only for the beverage known to be active while the
\* monitor shows a preparation.
LogicalAction(f) ==
    IF f.wire = 2 /\ active = f.beverage /\ preparing THEN "stop" ELSE "start"

CaptureBeverage(f) ==
    LET action == LogicalAction(f)
        k == <<action, f.beverage>>
    IN  /\ f.press \in {"start", "stop"}
        /\ \E expected \in Known(learned) : Replayable(f, k, expected)
        /\ Files(k, f)
        /\ Relearns(k)
        /\ active' = IF action = "stop" THEN NoBeverage ELSE f.beverage
        /\ UNCHANGED <<lateSave, store, preparing, raced, unread>>

CapturePower(f) ==
    /\ \E expected \in Known(learned) : Waking(f, expected)
    /\ Files(WakeKey, f)
    /\ Relearns(WakeKey)
    /\ UNCHANGED <<active, lateSave, store, preparing, raced, unread>>

---------------------------------------------------------------------------
(* Sending, async_send_beverage. *)

\* learned_command_invalid drops the entry.
Invalid(k) ==
    /\ learned' = [learned EXCEPT ![k] = NoFrame]
    /\ discarded' = discarded \cup {k}
    /\ owed' = owed \cup {k}
    /\ issue' = TRUE
    /\ pendingSave' = TRUE
    /\ UNCHANGED <<active, identity>>

\* Faulty: the learning key is kept instead of the beverage.
SentByKey(k) ==
    /\ active' = IF k[1] = "start" THEN k ELSE NoBeverage
    /\ UNCHANGED <<learned, identity, discarded, issue, pendingSave, owed>>

\* The command goes out; a start counts once written, a stop once it completes.
Sent(k) ==
    /\ active' = IF k[1] = "start" THEN k[2]
                 ELSE IF active = k[2] THEN NoBeverage ELSE active
    /\ UNCHANGED <<learned, identity, discarded, issue, pendingSave, owed>>

SendLearned(k) ==
    /\ k # WakeKey /\ learned[k] # NoFrame
    /\ k[1] = "start" => ~preparing
    /\ \E expected \in Known(learned) :
        IF Replayable(learned[k], k, expected) THEN Sent(k) ELSE Invalid(k)
    /\ UNCHANGED <<lateSave, store, preparing, raced, unread>>

---------------------------------------------------------------------------
(* Persistence and restarts. *)

\* Store.async_delay_save; the timer of an unloaded coordinator was set first.
Save ==
    /\ pendingSave /\ lateSave = NoTable
    /\ store' = learned
    /\ pendingSave' = FALSE
    /\ UNCHANGED <<learned, active, identity, discarded, issue, lateSave,
                   preparing, owed, raced, unread>>

LateSave ==
    /\ lateSave # NoTable
    /\ store' = lateSave
    /\ lateSave' = NoTable
    /\ UNCHANGED <<learned, active, identity, discarded, issue, pendingSave,
                   preparing, owed, raced, unread>>

\* Home Assistant writes what is pending before it stops.
Flushed == IF pendingSave THEN learned
           ELSE IF lateSave # NoTable THEN lateSave ELSE store

Restart ==
    /\ store' = Flushed
    /\ Boot(Flushed)
    /\ lateSave' = NoTable
    /\ UNCHANGED <<preparing, raced>>

Crash ==
    /\ Boot(store)
    /\ lateSave' = NoTable
    /\ UNCHANGED <<store, preparing, raced>>

\* The entry is reloaded in a running Home Assistant: the new coordinator reads
\* the store, a save of the old one still pending comes later.
Reload ==
    /\ lateSave = NoTable
    /\ Boot(store)
    /\ lateSave' = IF pendingSave THEN learned ELSE NoTable
    /\ raced' = (raced \/ pendingSave)
    /\ UNCHANGED <<store, preparing>>

MonitorMoves ==
    /\ preparing' = ~preparing
    /\ UNCHANGED <<learned, active, identity, discarded, issue, pendingSave,
                   lateSave, store, owed, raced, unread>>

Next ==
    \/ \E f \in Traffic : CaptureBeverage(f) \/ CapturePower(f)
    \/ \E k \in Keys : SendLearned(k)
    \/ Save \/ LateSave
    \/ Restart \/ Crash \/ Reload
    \/ MonitorMoves

Spec == Init /\ [][Next]_vars

---------------------------------------------------------------------------
(* Properties. *)

TypeOK ==
    /\ learned \in Tables
    /\ active \in Beverages \cup {NoBeverage}
    /\ identity \in Signatures \cup {NoSignature}
    /\ discarded \subseteq Keys
    /\ issue \in BOOLEAN
    /\ pendingSave \in BOOLEAN
    /\ lateSave \in Tables \cup {NoTable}
    /\ store \in Tables
    /\ preparing \in BOOLEAN
    /\ owed \subseteq Keys
    /\ raced \in BOOLEAN /\ unread \in BOOLEAN

\* Whatever an earlier version stored and whatever frames appear on the command
\* channel, the frames in use come from one machine.
OneSignature ==
    \A k, l \in Keys : learned[k] # NoFrame /\ learned[l] # NoFrame =>
        learned[k].signature = learned[l].signature

\* Every learned frame passes the check made when it is sent: no command fails
\* with learned_command_invalid, and no frame is dropped then.
ReplaysValid ==
    \A k \in Keys : learned[k] # NoFrame =>
        \A expected \in Known(learned) : Valid(learned[k], k, expected)

\* The integration opens cloud sessions under the signature of the frames it
\* has learned (_restore_device_app_id), across restarts too.
IdentityFollowsFrames ==
    \A s \in Known(learned) : s # NoSignature => identity = s

\* Unless the coordinator could not read its store, the repair issue exists
\* exactly while a command is missing that was discarded in this run; after a
\* failed load an issue of an earlier run may be left over, but a discarded
\* command still has one (_sync_learning_repair_issue).
IssueAsksForMissing ==
    /\ discarded # {} => issue
    /\ issue /\ discarded = {} => unread
    /\ \A k \in discarded : learned[k] = NoFrame

\* A learned frame goes out of use only by a crash or a reload while its delayed
\* save is pending, after a reload that found one (from then on the coordinator
\* in use and the store may differ, whichever saves last), or by a load that
\* fails.
LostOnlyUnsaved ==
    [][\A k \in Keys : learned[k] # NoFrame /\ learned'[k] = NoFrame =>
            pendingSave \/ raced \/ unread']_vars

\* What is stored is not overwritten by a table without it, unless the command is
\* asked for again, the coordinator that saves could not read the store, or a
\* reload found a save pending: Save and LateSave write the whole of a table, of
\* which the coordinator may know a part only.
StoredFramesKept ==
    [][\A k \in Keys : store[k] # NoFrame /\ store'[k] = NoFrame =>
            k \in discarded \/ unread \/ raced]_vars

\* README.md:133-135: the repair issue goes away after every discarded command
\* has been learned again.
IssueUntilRelearned == owed # {} => issue
===========================================================================
