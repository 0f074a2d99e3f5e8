------------------------ MODULE CommandTransaction ------------------------
(***************************************************************************)
(* The command path of DelonghiCoordinator (coordinator.py): how a button, *)
(* a service call or the statistics refresh of Home Assistant acquires the *)
(* Coffee Link cloud session, writes a command datapoint and waits for the *)
(* machine to confirm it.                                                  *)
(*                                                                         *)
(* The integration runs on one asyncio event loop, so a handler is atomic  *)
(* between two awaits.  pc[c] names the await caller c is suspended at; an *)
(* action is what the code does from the moment that await returns to the  *)
(* next one.  Between those steps anything else may happen: another        *)
(* caller, a poll or a push event, the official app, the machine, the      *)
(* clock.  Durations are abstracted: a deadline may expire whenever the    *)
(* code is waiting on it.                                                  *)
(***************************************************************************)
EXTENDS FiniteSets

CONSTANTS
    Callers,            \* concurrent service calls, buttons and sync tasks
    Beverages,          \* beverage identifiers
    NoOne,              \* nobody holds the lock
    NoBeverage,         \* active_beverage_id is None
    LearnsFromApp,      \* TRUE for the Eletta profile, FALSE for Soul
    ConnectedProperty,  \* the machine has an app_device_connected property
    ResponseProperty,   \* the machine has a response channel
    AckEnabled,         \* the command property declares ack_enabled
    OfferedKinds,       \* the kinds of command the callers issue
    MonitorStates,      \* the monitor readings the environment produces
    SessionHolders,     \* the app_id values the environment produces
    StreamStates,       \* whether the DSS stream is up
    OnlineStates        \* whether the cloud reports the machine online

Kinds == {"start", "stop", "wake", "standby",
          "rawStart", "rawStop", "rawPower", "sync"}

\* app_id as the cloud reports it: never set, 0, the integration's own two
\* identities, and any other application's.
AppIds  == {"unset", "free", "default", "device", "other"}
NotHeld == {"unset", "free"}
OwnIds  == {"default", "device"}

\* What the guards tell apart in the decoded monitor: nothing decoded, an
\* undecodable blob, status 7 step 0 without alarms, two readings of an active
\* preparation, status 0, and any other reading (waking, alarms, no container).
Monitors == {"empty", "error", "ready", "preparing", "pouring", "standby",
             "blocked"}

ASSUME ConstantsAssumption ==
    /\ NoOne \notin Callers
    /\ NoBeverage \notin Beverages
    /\ {LearnsFromApp, ConnectedProperty, ResponseProperty, AckEnabled}
           \subseteq BOOLEAN
    /\ OfferedKinds \subseteq Kinds
    /\ MonitorStates \subseteq Monitors
    /\ SessionHolders \subseteq AppIds
    /\ StreamStates \subseteq BOOLEAN
    /\ OnlineStates \subseteq BOOLEAN

VARIABLES
    pc,           \* the await each caller is suspended at, or how it ended
    command,      \* the command each caller is executing
    local,        \* the local variables of each caller's transaction
    commandLock,  \* holder of _command_lock
    sessionLock,  \* holder of _session_connect_lock
    lastResult,   \* last_command_result
    active,       \* active_beverage_id
    learned,      \* keys of learned_start_frames and learned_stop_frames
    ownId,        \* _integration_app_id
    connectAge,   \* the age of _last_connect_at
    cloudId,      \* app_id at the cloud
    posted,       \* a connect datapoint the machine has not acted on yet
    monitor,      \* self.monitor
    streaming,    \* dss_state = "streaming"
    online        \* device.connection_status = "online"

callVars    == <<pc, command, local>>
lockVars    == <<commandLock, sessionLock>>
recipeVars  == <<active, learned>>
sessionVars == <<ownId, connectAge, cloudId, posted>>
machineVars == <<monitor, streaming, online>>
vars == <<callVars, lockVars, lastResult, recipeVars, sessionVars, machineVars>>

---------------------------------------------------------------------------
(* Commands and locations. *)

NoCommand == [kind |-> "none", beverage |-> NoBeverage]

OnBeverage == {"start", "stop", "rawStart", "rawStop"}
Starting   == {"start", "rawStart"}
Signing    == {"wake", "standby", "rawStart", "rawStop", "rawPower"}

Commands ==
    [kind : OfferedKinds \cap OnBeverage, beverage : Beverages] \cup
    [kind : OfferedKinds \ OnBeverage, beverage : {NoBeverage}]

\* At rest a caller has returned from a command (done) or raised (failed); idle
\* also stands for a refresh that returned and for a cancelled caller.
Resting == {"idle", "done", "failed"}

\* fetch: live GET of app_id; post: connect POST; confirm: settle delay and
\* confirmation polls; refresh, write: datapoint POSTs, from their call to the
\* last retry; ack: grace period for the exact DSS acknowledgement; await:
\* confirmation from cloud state.
Writing == {"refresh", "write", "ack", "await"}
Holding == {"fetch", "post", "confirm"} \cup Writing

\* settle: a statistics refresh after it gave the lock back.
Locations == Resting \cup Holding \cup {"settle"}

\* appId: the live app_id read last; claim: the id in the connect POST;
\* before: the monitor snapshot taken when the POST was called; responded: the
\* response property moved since then; ack: the acknowledgement of this
\* caller's datapoint; wrote: the cloud accepted the command's datapoint.
\* heard is a history variable: the machine gave a sign of life since then, be
\* it to an earlier write.
Blank == [appId |-> "none", claim |-> "none", before |-> "none",
          responded |-> FALSE, ack |-> "none", wrote |-> FALSE,
          heard |-> FALSE]

Locals == [appId : AppIds \cup {"none"}, claim : OwnIds \cup {"none"},
           before : Monitors \cup {"none"}, responded : BOOLEAN,
           ack : {"none", "accepted", "refused", "unclear"},
           wrote : BOOLEAN, heard : BOOLEAN]

Results == {"none", "pending", "sent", "acknowledged", "timed_out", "rejected"}

---------------------------------------------------------------------------
(* Conditions the handlers test. *)

UsesCloudSession == LearnsFromApp
SessionRequired  == UsesCloudSession /\ ConnectedProperty
HasSignature     == ownId = "device"
Locked           == commandLock # NoOne
Preparing        == monitor \in {"preparing", "pouring"}

\* _validate_beverage_start
MayStart ==
    /\ online
    /\ \/ monitor = "ready"
       \/ monitor \in {"empty", "error"} /\ ~LearnsFromApp

NotLearned(k) ==
    /\ LearnsFromApp
    /\ k.kind \in {"start", "stop"}
    /\ <<k.beverage, k.kind>> \notin learned

\* send_fn raises before it writes anything.
Rejects(k) == (k.kind \in Starting /\ ~MayStart) \/ NotLearned(k)

\* What is asked of a command before it opens a transaction.  The power buttons
\* and async_send_raw want the learned signature, and on Eletta a raw Stop can
\* only be meant for the drink being made.
Issuable(k) ==
    /\ (UsesCloudSession /\ k.kind \in Signing) => HasSignature
    /\ (LearnsFromApp /\ k.kind = "rawStop")
           => (active = k.beverage /\ Preparing)

\* Wake first nudges a machine in deep standby with a session refresh frame.
FirstWrite(k) ==
    IF k.kind = "wake" /\ UsesCloudSession /\ monitor = "standby"
    THEN "refresh" ELSE "write"

SessionFresh(id) ==
    \/ connectAge = "settling"
    \/ connectAge = "fresh" /\ id \in {"unset", ownId}

Changed(c) ==
    \/ ResponseProperty /\ local[c].responded
    \/ monitor # "empty" /\ monitor # local[c].before

Confirmable == ResponseProperty \/ monitor # "empty"

---------------------------------------------------------------------------
(* How a transaction begins to write and how it ends. *)

\* The statistics refresh never publishes into Last Command Status.
Publish(k, result) == IF k.kind = "sync" THEN lastResult ELSE result

Release ==
    /\ commandLock' = NoOne
    /\ sessionLock' = NoOne

\* Caller c leaves its handler.
Rests(c, outcome) ==
    /\ pc' = [pc EXCEPT ![c] = outcome]
    /\ command' = [command EXCEPT ![c] = NoCommand]
    /\ local' = [local EXCEPT ![c] = Blank]

Fails(c, k, result) ==
    /\ Rests(c, "failed")
    /\ lastResult' = Publish(k, result)
    /\ Release

\* Faulty: a start that nothing confirmed is not kept for Stop.
CompletesConfirmedOnly(c, result, wrote) ==
    LET k == command[c] IN
    /\ pc' = [pc EXCEPT ![c] = IF k.kind = "sync" THEN "settle" ELSE "done"]
    /\ command' = [command EXCEPT ![c] = NoCommand]
    /\ local' = [local EXCEPT ![c] = [Blank EXCEPT !.wrote = wrote]]
    /\ lastResult' = Publish(k, result)
    /\ active' = CASE k.kind = "start" /\ result = "acknowledged" -> k.beverage
                   [] k.kind = "stop" /\ active = k.beverage -> NoBeverage
                   [] OTHER -> active
    /\ Release

\* send_fn returned: the outcome is published, a start makes its beverage the
\* active one and a stop forgets it.
Completes(c, result, wrote) ==
    LET k == command[c] IN
    /\ pc' = [pc EXCEPT ![c] = IF k.kind = "sync" THEN "settle" ELSE "done"]
    /\ command' = [command EXCEPT ![c] = NoCommand]
    /\ local' = [local EXCEPT ![c] = [Blank EXCEPT !.wrote = wrote]]
    /\ lastResult' = Publish(k, result)
    /\ active' = CASE k.kind = "start" -> k.beverage
                   [] k.kind = "stop" /\ active = k.beverage -> NoBeverage
                   [] OTHER -> active
    /\ Release

\* command_written: whether a start that raises in its write keeps its beverage
\* for Stop is read off the published status of that moment.
KeepsBeverage(c, status) ==
    active' = IF command[c].kind = "start"
                 /\ status \in {"sent", "acknowledged", "timed_out"}
              THEN command[c].beverage ELSE active

\* The state a command's confirmation is compared with.
Snapshot(l) ==
    [l EXCEPT !.before = monitor, !.responded = FALSE, !.heard = FALSE,
              !.wrote = FALSE]

\* The synchronous head of send_fn, up to its first await: the start
\* validation, the choice of the frame, the snapshot and the call of the POST.
\* The POST itself, which may first renew the token and be repeated after a
\* failure, is the await that follows: the frame leaves at any time during it.
Sends(c, k, result) ==
    \/ /\ ~Rejects(k)
       /\ pc' = [pc EXCEPT ![c] = FirstWrite(k)]
       /\ command' = [command EXCEPT ![c] = k]
       /\ local' = [local EXCEPT ![c] = Snapshot(@)]
       /\ lastResult' = result
       /\ commandLock' = c
       /\ sessionLock' = IF SessionRequired THEN c ELSE NoOne
    \/ /\ Rejects(k)
       /\ Fails(c, k, "rejected")

---------------------------------------------------------------------------
(* Requests. *)

\* _run_command_transaction turns the second request away.
Refuse(c) ==
    /\ pc[c] \in Resting
    /\ Locked
    /\ Rests(c, "failed")
    /\ UNCHANGED <<lockVars, lastResult, recipeVars, sessionVars, machineVars>>

\* Faulty: the transaction does not look at the lock.
AcceptUnserialized(c, k) ==
    /\ pc[c] \in Resting
    /\ k.kind # "sync"
    /\ Issuable(k)
    /\ \/ /\ SessionRequired
          /\ pc' = [pc EXCEPT ![c] = "fetch"]
          /\ command' = [command EXCEPT ![c] = k]
          /\ local' = [local EXCEPT ![c] = Blank]
          /\ lastResult' = "pending"
          /\ commandLock' = c
          /\ sessionLock' = c
       \/ /\ ~SessionRequired
          /\ Sends(c, k, "pending")
    /\ UNCHANGED <<recipeVars, sessionVars, machineVars>>

\* A command enters _run_command_transaction with the lock free.
Accept(c, k) ==
    /\ pc[c] \in Resting
    /\ k.kind # "sync"
    /\ Issuable(k)
    /\ ~Locked
    /\ \/ /\ SessionRequired
          /\ pc' = [pc EXCEPT ![c] = "fetch"]
          /\ command' = [command EXCEPT ![c] = k]
          /\ local' = [local EXCEPT ![c] = Blank]
          /\ lastResult' = "pending"
          /\ commandLock' = c
          /\ sessionLock' = c
       \/ /\ ~SessionRequired
          /\ Sends(c, k, "pending")
    /\ UNCHANGED <<recipeVars, sessionVars, machineVars>>

\* The handler publishes a rejection without looking at the command lock.
RejectUnsent(c) ==
    /\ pc[c] \in Resting
    /\ Rests(c, "failed")
    /\ lastResult' = "rejected"
    /\ UNCHANGED <<lockVars, recipeVars, sessionVars, machineVars>>

\* async_stop_active_beverage without an active beverage.
StopUnknown(c) ==
    /\ "stop" \in OfferedKinds
    /\ active = NoBeverage
    /\ RejectUnsent(c)

\* A raw command that fails its validation.
RejectRaw(c) ==
    /\ OfferedKinds \cap {"rawStart", "rawStop", "rawPower"} # {}
    /\ RejectUnsent(c)

SyncPossible ==
    /\ online
    /\ ~Locked
    /\ ~Preparing
    /\ UsesCloudSession => (ConnectedProperty /\ HasSignature)

SyncSkipped(c) ==
    /\ pc[c] \in Resting
    /\ "sync" \in OfferedKinds
    /\ ~SyncPossible
    /\ Rests(c, "failed")
    /\ UNCHANGED <<lockVars, lastResult, recipeVars, sessionVars, machineVars>>

SyncAccepted(c, k) ==
    /\ pc[c] \in Resting
    /\ k.kind = "sync"
    /\ SyncPossible
    /\ command' = [command EXCEPT ![c] = k]
    /\ local' = [local EXCEPT ![c] = Blank]
    /\ UNCHANGED <<lastResult, recipeVars, sessionVars, machineVars>>
    /\ \/ /\ UsesCloudSession
          /\ pc' = [pc EXCEPT ![c] = "fetch"]
          /\ commandLock' = c
          /\ sessionLock' = c
       \/ /\ ~UsesCloudSession
          /\ pc' = [pc EXCEPT ![c] = "settle"]
          /\ UNCHANGED lockVars

---------------------------------------------------------------------------
(* _with_cloud_session. *)

\* The cloud evaluates a live GET of app_id; its answer reaches the handler in
\* a later step.  A confirmation poll repeats until it reads the own id.
ReadAppId(c) ==
    /\ \/ pc[c] = "fetch" /\ local[c].appId = "none"
       \/ pc[c] = "confirm" /\ local[c].appId # ownId
    /\ local' = [local EXCEPT ![c].appId = cloudId]
    /\ UNCHANGED <<pc, command, lockVars, lastResult, recipeVars, sessionVars,
                   machineVars>>

FetchFails(c) ==
    /\ pc[c] = "fetch"
    /\ Fails(c, command[c], "rejected")
    /\ UNCHANGED <<recipeVars, sessionVars, machineVars>>

SessionInUse(c) ==
    /\ pc[c] = "fetch"
    /\ local[c].appId \in AppIds \ (NotHeld \cup {ownId})
    /\ Fails(c, command[c], "rejected")
    /\ UNCHANGED <<recipeVars, sessionVars, machineVars>>

\* Faulty: a recent connect is trusted without comparing the id just read.
SessionReusedBlindly(c) ==
    /\ pc[c] = "fetch"
    /\ local[c].appId \in NotHeld \cup {ownId}
    /\ SessionFresh(local[c].appId)
    /\ Sends(c, command[c], lastResult)
    /\ UNCHANGED <<recipeVars, sessionVars, machineVars>>

SessionReused(c) ==
    /\ pc[c] = "fetch"
    /\ local[c].appId \in NotHeld \cup {ownId}
    /\ SessionFresh(local[c].appId)
    /\ \/ /\ local[c].appId = ownId
          /\ Sends(c, command[c], lastResult)
       \/ /\ local[c].appId # ownId
          /\ Fails(c, command[c], "rejected")
    /\ UNCHANGED <<recipeVars, sessionVars, machineVars>>

\* Faulty: the connect POST carries the id that was read.
ConnectAdopting(c) ==
    /\ pc[c] = "fetch"
    /\ local[c].appId \in NotHeld \cup {ownId}
    /\ ~SessionFresh(local[c].appId)
    /\ pc' = [pc EXCEPT ![c] = "post"]
    /\ local' = [local EXCEPT ![c] = [@ EXCEPT !.appId = "none",
                                               !.claim = local[c].appId]]
    /\ UNCHANGED <<command, lockVars, lastResult, recipeVars, sessionVars,
                   machineVars>>

Connect(c) ==
    /\ pc[c] = "fetch"
    /\ local[c].appId \in NotHeld \cup {ownId}
    /\ ~SessionFresh(local[c].appId)
    /\ pc' = [pc EXCEPT ![c] = "post"]
    /\ local' = [local EXCEPT ![c] = [@ EXCEPT !.appId = "none",
                                               !.claim = ownId]]
    /\ UNCHANGED <<command, lockVars, lastResult, recipeVars, sessionVars,
                   machineVars>>

ConnectPosted(c) ==
    /\ pc[c] = "post"
    /\ posted' = local[c].claim
    /\ pc' = [pc EXCEPT ![c] = "confirm"]
    /\ UNCHANGED <<command, local, lockVars, lastResult, recipeVars, ownId,
                   connectAge, cloudId, machineVars>>

SessionConfirmed(c) ==
    /\ pc[c] = "confirm"
    /\ local[c].appId = ownId
    /\ connectAge' = "settling"
    /\ Sends(c, command[c], lastResult)
    /\ UNCHANGED <<recipeVars, ownId, cloudId, posted, machineVars>>

SessionTimeout(c) ==
    /\ pc[c] = "confirm"
    /\ Fails(c, command[c], "timed_out")
    /\ UNCHANGED <<recipeVars, sessionVars, machineVars>>

---------------------------------------------------------------------------
(* _send_property_command and _send_statistics_refresh. *)

\* Faulty: the wake is compared with the state before the session refresh.
RefreshSentOldSnapshot(c) ==
    /\ pc[c] = "refresh"
    /\ pc' = [pc EXCEPT ![c] = "write"]
    /\ local' = [local EXCEPT ![c] = [Snapshot(@) EXCEPT
                                        !.before = local[c].before]]
    /\ lastResult' = "sent"
    /\ UNCHANGED <<command, lockVars, recipeVars, sessionVars, machineVars>>

\* The session refresh is accepted; the wake frame follows at once.
RefreshSent(c) ==
    /\ pc[c] = "refresh"
    /\ pc' = [pc EXCEPT ![c] = "write"]
    /\ local' = [local EXCEPT ![c] = Snapshot(@)]
    /\ lastResult' = "sent"
    /\ UNCHANGED <<command, lockVars, recipeVars, sessionVars,
                   machineVars>>

\* The cloud accepts the command's datapoint.  An identified datapoint of an
\* acknowledging property is waited for while the stream is up; then cloud
\* state decides; without either channel "sent" is the outcome.
WriteAccepted(c, identified) ==
    LET awaitsAck == identified /\ AckEnabled /\ streaming IN
    /\ pc[c] = "write"
    /\ \/ /\ awaitsAck \/ (command[c].kind # "sync" /\ Confirmable)
          /\ pc' = [pc EXCEPT ![c] = IF awaitsAck THEN "ack" ELSE "await"]
          /\ local' = [local EXCEPT ![c].wrote = TRUE]
          /\ lastResult' = Publish(command[c], "sent")
          /\ UNCHANGED <<command, lockVars, active>>
       \/ /\ ~awaitsAck
          /\ command[c].kind = "sync" \/ ~Confirmable
          /\ Completes(c, "sent", TRUE)
    /\ UNCHANGED <<learned, sessionVars, machineVars>>

AckAccepted(c) ==
    /\ pc[c] = "ack"
    /\ local[c].ack = "accepted"
    /\ Completes(c, "acknowledged", local[c].wrote)
    /\ UNCHANGED <<learned, sessionVars, machineVars>>

AckRefused(c) ==
    /\ pc[c] = "ack"
    /\ local[c].ack = "refused"
    /\ Fails(c, command[c], "rejected")
    /\ UNCHANGED <<recipeVars, sessionVars, machineVars>>

\* The acknowledgement says nothing, or the grace period ends, also when a
\* verdict came a moment ago.
AckInconclusive(c) ==
    /\ pc[c] = "ack"
    /\ \/ /\ command[c].kind # "sync" /\ Confirmable
          /\ pc' = [pc EXCEPT ![c] = "await"]
          /\ UNCHANGED <<command, local, lastResult, lockVars, active>>
       \/ /\ command[c].kind = "sync" \/ ~Confirmable
          /\ Completes(c, "sent", local[c].wrote)
    /\ UNCHANGED <<learned, sessionVars, machineVars>>

StateConfirms(c) ==
    /\ pc[c] = "await"
    /\ Changed(c)
    /\ Completes(c, "acknowledged", local[c].wrote)
    /\ UNCHANGED <<learned, sessionVars, machineVars>>

\* Faulty: the beverage of an unconfirmed start is forgotten.
ConfirmationTimeoutForgetful(c) ==
    /\ pc[c] = "await"
    /\ ~Changed(c)
    /\ Fails(c, command[c], "timed_out")
    /\ UNCHANGED <<recipeVars, sessionVars, machineVars>>

\* Faulty: a streaming wait has no deadline, it relies on the push event.
ConfirmationTimeoutPolling(c) ==
    /\ pc[c] = "await"
    /\ ~streaming
    /\ ~Changed(c)
    /\ Fails(c, command[c], "timed_out")
    /\ KeepsBeverage(c, "timed_out")
    /\ UNCHANGED <<learned, sessionVars, machineVars>>

\* command_not_acknowledged: the write is known to have succeeded, so a start
\* keeps its beverage for Stop.
ConfirmationTimeout(c) ==
    /\ pc[c] = "await"
    /\ ~Changed(c)
    /\ Fails(c, command[c], "timed_out")
    /\ KeepsBeverage(c, "timed_out")
    /\ UNCHANGED <<learned, sessionVars, machineVars>>

\* Faulty: a failed POST publishes no result.
CloudFailsSilently(c) ==
    /\ pc[c] \in {"post", "refresh", "write"}
    /\ Fails(c, command[c], lastResult)
    /\ posted' \in {posted} \cup (IF pc[c] = "post" THEN {local[c].claim} ELSE {})
    /\ UNCHANGED <<recipeVars, ownId, connectAge, cloudId, machineVars>>

\* A POST that ran out of retries or time.  The datapoint it carried may have
\* reached the cloud all the same.
CloudFails(c) ==
    /\ pc[c] \in {"post", "refresh", "write"}
    /\ Fails(c, command[c], "timed_out")
    /\ posted' \in {posted} \cup (IF pc[c] = "post" THEN {local[c].claim} ELSE {})
    /\ IF pc[c] = "write" THEN KeepsBeverage(c, lastResult) ELSE UNCHANGED active
    /\ UNCHANGED <<learned, ownId, connectAge, cloudId, machineVars>>

\* The token is rejected and cannot be renewed.
AuthFails(c) ==
    /\ pc[c] \in {"post", "confirm", "refresh", "write"}
    /\ Fails(c, command[c], "rejected")
    /\ IF pc[c] = "write" THEN KeepsBeverage(c, lastResult) ELSE UNCHANGED active
    /\ UNCHANGED <<learned, sessionVars, machineVars>>

\* After the settle delay a statistics refresh refetches every property.
SyncSettles(c) ==
    /\ pc[c] = "settle"
    /\ Rests(c, "idle")
    /\ UNCHANGED <<lockVars, lastResult, recipeVars, sessionVars, machineVars>>

\* Faulty: the locks are released by the handlers of the known errors only.
CancelKeepingLocks(c) ==
    /\ pc[c] \in Holding \cup {"settle"}
    /\ Rests(c, "idle")
    /\ UNCHANGED <<lockVars, lastResult, recipeVars, sessionVars, machineVars>>

\* CancelledError at any await: no handler catches it, the locks are released
\* and the published result stays what it was.
Cancel(c) ==
    /\ pc[c] \in Holding \cup {"settle"}
    /\ Rests(c, "idle")
    /\ commandLock' = IF commandLock = c THEN NoOne ELSE commandLock
    /\ sessionLock' = IF sessionLock = c THEN NoOne ELSE sessionLock
    /\ UNCHANGED <<lastResult, recipeVars, sessionVars, machineVars>>

---------------------------------------------------------------------------
(* The environment: the official app, the machine, the cloud, the clock. *)

\* Another application opens a session (the official app uses the device id
\* too) or the machine reports that a session ended.
HolderMoves(id) ==
    /\ id \in SessionHolders \ {"unset", "default", cloudId}
    /\ cloudId' = id
    /\ UNCHANGED <<callVars, lockVars, lastResult, recipeVars, ownId,
                   connectAge, posted, machineVars>>

\* The machine takes up the connect datapoint.
MachineConnects ==
    /\ posted # "none"
    /\ cloudId' = posted
    /\ posted' = "none"
    /\ UNCHANGED <<callVars, lockVars, lastResult, recipeVars, ownId,
                   connectAge, machineVars>>

ConnectAges ==
    /\ connectAge # "stale"
    /\ connectAge' = IF connectAge = "settling" THEN "fresh" ELSE "stale"
    /\ UNCHANGED <<callVars, lockVars, lastResult, recipeVars, ownId, cloudId,
                   posted, machineVars>>

\* A poll or a push event brings another monitor reading.
MonitorMoves(reading) ==
    /\ reading \in MonitorStates \ {monitor}
    /\ monitor' = reading
    /\ local' = [c \in Callers |->
                    [local[c] EXCEPT !.heard = @ \/ pc[c] \in Writing]]
    /\ UNCHANGED <<pc, command, lockVars, lastResult, recipeVars, sessionVars,
                   streaming, online>>

ResponseMoves ==
    /\ ResponseProperty
    /\ local' = [c \in Callers |->
                    IF pc[c] \in Writing
                    THEN [local[c] EXCEPT !.responded = TRUE, !.heard = TRUE]
                    ELSE local[c]]
    /\ UNCHANGED <<pc, command, lockVars, lastResult, recipeVars, sessionVars,
                   machineVars>>

AckArrives(c, verdict) ==
    /\ pc[c] \in {"write", "ack"}
    /\ AckEnabled
    /\ streaming
    /\ local[c].ack = "none"
    /\ local' = [local EXCEPT
                    ![c] = IF verdict = "accepted"
                           THEN [@ EXCEPT !.ack = verdict, !.heard = TRUE]
                           ELSE [@ EXCEPT !.ack = verdict]]
    /\ UNCHANGED <<pc, command, lockVars, lastResult, recipeVars, sessionVars,
                   machineVars>>

StreamMoves(up) ==
    /\ up \in StreamStates \ {streaming}
    /\ streaming' = up
    /\ UNCHANGED <<callVars, lockVars, lastResult, recipeVars, sessionVars,
                   monitor, online>>

OnlineMoves(up) ==
    /\ up \in OnlineStates \ {online}
    /\ online' = up
    /\ UNCHANGED <<callVars, lockVars, lastResult, recipeVars, sessionVars,
                   monitor, streaming>>

\* The sniffer captures a frame of the app.  Wire action 0x02 is a Stop only
\* for the active beverage while the monitor shows a preparation.
AppFrame(b, wireStop) ==
    LET isStop == wireStop /\ active = b /\ Preparing IN
    /\ LearnsFromApp
    /\ learned' = learned \cup {<<b, IF isStop THEN "stop" ELSE "start">>}
    /\ active' = IF isStop THEN NoBeverage ELSE b
    /\ ownId' = "device"
    /\ UNCHANGED <<callVars, lockVars, lastResult, connectAge, cloudId, posted,
                   machineVars>>

AppWakeFrame ==
    /\ LearnsFromApp
    /\ ownId' = "device"
    /\ UNCHANGED <<callVars, lockVars, lastResult, recipeVars, connectAge,
                   cloudId, posted, machineVars>>

---------------------------------------------------------------------------
(* The specification. *)

Init ==
    /\ pc = [c \in Callers |-> "idle"]
    /\ command = [c \in Callers |-> NoCommand]
    /\ local = [c \in Callers |-> Blank]
    /\ commandLock = NoOne
    /\ sessionLock = NoOne
    /\ lastResult = "none"
    /\ active = NoBeverage
    /\ learned \in SUBSET (Beverages \X {"start", "stop"})
    /\ ownId \in OwnIds
    /\ LearnsFromApp \/ (learned = {} /\ ownId = "default")
    /\ learned # {} => ownId = "device"
    /\ connectAge \in {"fresh", "stale"}
    /\ cloudId \in SessionHolders
    /\ posted = "none"
    /\ monitor \in MonitorStates
    /\ streaming \in StreamStates
    /\ online \in OnlineStates

\* What caller c does once the call it waits on answers or its deadline passes.
Progress(c) ==
    \/ ReadAppId(c) \/ FetchFails(c) \/ SessionInUse(c) \/ SessionReused(c)
    \/ Connect(c) \/ ConnectPosted(c) \/ SessionConfirmed(c)
    \/ RefreshSent(c)
    \/ \E identified \in BOOLEAN : WriteAccepted(c, identified)
    \/ AckAccepted(c) \/ AckRefused(c) \/ AckInconclusive(c)
    \/ StateConfirms(c) \/ ConfirmationTimeout(c)
    \/ CloudFails(c) \/ AuthFails(c)
    \/ SyncSettles(c)

Request(c) ==
    \/ Refuse(c)
    \/ \E k \in Commands : Accept(c, k) \/ SyncAccepted(c, k)
    \/ StopUnknown(c) \/ RejectRaw(c) \/ SyncSkipped(c)

Environment ==
    \/ \E id \in AppIds : HolderMoves(id)
    \/ MachineConnects
    \/ ConnectAges
    \/ \E reading \in Monitors : MonitorMoves(reading)
    \/ ResponseMoves
    \/ \E c \in Callers, verdict \in {"accepted", "refused", "unclear"} :
           AckArrives(c, verdict)
    \/ \E up \in BOOLEAN : StreamMoves(up) \/ OnlineMoves(up)
    \/ \E b \in Beverages, wireStop \in BOOLEAN : AppFrame(b, wireStop)
    \/ AppWakeFrame

Next ==
    \/ \E c \in Callers : Request(c) \/ Progress(c) \/ SessionTimeout(c) \/ Cancel(c)
    \/ Environment

\* Every HTTP call ends in an answer or an error (bounded retries, a client
\* timeout) and every wait has a deadline, so a suspended caller resumes.  The
\* confirmation loop may poll any number of times before its own deadline,
\* which therefore needs a condition of its own.
Fairness ==
    \A c \in Callers :
        /\ WF_vars(Progress(c))
        /\ WF_vars(SessionTimeout(c))

Spec == Init /\ [][Next]_vars
FairSpec == Spec /\ Fairness

---------------------------------------------------------------------------
(* Properties. *)

\* Every variable keeps its type.
TypeOK ==
    /\ pc \in [Callers -> Locations]
    /\ command \in [Callers -> Commands \cup {NoCommand}]
    /\ local \in [Callers -> Locals]
    /\ commandLock \in Callers \cup {NoOne}
    /\ sessionLock \in Callers \cup {NoOne}
    /\ lastResult \in Results
    /\ active \in Beverages \cup {NoBeverage}
    /\ learned \subseteq Beverages \X {"start", "stop"}
    /\ ownId \in OwnIds
    /\ connectAge \in {"settling", "fresh", "stale"}
    /\ cloudId \in AppIds
    /\ posted \in OwnIds \cup {"none"}
    /\ monitor \in Monitors
    /\ streaming \in BOOLEAN
    /\ online \in BOOLEAN

\* The command lock is held exactly while one caller is inside a transaction,
\* and the session lock by that caller exactly when its profile needs a cloud
\* session: nobody ever queues on either lock.
OneTransaction ==
    /\ \A c \in Callers : pc[c] \in Holding <=> commandLock = c
    /\ sessionLock = IF SessionRequired THEN commandLock ELSE NoOne

\* A frame is in flight only in a transaction whose last live read of app_id
\* returned the identity the integration still signs with, which is by then the
\* one learned from the app: no frame leaves under its provisional identity,
\* although commands may be requested and the identity may change meanwhile.
WritesInOwnSession ==
    \A c \in Callers :
        (SessionRequired /\ pc[c] \in Writing) =>
            /\ sessionLock = c
            /\ local[c].appId = ownId
            /\ HasSignature

Leaves(c, where) == pc[c] \in where /\ pc'[c] \notin where

\* When a start whose datapoint the cloud accepted is over, confirmed or not,
\* its beverage is the active one, so that Stop is possible; only a refusal by
\* the machine or a cancellation ends it otherwise.
StartKeepsStop ==
    [][\A c \in Callers :
          (/\ Leaves(c, Writing)
           /\ command[c].kind = "start"
           /\ pc'[c] = "done" \/ (pc'[c] = "failed" /\ local[c].wrote)
           /\ local[c].ack # "refused")
          => active' = command[c].beverage]_vars

\* The status published when a transaction ends agrees with what its caller is
\* told, even if another request overwrote it on the way.
StatusTellsOutcome ==
    [][\A c \in Callers :
          (Leaves(c, Holding) /\ command[c].kind # "sync") =>
              /\ pc'[c] = "done" => lastResult' \in {"sent", "acknowledged"}
              /\ pc'[c] = "failed" => lastResult' \in {"timed_out", "rejected"}]_vars

\* "acknowledged" rests on a sign of life of the machine (its acknowledgement
\* of this datapoint, a response or a monitor change) given after the POST of
\* the command's own frame was called: nothing it showed while the session was
\* acquired or the session refresh before a wake was posted counts.  A late
\* answer to that refresh, given while the wake itself is posted, does.
AcknowledgedOnEvidence ==
    [][\A c \in Callers :
          (Leaves(c, Holding) /\ pc'[c] = "done" /\ lastResult' = "acknowledged")
          => local[c].heard]_vars

\* Every transaction ends: no failure, silence or interleaving leaves the
\* command lock held for ever.
TransactionEnds ==
    \A c \in Callers : pc[c] \in Holding ~> pc[c] \notin Holding

\* The command path implements the serial command service.
Serial == INSTANCE SerialCommands WITH
    phase <- [c \in Callers |-> IF pc[c] \in Holding THEN "running"
                                ELSE IF pc[c] = "done" THEN "done"
                                ELSE "resting"],
    accepted <- [c \in Callers |-> pc[c] # "settle" /\ local[c].wrote]

ImplementsSerialCommands == Serial!SSpec
===========================================================================
