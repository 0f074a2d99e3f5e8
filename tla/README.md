# Verification of the Coffee Link integration

TLA+ models, TLC configurations and TLAPS proofs for the Home Assistant
integration in `src/custom_components/ha_delonghi_coffeelink_eletta_explore`.
Paths below are relative to that directory unless they start with `src/`.

## The system

The integration logs in to the vendor's Ayla cloud, polls the properties of each
coffee machine, receives push events from a stream (DSS), and writes command
datapoints. Everything runs on one asyncio event loop: a handler is atomic
between two awaits, and anything may happen at an await.

| Part | Code | State | Operations | What makes it correct |
|---|---|---|---|---|
| Command transactions | `coordinator.py` 725-1050, 1425-1693 | `_command_lock`, `last_command_result`, `active_beverage_id` | beverage start/stop, wake, standby, raw, statistics refresh | one at a time; truthful status; Stop possible after a written start; every transaction ends |
| Cloud session arbitration | `coordinator.py` 563-712, 1068-1111 | `_session_connect_lock`, `_last_connect_at`, `_integration_app_id`; `app_id` at the cloud | live read, reuse, connect, confirm | frames only under the integration's own session and learned identity |
| Command confirmation | `command_confirmation.py`, `coordinator.py` 430-442, 498-525 | waiters, acknowledgement cache | wait, notify, remember, cancel | no lost wake-up; an acknowledgement reaches its own command only; deadlines hold |
| Cloud state | `coordinator.py` 232-496 | `data`, sequences, monitor and its ordering token, sniffer markers | poll, merge, push event, stream change | newer values are not replaced by older ones |
| Learned frames | `coordinator.py` 1122-1423, 1561-1582 | start/stop/wake frames, discarded keys, store | sniff, learn, save, restore, validate | frames in use are valid and of one signature; nothing stored is overwritten unasked; repair issue while something is missing |
| Statistics refresh | `coordinator.py` 818-981 | two tasks, last attempt and result | automatic, post-command, manual refresh | at most one pending; one transaction like any other |
| Stream supervision | `dss.py` | task, socket, state, delay | subscribe, connect, receive, back off, stop | polling is restored on any loss; the stream is tried again; stop ends the task |
| Ayla client | `ayla_client.py` | tokens, `_auth_lock`, device cache | requests with retries, renewal, one replay | one login per rejected token; bounded attempts |
| Maintenance monitor | `coordinator.py` 221-230, 352-374 | candidate and count, stable frame | observe | transient standby frames are not trusted |
| Entry life cycle | `__init__.py` 176-250 | coordinators, reload task | set-up, reload, unload | one reload per change; failed set-up leaves no task |
| Pure functions | `counters.py`, `button_migration.py`, `monitor.py`, `command_builder.py` | none | parsing, aggregation, identifiers, frames | totals agree with their parts; identifiers are stable |

The parts interact as follows. A button, a service or the statistics task calls
the command path; that takes the command lock, then the session lock, and calls
the client. The poll and the stream call the cloud-state handlers, which change
the monitor and the response marker the command path compares, wake its waiters,
feed the sniffer (which may change `active_beverage_id`, the learned tables and
the identity), and switch between push and polling. The official app shares the
session (`app_id`) and the command property with the integration without any
lock between them.

What is hard: state read before an await and used after it (`app_id`, the
monitor, the published status), two writers of `last_command_result`, POSTs that
fail after delivery, acknowledgements that precede the answer of the POST they
belong to, cancellation at any await, changes of identity while commands are
pending, polls that overlap push events. `PROJECT.json` lists each of them at
its line under `hazards`.

## Modules

| Module | Contents |
|---|---|
| `CommandTransaction` | the command path with its environment |
| `SerialCommands` | the service it implements: one request at a time, "done" only after an accepted write |
| `MCCommandTransaction` | what TLC needs: symmetry, and two statements of the repository that the code contradicts |
| `CommandConfirmation` | how a written command waits for its acknowledgement and for the machine to move |
| `CommandOutcome` | the promise it implements: no result without evidence |
| `CloudState`, `MCCloudState` | polls and push events into one copy of the machine's properties; monitor decoder and maintenance state; the instance's readings |
| `LearnedFrames`, `MCLearnedFrames` | frames learned from the app, their storage, the repair issue, the identity; the instance's traffic and old tables |
| `DssStream` | stream supervision, the poll interval it sets, the entry that owns both |
| `AylaAuth` | requests of the cloud client and the token they share |
| `TokenLease` | the promise it implements: a good token is never given up or replaced |
| `*Proofs` | the theorems about the module they are named after |
| `TransactionOutcomeProofs` | further theorems about `CommandTransaction`: what a transaction comes to, and the refinement of `SerialCommands` |

`CommandTransaction` composes with the others through assumptions that they
establish. The outcome of its wait (moved, or unchanged at the deadline; the
acknowledgement of its own datapoint) is what `CommandConfirmation` produces. Its
tables carry one signature and replay without failing, which `LearnedFrames`
shows (`OneMachine`, `NeverInvalid`), and its requests are accepted, fail or are
not authorized after bounded work, which `AylaAuth` shows (`RequestsEnd`).
`CloudState` takes the stream's comings and goings from `DssStream`.

### CommandTransaction

`pc[c]` names the await at which caller `c` is suspended; an action is the code
from that await's return to the next await.

| `pc` | suspended at |
|---|---|
| `fetch` | `_fetch_app_id_live` in `_with_cloud_session` |
| `post` | `async_post_cloud_session` |
| `confirm` | settle delay and `_wait_for_session_confirmed` |
| `refresh` | POST of the session refresh that precedes a wake from deep standby |
| `write` | POST of the command's datapoint |
| `ack` | `_async_wait_for_dss_ack` |
| `await` | `_wait_for_command_confirmation` |
| `settle` | a statistics refresh after it released the lock |
| `idle`, `done`, `failed` | at rest; after a return; after an exception |

`commandLock`/`sessionLock`, `lastResult`, `active`, `learned`, `ownId`,
`connectAge`, `monitor`, `streaming`, `online` are the coordinator's attributes.
`cloudId` is the property at the cloud and `posted` a connect datapoint the
machine has not acted upon. `local[c]` holds a transaction's local variables.
`heard` is the one history variable.

Abstractions, all of data or time:

- Both locks are only requested after a test in the same atomic step, so no
  caller is ever queued; `OneTransaction` states it and the proof confirms it.
- `_integration_app_id` and `_default_app_id` are always assigned together, so
  one variable `ownId` holds "default" (generated) or "device" (from a learned
  frame), and the branches that revert a foreign id never run.
- The monitor is reduced to the classes the guards distinguish, plus two
  different readings of a preparation (a changed reading is a confirmation).
- The wait for confirmation is its outcome: some moment at which the state
  differs from the snapshot, or a deadline at which it does not. The waiters
  behind it are in `CommandConfirmation`.
- Ages of the last connect are "settling" (under 4 s), "fresh" (under 240 s) and
  "stale". `Init` allows "fresh", because `_last_connect_at` starts at 0 and the
  monotonic clock may be younger than 240 s.
- A request's outcome is: accepted, failed (possibly after delivery), or not
  authorized. `write` is the whole of `async_set_property_value`, with the token
  renewed before it (`ayla_client.py` 276) and its retries (281-338, 372-385): the
  frame leaves at any time during it, while the monitor and the connection change.
  The start was validated before (1432) and is not again.
- `heard` is reset when the command's POST is called, as the snapshot is taken
  there (1010): an answer to the session refresh that comes while the wake is being
  posted counts, in the code as in the model.
- Whether a start that raises keeps its beverage (`command_written`, 1461-1466) is
  `KeepsBeverage`, which reads the published status of that moment.
- Each frame in the tables carries the one learned signature, so a learned frame
  never fails validation when it is replayed (1440-1450); `LearnedFrames` shows how
  the tables get that property.
- `Issuable` contains the availability of the wake and standby buttons
  (`button.py` 182-184, 204-206): Home Assistant does not press an unavailable
  button, and these commands have no other entry.
- `last_command`'s descriptive fields and logging are left out.

### CommandConfirmation

One command is in progress (`_command_lock`). `pc` is its await: `post`
(`async_set_property_value`), `ack` (`_async_wait_for_dss_ack`), then those of
`CommandConfirmationTracker.async_wait`: `state` (the waiter), `refresh`, `sleep`
and `reconcile` (the one refresh after the deadline). `recent` and `order` are
`_recent_dss_acks` and its eviction deque, `ackWaiter` and `waiter` the two
futures; a future that is set is only noticed when the task resumes, and anything
may come first, its own timeout included. A refresh goes through Home Assistant's
debouncer, so it may return before a poll. `seen` moves by a push of the monitor or
of the response, which wakes the waiter, by a poll, or by `CommandEchoed`: an event
of the command property reads the response of the data as well (481-485), which a
poll may have replaced. Neither of these wakes anybody; the history variable `quiet`
says that the last move was one of them, `moved` that there was one since the
command was sent. `Shutdown` cancels futures that are pending; the command whose
future was set just before goes on.

### CloudState

A version numbers the changes of a property at the cloud. It stands for the value,
for `data_updated_at` and for the monitor's ordering token, which all grow with
it. A poll suspends twice: at the read of the properties (`asking`, its answer the
`replica` of the moment it was sent) and, after merge, sniffing and decoding, at
the reads of connection info and device list (`details`); `data` is replaced when
it returns. Two requests that overlap do not exist: Home Assistant's coordinator
runs one refresh at a time. `wire` holds what the stream has sent; delivery may
skip, repeat and reorder. `sequences` is keyed by property, as each property has
one kind of event. `Form` says which form the sequence of each change's event has:
a number, which is ordered, another text, which is only compared with the one
remembered, or none, with which an event is always accepted. Properties outside `Stamped` carry no time stamp: the merge and
the event handler then take what comes last. `candidate` and `stable` are the
maintenance monitor. The decoder is reduced to `Reading`, a function of the
version.

### LearnedFrames

A frame keeps what the checks distinguish (beverage, action byte, signature,
integrity) and, as `press`, the button behind it, which the code cannot see and
only properties mention. `learned`, `active`, `identity`, `discarded` and `issue`
are the coordinator's attributes, `store` the file, `pendingSave` the delayed save
of two seconds. A regular stop writes what is pending, a crash does not; a reload
reads the store at once while the unloaded coordinator's save is still to come
(`lateSave`). When one is pending already the next reload waits for it, a bound on
the number of unloaded coordinators. Each of these, and the first start, either
reads the store (`Loads`) or fails to (`LoadFails`, 1191-1195): then the tables stay
empty, nothing is discarded and the repair issue is left as it is. `owed`, `raced`
and `unread` are history. `Init` ranges over the tables earlier
versions of the integration may have stored.

### DssStream

`task` is the await of `AylaDssManager._async_run`, `stop` that of `async_stop`,
`entry` the phase of `async_setup_entry` and `async_unload_entry`. Cancellation is
requested in one step and raised in a later one; `finally` closes the connection
under it. One coordinator stands for all, as all hear the same states. `interval`
is `update_interval`; Home Assistant reads it only when a refresh ends, so `timer`
keeps the interval the next poll was scheduled with. `Shutdown` cancels the
fallback refresh; after `UnloadFails` (a platform that cannot be unloaded,
`__init__.py` 247-250) the stream and the coordinators go on; a user-requested poll in flight is not modelled. An
authentication failure in the loop is one of the failures of `AttemptFails`.

### AylaAuth

`pc[c]` is the await of request `c`: `ensuring` and `rejected` wait for
`_auth_lock`, `refreshing`, `password`, `jwt` and `sso` are the requests of a
renewal, made by the holder of the lock, `asking` is the request itself and
`backoff` the sleep before a retry. `token` numbers the access tokens as the cloud
issues them. `late` means less than 30 seconds of life; a token lives longer than
that when it is issued. Retries inside a renewal change nothing but time.

## Runs

| Run | Instance | Question |
|---|---|---|
| `command_eletta` | two callers; start, stop, refresh; one beverage; stream up, acknowledgements on | does the command path with a cloud session keep its promises, and does it implement `SerialCommands`? |
| `command_wake` | two callers; wake from deep standby; response channel, stream up or down; no symmetry; fairness | is a wake acknowledged only on a sign of life given since its own POST was called, and does it end? |
| `command_soul` | two callers; every kind but wake, without session; connection and stream vary; monitor may be empty or undecodable | is a written start kept for Stop however its wait ends, and does the path without session implement `SerialCommands` too? |
| `confirmation` | three commands, two states, a cache of two acknowledgements; fairness | are wake-ups and acknowledgements heard, outcomes honest, and does every command end? |
| `cloud_state` | a stamped monitor (standby, undecodable, ready) and an unstamped command property, two changes each; two events per stream, with sequences of each form; fairness | which staleness can the coordinator show, and does it end when the cloud is quiet? |
| `learned_frames` | two beverages, two machines, eight kinds of traffic, five stored tables, loads that fail | are the frames in use always valid, of one machine and the source of the identity; what in use and what stored can be lost? |
| `stream` | back-off 3 to 60 s, Retry-After 0, 30 or 300 s; fairness | does a loss fall back to polling and get retried, and does a stop leave nothing? |
| `auth` | two requests, one retry, three tokens; fairness | is a token renewed once, the verdict on the credentials honest, and does every request end? |
| `status_overwritten` | a wake and a Stop | violated: a rejected Stop replaces the status of the running command |
| `raw_start_untracked` | raw start and Stop | violated: a raw start the cloud accepted leaves Stop unavailable |
| `poll_replaces_push` | as `cloud_state` | violated: a poll replaces a newer stamped push value |
| `repair_forgotten` | as `learned_frames` | violated: the repair issue goes before the command was learned again |

Properties of the command path:

- `OneTransaction`: the locks belong to exactly the one caller in a transaction.
- `WritesInOwnSession`: a frame is in flight only after a live read returned the
  identity the integration still has, and that is the learned one.
- `StartKeepsStop`: a written start, confirmed or not, leaves its beverage for Stop.
- `StatusTellsOutcome`: the status at a command's end agrees with what its caller
  is told, whoever wrote the status meanwhile.
- `AcknowledgedOnEvidence`: "acknowledged" rests on a sign of life given since
  the POST of the command's own frame was called; what the machine showed while the
  session was acquired or the session refresh posted does not count.
- `TransactionEnds`: no transaction lasts for ever.
- `ImplementsSerialCommands`: refinement of `SerialCommands`.

Of its confirmation: `NoLostWakeup` (a push of the monitor or of the
response that moves the state after the last look has set the waiter), `AckCache` (an acknowledgement that overtook the answer
of its POST is found while it is among the last remembered, and the cache keeps
its bound), `NoAckMissed` (who waits for an acknowledgement has not missed it),
`OutcomeHonest` (refinement of `CommandOutcome`), `CommandEnds`.

Of the cloud state: `MonitorIsNewest`, `NothingUndecoded`,
`NoFutureEventRefused` (sequences of an earlier stream refuse nothing this one has
yet to send), `GoesBackOnlyInTheWindow` (a stamped value goes back only when a poll
returns, and only if it was pushed during that poll's last awaits),
`MaintenanceForward`, and `SettlesOnCloud` (polls bring the copy, the
monitor, the sniffer and the maintenance state to the cloud's last version).

Of the learned frames: `ReplaysValid` (no frame in use fails its check when sent),
`IdentityFollowsFrames`, `IssueAsksForMissing` (the repair issue exists exactly while
something discarded in this run is missing; an issue of an earlier run may be left
over when the store could not be read), `LostOnlyUnsaved` (a frame goes out of use
only with a save pending, after a reload that raced one, or by a load that fails) and
`StoredFramesKept` (a stored frame is overwritten only by a table that has it, or by
one that asks for it again, was built without reading the store, or raced a reload).

Of the stream: `NothingLeftRunning`, `LossIsPolled` (without a stream the next poll
does not wait for the five-minute timer, unless the loss found the flag of a fallback
refresh that had just ended: `overlooked`), `BackoffHonoured`, `LossRetried`,
`StopEnds`. Of the client: `ImplementsTokenLease`, `RefusedTokenNotReused`,
`CredentialVerdict`, `RequestsEnd`.

Bounds. Command path: two callers are enough for every interleaving, because a
third finds the lock taken like the second; one beverage suffices where the
properties relate a command to its own; there is no counter. `confirmation`: three
commands over a cache of two make the eviction of a current, an earlier and a
consumed entry happen. `cloud_state`: two monitor changes give one reading to
replace, one undecodable and one that is the maintenance state at once; two events of
a stream (`MaxEvents`, what it sends beyond is lost) repeat and reorder; the two
changes of the command property carry a sequence that is no number, and none. `learned_frames` has no counter; two beverages and two machines
are needed for tables that mix signatures, and the second beverage is only
started. `stream`: six failures pass the limit of the doubling. `auth`: three tokens
allow a renewal, its refusal and another renewal while the other request still
carries the first. Symmetry of the callers is used only in runs without liveness.
Deadlock is checked in all runs but `confirmation`, which really stops after its
last command or the shutdown.

## Fairness

- `CommandTransaction`: `WF(Progress(c))`, as every HTTP call has a 20 s timeout and
  bounded retries, and the waits have deadlines; `WF(SessionTimeout(c))`, as the
  confirmation loop may poll any number of times before its deadline.
- `CommandConfirmation`: `WF(Progress)`, the event loop runs what is ready and every
  await is bounded; `WF(Expire)`, the clock passes the deadline.
- `CloudState`: polling is periodic (`WF(PollSent)`) and may succeed each time it is
  tried, so it is not cancelled or failed for ever (`SF` on its two returns); a
  replica catches up. Of the stream it is only assumed that it does not deliver the
  same old events for ever: one without a sequence and time stamp is applied each time
  it comes. `SettlesOnCloud` holds if it never delivers anything.
- `DssStream`: requests, closes and sleeps end, a silent connection is given up after
  75 s (`Notices`), a cancellation is delivered. A healthy stream may stay up for
  ever; no request has to succeed.
- `AylaAuth`: requests have timeouts (`WF`); `asyncio.Lock` serves its waiters in
  turn, so who waits for the lock gets it (`SF(Locked(c))`).

Nothing is assumed of the machine, the app or the callers.

## Findings

`status_overwritten`: `async_stop_active_beverage` and `_reject_raw_command` publish
"rejected" without regard to the lock, although the comment at `coordinator.py`
1502-1504 promises to keep the running command's status. `StatusTellsOutcome` shows
that the running command's own end still corrects it.

`raw_start_untracked`: `async_send_raw` does no bookkeeping of the active beverage,
although `src/docs/COMPATIBILITY.md` 131-132 promises Stop after a successful write.

`poll_replaces_push`: a push value that arrives while a poll awaits connection info
or the device list is written into the data set the poll is about to replace
(`coordinator.py` 236-264), although `src/docs/ARCHITECTURE.md` 14-15 excludes it.
`GoesBackOnlyInTheWindow` bounds the damage to that window, `MonitorIsNewest` and
`MaintenanceForward` show that the decoded monitor is not affected, and
`SettlesOnCloud` that a later poll repairs it.

`repair_forgotten`: discarded keys live in memory only, the next start deletes the
persistent repair issue (`coordinator.py` 1226, 1276-1278), although
`src/README.md` 133-135 and `src/docs/USAGE.md` 72-75 keep it until every command was
learned again. `IssueAsksForMissing` is what does hold, within one run of Home
Assistant.

Observations without a run:

- A session opened by another application between the GET and the connect POST is
  displaced (hazard at line 1105). After the identity was learned, the
  integration's own former id at the cloud is reported as another application's
  until the machine releases it. A write that timed out after delivery loses its
  beverage for Stop.
- A start is validated once (`coordinator.py` 1432); its POST may then wait for a
  token, a back-off or a Retry-After and leave in a state that forbids it.
- An answer to the session refresh that comes while the wake is being posted
  confirms the wake: the snapshot is taken before the POST (1010-1013).
- A Stop frame captured before its start was seen, or while no preparation shows, is
  stored and replayed as a start, although the docstring at `coordinator.py` 1321-1323
  says it never is; a start of the drink being made with action byte 0x02 is stored as
  a Stop. Nothing the code knows tells them apart (`LogicalAction`).
- A wait that loses its stream while it sleeps on the waiter ends at the deadline
  without the reconciliation of `src/docs/ARCHITECTURE.md` 31-33. A cached
  acknowledgement is not looked at when the stream has just dropped, and a refusal
  that arrives after the grace period is not either. Polls wake nobody, so a change
  only a poll sees is noticed at the deadline.
- Two equal standby frames that make the maintenance state stable may be one push and
  the poll that reads the same frame again.
- A stream lost again after its fallback refresh ended, and before that task is done,
  asks for no refresh (`overlooked`): the next poll is up to five minutes away.
- A retry after a transient failure may be sent without a token while another request
  renews it; its refusal counts as the request's one refusal.
- A load that fails (`coordinator.py` 1193-1195) leaves empty tables, which the next
  save writes over the stored ones, and leaves a repair issue of an earlier run with
  nothing that would clear it in this one: the cases `unread` of `LostOnlyUnsaved`,
  `StoredFramesKept` and `IssueAsksForMissing`.
- A wrong password is tried again by each waiting request.
- An entry that could not be unloaded (`__init__.py` 247-250) keeps its stream and its
  coordinators until Home Assistant stops.
- A command whose POST is under way when its entry is unloaded goes on, as only the
  waiters that exist are cancelled (`coordinator.py` 214-217), and then schedules a
  refresh for an entry that is no longer loaded (1476, 1484). A poll asked for by the
  user can do the same with the hourly task (263). `CommandConfirmation` contains
  such a command: `closed` with `pc` at `post`.
- The reload after a changed device list runs in a background task of the entry it
  unloads (`__init__.py` 208-212), and Home Assistant cancels such tasks when it
  unloads an entry; whether the set-up follows is decided there, not in this code.
- A statistics refresh after a command that finds the machine still preparing is not
  repeated (`coordinator.py` 966), and one that was skipped does not bring the hourly
  task forward to five minutes, as `src/docs/CLOUD_SNAPSHOT_REFRESH.md` 18-20 has it.
  An hourly task that was scheduled before such a refresh succeeded does not wait
  another hour (line 17 there).

## Proofs

Each proof module holds for every value of its module's constants within the named
ASSUME; TLC evaluates the assumption in the runs.

| Theorem | Statement | Argument |
|---|---|---|
| `CommandTransactionProofs!TypeCorrect` | `[]TypeOK` | inductive; lemmas for how a handler begins to write, completes, fails |
| `MutualExclusion` | `[]OneTransaction` | inductive given `TypeOK`: a caller moves either while the lock is free or its own, or outside it |
| `OwnSession` | `[]WritesInOwnSession` | from `SignedInv` |
| `StatusTruthful` | `StatusTellsOutcome` | each way out of a transaction publishes what it tells |
| `TransactionOutcomeProofs!LocalsConsistent` | `[]OutcomeInv` | inductive, over the shapes of a step |
| `StopKept`, `AcknowledgedHonest` | `StartKeepsStop`, `AcknowledgedOnEvidence` | each shape, from `OutcomeInv` |
| `SerialImplemented` | `ImplementsSerialCommands` | refinement: each shape is a step of the service or none, from `OutcomeInv` and `OneTransaction` |
| `ConfirmationTypes`, `WakeupsKept`, `AcksHeard` | `[]TypeOK`, `[]NoLostWakeup`, `[]NoAckMissed` | from `WaitInv` |
| `CacheFinds` | `[]AckCache` | from `CacheInv` |
| `OutcomesHonest` | `OutcomeHonest` | refinement, with `Sending` |
| `CloudStateProofs!TypeCorrect` | `[]TypeOK` | inductive |
| `MonitorNewest`, `AllDecoded`, `StableForward` | `[]MonitorIsNewest`, `[]NothingUndecoded`, `MaintenanceForward` | from `MonitorInv` |
| `FutureEventsHeard` | `[]NoFutureEventRefused` | from `StreamInv` |
| `WindowOnly` | `GoesBackOnlyInTheWindow` | from `OnlyPushedAhead` |
| `LearnedTypes`, `NeverInvalid`, `IdentityKept`, `IssueExact`, `OneMachine` | `[]TypeOK`, `[]ReplaysValid`, `[]IdentityFollowsFrames`, `[]IssueAsksForMissing`, `[]OneSignature` | from `IInv` |
| `SavedIsKept`, `StoreKept` | `LostOnlyUnsaved`, `StoredFramesKept` | each step, from `IInv` |
| `StreamTypes`, `NothingLeft`, `LossPolled` | `[]TypeOK`, `[]NothingLeftRunning`, `[]LossIsPolled` | from `IInv` |
| `BackoffKept` | `[]BackoffHonoured` | from `Backoff`, with the values of `Doubled` |
| `AuthTypes`, `NotReused` | `[]TypeOK`, `[]RefusedTokenNotReused` | from `IInv` |
| `LeaseImplemented` | `ImplementsTokenLease` | refinement, from `IInv` |
| `CredentialsHonest` | `CredentialVerdict` | each step, from `IInv` |

The inductive invariants and why they are needed:

- `SignedInv` (command path): learned frames imply a signature, and a command that
  needs no learned frame was accepted only with one; without it a wake could run
  unsigned.
- `OutcomeInv` (command path) relates where a caller is to what its locals say: the
  write was accepted once it waits for an answer and not before, a session refresh is
  always a wake's, and a reading that differs from the snapshot, an answer of the machine or
  an acknowledgement has set `heard`. Without the last part "acknowledged" could rest
  on the snapshot. The 25 actions of a caller take seven shapes (`StepShapes`: a caller
  arrives, transmits, acquires, nudges, waits, finishes or quits), and every proof
  goes through the shapes.
- `WaitInv` adds that a command that sleeps on the state has a waiter. `Sending` adds
  that a state which differs from the snapshot has moved since, and that no
  datapoint is acknowledged before it is sent.
- `CacheInv` (acknowledgements): no id of a command yet to come is remembered, and the
  command whose POST is unanswered is in the eviction deque at most once. With two
  places there, the eviction of the first would forget an acknowledgement that is
  still among the last remembered.
- `MonitorInv` adds the poll's own copy: what it merged has been decoded too.
  `StreamInv` adds that no event on the wire has a sequence the stream has not sent.
  `OnlyPushedAhead` says what can be ahead of a poll after its merge.
- `LearnedFramesProofs!IInv`: the table in use holds frames valid by themselves
  (`Clean`), of one machine (`One`), the source of the identity (`Follows`): a
  start keeps what agrees with the first valid frame, a capture is filed only when
  it agrees with those there are. For `LostOnlyUnsaved` it adds that, until a reload
  raced a save, what is not waiting to be saved is what a start would load; for
  `StoredFramesKept` that, until then and unless the store was not read, what is
  stored is in use or discarded. The stored tables of an earlier version need no
  property.
- `DssStreamProofs!IInv`: `Phases` (what an entry has in each phase), `Owns` (a
  connection is held only while the task receives, a close runs only under it) and
  `Timers` (the interval is that of the state). Without `Owns` a stop could miss a
  connection. `Backoff` adds that the delay carried into an attempt counts one failure
  more than the one it was waited for: at least `Doubled[fails]`, capped.
- `AylaAuthProofs!IInv`: `LockHeld` (who renews holds the lock), `Numbered` (tokens are
  counted as issued), `SpentKnown` (who renews found the token gone or spent) and
  `MovedOn` (a request with another chance has left its refused token behind).

`Doubled` is a recursive function. The library's induction takes an operator as its
parameter, which the provers cannot instantiate, so `DssStreamProofs` states
induction for sets (`NatSetInduction`, from `WFMin` and the well-foundedness of `<` on
`Nat`), proves that the recursive definition has a solution (`DoubledExists`) and
takes its values and growth from there.

Only model-checked: liveness (`TransactionEnds`, `CommandEnds`, `SettlesOnCloud`,
`LossRetried`, `StopEnds`, `RequestsEnd`), which is out of the prover's reach. Every
other property of a passing run is a theorem.

## Plan

1. Theorems beyond the properties of the runs: the operators `LearnedFrames` and
   `CloudState` are built from (what `Known`, the merge and the maintenance monitor
   preserve), and that `CommandConfirmation` produces the outcomes
   `CommandTransaction` assumes of a wait.
2. The timers of the statistics tasks, composed with the poll of `CloudState`, and
   the reload the device list asks for, as part of the entry in `DssStream`.

## Not modelled

- The delays of the automatic and post-command statistics tasks: time alone decides
  there; the refresh they start is in `CommandTransaction`.
- The reload after a changed device list and the removal of stale devices
  (`__init__.py`), the client's device cache.
- Counters, aggregates and the button migration: pure functions of parsed values
  and registry entries.
- Frame layout, CRC and base64: no state, unit-tested byte by byte. The models keep
  the verdicts (intact, action byte, beverage, signature).
- Config flow, diagnostics, translations and entity presentation.

`PROJECT.json` lists every part with its status.
