----------------------------- MODULE DssStream -----------------------------
(***************************************************************************)
(* The supervision of the cloud's push stream (dss.py), the poll interval   *)
(* it sets in the coordinators (coordinator.py) and the config entry that    *)
(* owns both (__init__.py): set-up, failure, unload and set-up again.       *)
(*                                                                         *)
(* The supervision is one task; task names the await it is suspended in.    *)
(* All coordinators hear the same states, one stands for them.  Home        *)
(* Assistant's coordinator reads update_interval only when a refresh ends:  *)
(* until then its timer keeps the interval it was set with.                 *)
(***************************************************************************)
EXTENDS Naturals

CONSTANTS
    MinDelay,      \* DSS_RECONNECT_MIN_DELAY
    MaxDelay,      \* DSS_RECONNECT_MAX_DELAY
    RetryAfters,   \* what the cloud asks with a 429, 0 without one
    CountedFails   \* failures in a row the history tells apart

ASSUME StreamAssumption ==
    /\ MinDelay \in Nat /\ MaxDelay \in Nat /\ MinDelay <= MaxDelay
    /\ RetryAfters \subseteq Nat /\ 0 \in RetryAfters
    /\ CountedFails \in Nat \ {0}

VARIABLES
    entry,        \* the config entry
    up,           \* the coordinators exist and are not shut down
    task,         \* the supervision task: none, or its await
    held,         \* self._websocket is set
    conn,         \* the connection: none, open, or lost unnoticed
    stopping,     \* self._stopping
    stop,         \* async_stop: idle, or its await
    cancelled,    \* the task is cancelled, the exception not yet raised
    raising,      \* the close in finally runs under that exception
    state,        \* self.state and the coordinators' dss_state
    delay,        \* the local of _async_run
    interval,     \* update_interval
    timer,        \* the interval the next scheduled poll was set with
    fallback,     \* _dss_fallback_refresh_task is set
    due,          \* a requested refresh is running or debounced
    asked,        \* history: Retry-After of the last failure
    fails,        \* history: failures since the last stream
    overlooked    \* history: a loss found the flag of a finished refresh

supervision == <<task, held, conn, raising, delay, asked, fails>>
polling     == <<interval, timer, fallback, due, overlooked>>
ending      == <<entry, up, stopping, stop>>
vars        == <<supervision, polling, ending, cancelled, state>>

Least(a, b)    == IF a < b THEN a ELSE b
Greatest(a, b) == IF a > b THEN a ELSE b

---------------------------------------------------------------------------
(* The coordinator. *)

IntervalFor(s) == IF s = "streaming" THEN "slow" ELSE "fast"

\* Faulty: the loss of a stream only changes the interval.
SetStateQuietly(s) ==
    /\ state' = s
    /\ interval' = IntervalFor(s)
    /\ UNCHANGED <<due, overlooked, fallback, timer>>

\* _set_state and set_dss_state: the loss of a stream asks for a refresh unless
\* the task of an earlier one is still there.
SetState(s) ==
    LET asks == state = "streaming" /\ s # "streaming"
    IN  /\ state' = s
        /\ interval' = IntervalFor(s)
        /\ due' = (due \/ (asks /\ ~fallback))
        /\ overlooked' = (overlooked \/ (asks /\ fallback /\ ~due))
        /\ fallback' = (fallback \/ asks)
        /\ UNCHANGED timer

\* The scheduled poll ends.
Poll ==
    /\ up
    /\ timer' = interval
    /\ overlooked' = FALSE
    /\ UNCHANGED <<supervision, ending, cancelled, state, interval, fallback, due>>

\* The requested refresh ends.
RefreshDone ==
    /\ up /\ due
    /\ due' = FALSE
    /\ timer' = interval
    /\ overlooked' = FALSE
    /\ UNCHANGED <<supervision, ending, cancelled, state, interval, fallback>>

\* _refresh_after_stream_loss ends: early when the request is debounced,
\* otherwise some time after its refresh.
FallbackEnds ==
    /\ up /\ fallback
    /\ fallback' = FALSE
    /\ UNCHANGED <<supervision, ending, cancelled, state, interval, timer, due,
                   overlooked>>

---------------------------------------------------------------------------
(* The supervision task, _async_run. *)

Runs(await) == task = await /\ ~cancelled

\* finally, and the test after it: the connection is closed first if need be.
Finally(exception) ==
    /\ held' = FALSE
    /\ IF held /\ conn # "none"
       THEN task' = "closing" /\ raising' = exception
       ELSE /\ task' = IF stopping \/ exception THEN "none" ELSE "sleeping"
            /\ UNCHANGED raising

Subscribed ==
    /\ Runs("subscribing")
    /\ task' = "opening"
    /\ UNCHANGED <<held, conn, raising, delay, asked, fails, polling, ending,
                   cancelled, state>>

Opened ==
    /\ Runs("opening")
    /\ task' = "receiving"
    /\ held' = TRUE
    /\ conn' = "open"
    /\ SetState("streaming")
    /\ delay' = MinDelay
    /\ asked' = 0
    /\ fails' = 0
    /\ UNCHANGED <<raising, ending, cancelled>>

\* Faulty: Retry-After is ignored.
AttemptFailsDeaf(retryAfter) ==
    /\ Runs("subscribing") \/ Runs("opening") \/ Runs("receiving")
    /\ task = "receiving" => retryAfter = 0
    /\ asked' = retryAfter
    /\ fails' = Least(CountedFails, fails + 1)
    /\ SetState("polling")
    /\ Finally(FALSE)
    /\ UNCHANGED <<delay, conn, ending, cancelled>>

\* The subscription or the connection fails, or the stream ends, errs, stays
\* silent for 75 seconds or delivers what cannot be handled.
AttemptFails(retryAfter) ==
    /\ Runs("subscribing") \/ Runs("opening") \/ Runs("receiving")
    /\ task = "receiving" => retryAfter = 0
    /\ delay' = Greatest(delay, retryAfter)
    /\ asked' = retryAfter
    /\ fails' = Least(CountedFails, fails + 1)
    /\ SetState("polling")
    /\ Finally(FALSE)
    /\ UNCHANGED <<conn, ending, cancelled>>

\* _async_receive returns after a message that found _stopping set.
ReceiveStops ==
    /\ Runs("receiving") /\ stopping
    /\ Finally(FALSE)
    /\ UNCHANGED <<conn, delay, asked, fails, polling, ending, cancelled, state>>

\* Faulty: the loop ends with the connection.
ClosedForGood ==
    /\ Runs("closing")
    /\ conn' = "none"
    /\ task' = "none"
    /\ raising' = FALSE
    /\ UNCHANGED <<held, delay, asked, fails, polling, ending, cancelled, state>>

Closed ==
    /\ Runs("closing")
    /\ conn' = "none"
    /\ task' = IF stopping \/ raising THEN "none" ELSE "sleeping"
    /\ raising' = FALSE
    /\ UNCHANGED <<held, delay, asked, fails, polling, ending, cancelled, state>>

Slept ==
    /\ Runs("sleeping")
    /\ delay' = Least(MaxDelay, 2 * delay)
    /\ task' = "subscribing"
    /\ SetState("connecting")
    /\ UNCHANGED <<held, conn, raising, asked, fails, ending, cancelled>>

\* CancelledError: the state is left as it is; a close it interrupts drops the
\* connection.
Cancelled ==
    /\ cancelled /\ task # "none"
    /\ cancelled' = FALSE
    /\ IF task = "closing"
       THEN /\ conn' = "none" /\ task' = "none" /\ raising' = FALSE
            /\ UNCHANGED held
       ELSE Finally(TRUE) /\ UNCHANGED conn
    /\ UNCHANGED <<delay, asked, fails, polling, ending, state>>

ConnectionLost ==
    /\ conn = "open"
    /\ conn' = "lost"
    /\ UNCHANGED <<task, held, raising, delay, asked, fails, polling, ending,
                   cancelled, state>>

---------------------------------------------------------------------------
(* async_stop and the entry. *)

\* Faulty: a task without a websocket is left to see _stopping by itself.
BeginStopUncancelled ==
    /\ stopping' = TRUE
    /\ entry' = "stopping"
    /\ stop' = IF held /\ conn # "none" THEN "closing" ELSE "joining"
    /\ UNCHANGED cancelled

\* The websocket is closed first; without one the task is cancelled at once.
BeginStop ==
    /\ stopping' = TRUE
    /\ entry' = "stopping"
    /\ IF held /\ conn # "none"
       THEN stop' = "closing" /\ UNCHANGED cancelled
       ELSE stop' = "joining" /\ cancelled' = (task # "none")

StopClosed ==
    /\ stop = "closing"
    /\ stop' = "joining"
    /\ conn' = "none"
    /\ cancelled' = (task # "none")
    /\ UNCHANGED <<entry, up, task, held, raising, stopping, delay, asked, fails,
                   polling, state>>

\* async_shutdown cancels the fallback refresh.
Shutdown ==
    /\ up' = FALSE
    /\ fallback' = FALSE
    /\ due' = FALSE
    /\ UNCHANGED <<interval, timer, overlooked>>

\* Faulty: the cancelled task is not awaited.
StopJoinedEarly ==
    /\ stop = "joining"
    /\ stop' = "idle"
    /\ entry' = "down"
    /\ held' = FALSE
    /\ Shutdown
    /\ UNCHANGED <<task, conn, raising, stopping, cancelled, delay, asked, fails,
                   state>>

\* The task has ended; the coordinators are shut down.
StopJoined ==
    /\ stop = "joining" /\ task = "none"
    /\ stop' = "idle"
    /\ entry' = "down"
    /\ held' = FALSE
    /\ Shutdown
    /\ UNCHANGED <<task, conn, raising, stopping, cancelled, delay, asked, fails,
                   state>>

\* async_setup_entry: coordinators, then their first refreshes; then the stream
\* and the platforms.
SetUp ==
    /\ entry = "down"
    /\ entry' = "starting"
    /\ up' = TRUE
    /\ state' = "polling"
    /\ interval' = "fast" /\ timer' = "fast"
    /\ overlooked' = FALSE
    /\ UNCHANGED <<supervision, fallback, due, stopping, stop, cancelled>>

SetUpFails ==
    /\ entry = "starting"
    /\ entry' = "down"
    /\ Shutdown
    /\ UNCHANGED <<supervision, stopping, stop, cancelled, state>>

StartStream ==
    /\ entry = "starting"
    /\ entry' = "forwarding"
    /\ stopping' = FALSE
    /\ task' = "subscribing"
    /\ delay' = MinDelay
    /\ asked' = 0 /\ fails' = 0
    /\ SetState("connecting")
    /\ UNCHANGED <<up, held, conn, raising, stop, cancelled>>

Forwarded ==
    /\ entry = "forwarding"
    /\ entry' = "loaded"
    /\ UNCHANGED <<supervision, polling, up, stopping, stop, cancelled, state>>

ForwardFails ==
    /\ entry = "forwarding"
    /\ BeginStop
    /\ UNCHANGED <<supervision, polling, up, state>>

\* By the user, or by the reload _handle_device_list asks for.
Unload ==
    /\ entry = "loaded"
    /\ BeginStop
    /\ UNCHANGED <<supervision, polling, up, state>>

\* A platform cannot be unloaded: Home Assistant keeps the entry, which cannot be
\* unloaded again, and its stream and coordinators go on.
UnloadFails ==
    /\ entry = "loaded"
    /\ entry' = "unloadFailed"
    /\ UNCHANGED <<supervision, polling, up, stopping, stop, cancelled, state>>

---------------------------------------------------------------------------

Init ==
    /\ entry = "down" /\ up = FALSE
    /\ task = "none" /\ held = FALSE /\ conn = "none"
    /\ stopping = FALSE /\ stop = "idle"
    /\ cancelled = FALSE /\ raising = FALSE
    /\ state = "polling" /\ delay = MinDelay
    /\ interval = "fast" /\ timer = "fast"
    /\ fallback = FALSE /\ due = FALSE
    /\ asked = 0 /\ fails = 0 /\ overlooked = FALSE

Supervises ==
    \/ Subscribed \/ Opened \/ ReceiveStops \/ Closed \/ Slept \/ Cancelled
    \/ \E r \in RetryAfters : AttemptFails(r)

Next ==
    \/ Poll \/ RefreshDone \/ FallbackEnds
    \/ Supervises
    \/ ConnectionLost
    \/ StopClosed \/ StopJoined
    \/ SetUp \/ SetUpFails \/ StartStream
    \/ Forwarded \/ ForwardFails \/ Unload \/ UnloadFails

Spec == Init /\ [][Next]_vars

\* Every await ends: requests and closes have timeouts, a silent connection is
\* given up after 75 seconds, cancellation is delivered.  A healthy stream may
\* stay up for ever, and nothing makes a request succeed.
Notices == conn = "lost" /\ AttemptFails(0)

FairSpec ==
    /\ Spec
    /\ WF_vars(task \in {"subscribing", "opening"} /\ Supervises)
    /\ WF_vars(Notices)
    /\ WF_vars(Closed) /\ WF_vars(Slept) /\ WF_vars(Cancelled)
    /\ WF_vars(StopClosed) /\ WF_vars(StopJoined)

---------------------------------------------------------------------------
(* Properties. *)

TypeOK ==
    /\ entry \in {"down", "starting", "forwarding", "loaded", "stopping",
                  "unloadFailed"}
    /\ up \in BOOLEAN
    /\ task \in {"none", "subscribing", "opening", "receiving", "closing",
                 "sleeping"}
    /\ held \in BOOLEAN
    /\ conn \in {"none", "open", "lost"}
    /\ stopping \in BOOLEAN
    /\ stop \in {"idle", "closing", "joining"}
    /\ cancelled \in BOOLEAN /\ raising \in BOOLEAN
    /\ state \in {"polling", "connecting", "streaming"}
    /\ delay \in Nat
    /\ interval \in {"slow", "fast"} /\ timer \in {"slow", "fast"}
    /\ fallback \in BOOLEAN /\ due \in BOOLEAN /\ overlooked \in BOOLEAN
    /\ asked \in Nat /\ fails \in Nat

\* An entry that is unloaded, or whose set-up failed at any point, leaves no
\* task, no connection and no refresh behind, wherever the supervision was.
NothingLeftRunning ==
    entry = "down" =>
        /\ task = "none" /\ conn = "none" /\ ~held /\ ~cancelled
        /\ ~up /\ ~fallback /\ ~due

\* Without a stream the next poll is not left to the slow reconciliation timer:
\* a refresh is on its way that will set it anew.  The one exception is a loss
\* between the end of an earlier refresh and the end of the task that asked it.
LossIsPolled ==
    up /\ state # "streaming" /\ timer = "slow" => due \/ overlooked

\* The wait after n + 1 failures in a row that only the doubling counts for.
Doubled[n \in 0 .. CountedFails] ==
    IF n = 0 THEN MinDelay ELSE 2 * Doubled[n - 1]

\* A new attempt waits at least as long as the cloud asked and as the doubling
\* for the failures since the last stream requires, at most the longer of the
\* limit and what the cloud asked.
BackoffHonoured ==
    task = "sleeping" =>
        /\ delay >= asked
        /\ fails > 0 /\ delay >= Least(MaxDelay, Doubled[fails - 1])
        /\ delay <= Greatest(MaxDelay, asked)

\* A lost stream of an entry in use is subscribed to anew.
LossRetried ==
    conn = "lost" ~> task = "subscribing" \/ entry \in {"stopping", "down"}

\* Stopping an entry ends, whatever its supervision is waiting for.
StopEnds == entry = "stopping" ~> entry = "down"
===========================================================================
