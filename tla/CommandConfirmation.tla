------------------------ MODULE CommandConfirmation ------------------------
(***************************************************************************)
(* How a written command is confirmed: _send_property_command waits for the *)
(* exact DSS acknowledgement of its datapoint, then                        *)
(* CommandConfirmationTracker.async_wait waits for the machine's state to  *)
(* move (coordinator.py, command_confirmation.py).                         *)
(*                                                                         *)
(* _command_lock admits one writer at a time, so one command is in         *)
(* progress; acknowledgements of earlier ones may still arrive.  pc names  *)
(* the await it is suspended at.  A waiter that was set resumes later:     *)
(* anything may happen in between, the expiry of its timeout included.     *)
(* Deadlines expire whenever the code waits on them.  A refresh goes       *)
(* through Home Assistant's debouncer and may return before any poll.      *)
(***************************************************************************)
EXTENDS Naturals, Sequences

CONSTANTS
    States,        \* what the response marker and monitor tell apart
    InitialState,
    Limit,         \* capacity of _recent_dss_acks
    Confirmable,   \* a response property or a decoded monitor exists
    MaxCommands    \* bound: commands sent

ASSUME ConfirmationAssumption ==
    /\ InitialState \in States
    /\ Limit \in Nat \ {0}
    /\ Confirmable \in BOOLEAN
    /\ MaxCommands \in Nat

VARIABLES
    command,    \* commands sent; also the id of the current datapoint
    pc,         \* the await the current command is suspended at
    outcome,    \* last_command_result
    before,     \* the confirmation snapshot
    expired,    \* the deadline of async_wait has passed
    status,     \* the acknowledgement the machine gave each datapoint
    recent,     \* the ids of _recent_dss_acks
    order,      \* _recent_dss_ack_order
    ackWaiter,  \* the future of _dss_ack_waiters the command awaits
    waiter,     \* the tracker's future it awaits
    seen,       \* the state the coordinator has
    streaming,  \* dss_state = "streaming"
    closed,     \* async_shutdown has run
    moved,      \* history: seen differed from before since the command was sent
    quiet       \* history: a poll or a command echo, neither of which wakes
                \* anybody, made the last change of seen

callVars  == <<command, pc, outcome, before, expired>>
ackVars   == <<recent, order, ackWaiter>>
stateVars == <<seen, moved, quiet>>
vars == <<callVars, status, ackVars, waiter, stateVars, streaming, closed>>

Ids     == 1 .. MaxCommands
Acks    == {"accepted", "refused", "unclear"}
Waiters == {"none", "pending", "set"}
Locations == {"idle", "post", "ack", "state", "refresh", "sleep", "reconcile"}
Outcomes == {"none", "sent", "acknowledged", "rejected", "timed_out", "failed",
             "unconfirmed"}

\* The elements of a sequence.
Elements(s) == {s[i] : i \in DOMAIN s}

Init ==
    /\ command = 0
    /\ pc = "idle"
    /\ outcome = "none"
    /\ before = InitialState
    /\ expired = FALSE
    /\ status = [i \in Ids |-> "none"]
    /\ recent = {}
    /\ order = <<>>
    /\ ackWaiter = "none"
    /\ waiter = "none"
    /\ seen = InitialState
    /\ streaming \in BOOLEAN
    /\ closed = FALSE
    /\ moved = FALSE
    /\ quiet = FALSE

---------------------------------------------------------------------------
(* Waiting for the state to move. *)

Changed == seen # before

Ends(result) ==
    /\ pc' = "idle"
    /\ outcome' = result
    /\ waiter' = "none"
    /\ expired' = FALSE
    /\ UNCHANGED <<command, before>>

\* Faulty: a confirmation by state has a result of its own.
AfterLoopUnmapped ==
    IF streaming
    THEN /\ pc' = "reconcile"
         /\ waiter' = "none"
         /\ UNCHANGED <<command, outcome, before, expired>>
    ELSE Ends(IF Changed THEN "confirmed" ELSE "timed_out")

\* The end of async_wait: one reconciliation while the stream is up.
AfterLoop ==
    IF streaming
    THEN /\ pc' = "reconcile"
         /\ waiter' = "none"
         /\ UNCHANGED <<command, outcome, before, expired>>
    ELSE Ends(IF Changed THEN "acknowledged" ELSE "timed_out")

Suspends(at, newWaiter) ==
    /\ pc' = at
    /\ waiter' = newWaiter
    /\ UNCHANGED <<command, outcome, before, expired>>

\* One round of the loop: done, or a waiter for the stream, or a refresh.
Loop ==
    IF expired THEN AfterLoop
    ELSE IF Changed THEN Ends("acknowledged")
    ELSE IF streaming THEN Suspends("state", "pending")
    ELSE Suspends("refresh", "none")

WaitForState == IF Confirmable THEN Loop ELSE Ends("unconfirmed")

\* Faulty: any status below 400 counts as an acceptance.
DecideLenient(ack) ==
    IF ack = "refused" THEN Ends("rejected") ELSE Ends("acknowledged")

\* What an acknowledgement of the command's own datapoint decides.
Decide(ack) ==
    CASE ack = "accepted" -> Ends("acknowledged")
      [] ack = "refused"  -> Ends("rejected")
      [] OTHER            -> WaitForState

---------------------------------------------------------------------------
(* _send_property_command. *)

Send ==
    /\ pc = "idle" /\ ~closed /\ command < MaxCommands
    /\ command' = command + 1
    /\ pc' = "post"
    /\ outcome' = "sent"
    /\ before' = seen
    /\ moved' = FALSE
    /\ quiet' = FALSE
    /\ UNCHANGED <<expired, status, ackVars, waiter, seen, streaming, closed>>

PostFails ==
    /\ pc = "post"
    /\ Ends("failed")
    /\ UNCHANGED <<status, ackVars, stateVars, streaming, closed>>

\* No stream, no datapoint id or a property without acknowledgements.
PostedWithoutAck ==
    /\ pc = "post"
    /\ WaitForState
    /\ UNCHANGED <<status, ackVars, stateVars, streaming, closed>>

\* The acknowledgement overtook the reply to the POST.
PostedAcknowledged ==
    /\ pc = "post" /\ streaming /\ command \in recent
    /\ recent' = recent \ {command}
    /\ Decide(status[command])
    /\ UNCHANGED <<status, order, ackWaiter, stateVars, streaming, closed>>

\* Faulty: the cache is not consulted before the wait.
PostedAwaitingAckBlindly ==
    /\ pc = "post" /\ streaming
    /\ ackWaiter' = "pending"
    /\ Suspends("ack", "none")
    /\ UNCHANGED <<status, recent, order, stateVars, streaming, closed>>

PostedAwaitingAck ==
    /\ pc = "post" /\ streaming /\ command \notin recent
    /\ ackWaiter' = "pending"
    /\ Suspends("ack", "none")
    /\ UNCHANGED <<status, recent, order, stateVars, streaming, closed>>

AckResumes ==
    /\ pc = "ack" /\ ackWaiter = "set"
    /\ ackWaiter' = "none"
    /\ Decide(status[command])
    /\ UNCHANGED <<status, recent, order, stateVars, streaming, closed>>

\* The grace period ends, also when the waiter was set a moment ago.
AckTimesOut ==
    /\ pc = "ack"
    /\ ackWaiter' = "none"
    /\ WaitForState
    /\ UNCHANGED <<status, recent, order, stateVars, streaming, closed>>

---------------------------------------------------------------------------
(* CommandConfirmationTracker.async_wait. *)

Woken ==
    /\ pc = "state" /\ waiter = "set"
    /\ Loop
    /\ UNCHANGED <<status, ackVars, stateVars, streaming, closed>>

\* Faulty: a wait that lost its stream has no timeout.
WaitTimesOutStreaming ==
    /\ pc = "state" /\ expired /\ streaming
    /\ AfterLoop
    /\ UNCHANGED <<status, ackVars, stateVars, streaming, closed>>

WaitTimesOut ==
    /\ pc = "state" /\ expired
    /\ AfterLoop
    /\ UNCHANGED <<status, ackVars, stateVars, streaming, closed>>

RefreshReturns ==
    /\ pc = "refresh"
    /\ IF Changed THEN Ends("acknowledged")
       ELSE IF expired THEN AfterLoop
       ELSE Suspends("sleep", "none")
    /\ UNCHANGED <<status, ackVars, stateVars, streaming, closed>>

SleepEnds ==
    /\ pc = "sleep"
    /\ Loop
    /\ UNCHANGED <<status, ackVars, stateVars, streaming, closed>>

Reconciled ==
    /\ pc = "reconcile"
    /\ Ends(IF Changed THEN "acknowledged" ELSE "timed_out")
    /\ UNCHANGED <<status, ackVars, stateVars, streaming, closed>>

Expire ==
    /\ pc \in {"state", "refresh", "sleep"} /\ ~expired
    /\ expired' = TRUE
    /\ UNCHANGED <<command, pc, outcome, before, status, ackVars, waiter,
                   stateVars, streaming, closed>>

---------------------------------------------------------------------------
(* The coordinator's event handlers and the world around them. *)

\* The machine answers a datapoint the cloud has, perhaps before the POST's
\* reply.
MachineAcks(i) ==
    /\ i <= command /\ status[i] = "none"
    /\ \E ack \in Acks : status' = [status EXCEPT ![i] = ack]
    /\ UNCHANGED <<callVars, ackVars, waiter, stateVars, streaming, closed>>

\* Faulty: the evicted id keeps its entry.
RememberUnbounded(i) ==
    IF i \in recent THEN UNCHANGED <<recent, order>>
    ELSE /\ order' = Append(IF Len(order) = Limit THEN Tail(order) ELSE order, i)
         /\ recent' = recent \cup {i}

\* A deque of capacity Limit: an id is remembered once while it is cached, and
\* the oldest id's entry goes with it.
Remember(i) ==
    IF i \in recent THEN UNCHANGED <<recent, order>>
    ELSE IF Len(order) = Limit
    THEN /\ order' = Append(Tail(order), i)
         /\ recent' = (recent \ {Head(order)}) \cup {i}
    ELSE /\ order' = Append(order, i)
         /\ recent' = recent \cup {i}

\* handle_dss_event, datapointack: also of an earlier command, also again.
AckArrives(i) ==
    /\ streaming /\ ~closed /\ status[i] # "none"
    /\ Remember(i)
    /\ ackWaiter' = IF i = command /\ ackWaiter = "pending" THEN "set"
                                                            ELSE ackWaiter
    /\ UNCHANGED <<callVars, status, waiter, stateVars, streaming, closed>>

\* The coordinator learns of a state the machine has moved to.
Sees(silently) ==
    /\ ~closed
    /\ \E state \in States \ {seen} : seen' = state
    /\ moved' = (moved \/ seen' # before)
    /\ quiet' = silently

\* Faulty: a state that moves wakes nobody.
StatePushedQuietly ==
    /\ streaming
    /\ Sees(FALSE)
    /\ UNCHANGED <<callVars, status, ackVars, waiter, streaming, closed>>

\* handle_dss_event, monitor or response: wakes the waiter.
StatePushed ==
    /\ streaming
    /\ Sees(FALSE)
    /\ waiter' = IF waiter = "pending" THEN "set" ELSE waiter
    /\ UNCHANGED <<callVars, status, ackVars, streaming, closed>>

\* _async_update_data: wakes nobody.
Polled ==
    /\ Sees(TRUE)
    /\ UNCHANGED <<callVars, status, ackVars, waiter, streaming, closed>>

\* handle_dss_event, command: reads the response property of the data as well,
\* whose marker differs from the captured one when a poll replaced the data or
\* failed in between.  Wakes nobody.
CommandEchoed ==
    /\ streaming
    /\ Sees(TRUE)
    /\ UNCHANGED <<callVars, status, ackVars, waiter, streaming, closed>>

StreamChanges ==
    /\ ~closed
    /\ streaming' = ~streaming
    /\ UNCHANGED <<callVars, status, ackVars, waiter, stateVars, closed>>

\* async_shutdown cancels both kinds of futures, and with a pending one the
\* command that awaits it; a future that is already set is not cancelled.
Shutdown ==
    /\ ~closed
    /\ closed' = TRUE
    /\ IF \/ pc = "ack" /\ ackWaiter = "pending"
          \/ pc = "state" /\ waiter = "pending"
       THEN Ends("failed") /\ ackWaiter' = "none"
       ELSE UNCHANGED <<callVars, waiter, ackWaiter>>
    /\ UNCHANGED <<status, recent, order, stateVars, streaming>>

---------------------------------------------------------------------------
Progress ==
    \/ PostFails \/ PostedWithoutAck \/ PostedAcknowledged \/ PostedAwaitingAck
    \/ AckResumes \/ AckTimesOut
    \/ Woken \/ WaitTimesOut \/ RefreshReturns \/ SleepEnds \/ Reconciled

Next ==
    \/ Send \/ Progress \/ Expire
    \/ \E i \in Ids : MachineAcks(i) \/ AckArrives(i)
    \/ StatePushed \/ Polled \/ CommandEchoed \/ StreamChanges \/ Shutdown

\* The event loop runs what is ready, timeouts expire, and every await of the
\* cloud is bounded by the client's timeouts.
Spec == Init /\ [][Next]_vars
FairSpec == Spec /\ WF_vars(Progress) /\ WF_vars(Expire)

---------------------------------------------------------------------------
(* Properties. *)

TypeOK ==
    /\ command \in 0 .. MaxCommands
    /\ pc \in Locations
    /\ outcome \in Outcomes
    /\ before \in States
    /\ expired \in BOOLEAN
    /\ status \in [Ids -> Acks \cup {"none"}]
    /\ recent \subseteq Ids
    /\ order \in Seq(Ids)
    /\ ackWaiter \in Waiters
    /\ waiter \in Waiters
    /\ seen \in States
    /\ streaming \in BOOLEAN /\ closed \in BOOLEAN
    /\ moved \in BOOLEAN /\ quiet \in BOOLEAN

\* A push of the monitor or of the response that moves the state after the last
\* look of a sleeping command has set its waiter: a change that a pending waiter
\* does not know of came from a poll or with a command echo (async_wait
\* registers, then looks again; _notify_command_state_waiters).
NoLostWakeup ==
    pc = "state" /\ Changed => waiter = "set" \/ quiet

\* An acknowledgement that overtakes the reply to its POST is found as long as
\* it is among the last Limit remembered, whatever duplicates and old
\* acknowledgements arrive with it; the cache never outgrows the deque
\* (_remember_dss_ack).
AckCache ==
    /\ Len(order) <= Limit
    /\ recent \subseteq Elements(order)
    /\ pc = "post" /\ command \in Elements(order) => command \in recent

\* A pending acknowledgement waiter means the command's own acknowledgement has
\* not reached the coordinator since it began to wait.
NoAckMissed ==
    ackWaiter = "pending" => pc = "ack" /\ command \notin recent

\* The result a caller sees never contradicts the machine: acknowledged needs
\* the command's own acceptance or a movement since it was sent, rejected its
\* own refusal.
Evidence ==
    {sign \in {"accepted", "refused"} : command > 0 /\ status[command] = sign}
        \cup {sign \in {"moved"} : moved}

Outcome == INSTANCE CommandOutcome WITH evidence <- Evidence

OutcomeHonest == Outcome!Spec

\* Every command comes to an end, also when the stream comes and goes and no
\* state ever moves.
CommandEnds == (pc # "idle") ~> (pc = "idle")
===========================================================================
