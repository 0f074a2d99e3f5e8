---------------------------- MODULE CloudState ----------------------------
(***************************************************************************)
(* The coordinator's copy of the machine's cloud properties               *)
(* (coordinator.py): a poll reads every property, DSS push events overwrite *)
(* single ones, and both feed the monitor decoder and the traffic sniffer. *)
(*                                                                         *)
(* The cloud counts the changes of a property: a version stands for the    *)
(* value, for its data_updated_at stamp and, in the monitor property, for  *)
(* the ordering token inside the blob.  GETs are answered by a replica that *)
(* may lag; push events may be lost, delayed, duplicated or reordered.  A  *)
(* poll suspends at the GET (asking) and once more, after the merge, at the *)
(* reads of connection info and device list (details); Home Assistant      *)
(* stores its result only when it returns.                                 *)
(***************************************************************************)
EXTENDS Naturals

CONSTANTS
    Properties,   \* the properties of the machine
    Monitor,      \* the monitor property
    Channels,     \* the command and response properties
    Stamped,      \* the properties whose values carry data_updated_at
    Form,         \* the form of the sequence each change's event carries
    Readings,     \* what the monitor decoder tells apart
    Steady,       \* the readings that may become the maintenance state
    Reading,      \* the reading each version of the monitor decodes to
    MaxVersion,   \* bound: changes of each property at the cloud
    MaxEvents     \* bound: events a stream carries; further ones are lost

Versions == Nat

\* What _normalized_dss_sequence makes of an event's sequence: an integer, a
\* text that is no integer, or nothing.
SequenceForms == {"number", "text", "absent"}

\* garbled: the decoder reports an error; ready: status 7 step 0; the other
\* steady readings are standby signatures (accessory, switches, alarms).
ASSUME CloudAssumption ==
    /\ MaxVersion \in [Properties -> Nat]
    /\ MaxEvents \in Nat
    /\ Monitor \in Properties \ Channels
    /\ Channels \subseteq Properties
    /\ Monitor \in Stamped /\ Stamped \subseteq Properties
    /\ \A p \in Properties :
           Form[p] \in [1 .. MaxVersion[p] -> SequenceForms]
    /\ Steady \subseteq Readings /\ "garbled" \in Readings \ Steady
    /\ Reading \in [0 .. MaxVersion[Monitor] -> Readings]
    /\ Reading[0] # "garbled"

VARIABLES
    version,     \* the cloud's version of each property
    replica,     \* the version a GET is answered with
    streaming,   \* dss_state = "streaming"
    lastSeq,     \* the last sequence number of the stream
    wire,        \* push events sent on the stream
    sequences,   \* _dss_sequences: the last sequence of each property
    data,        \* self.data
    phase,       \* the await the poll is suspended at
    snapshot,    \* props, the local variable of the poll
    token,       \* _monitor_ordering_token
    monitor,     \* self.monitor: the version decoded, an error if garbled
    candidate,   \* _maintenance_candidate_signature
    stable,      \* stable_maintenance_monitor
    markers,     \* _last_cmd_marker, _last_resp_marker
    pushed       \* history: properties pushed since the poll merged

cloudVars   == <<version, replica>>
streamVars  == <<streaming, lastSeq, wire>>
pollVars    == <<phase, snapshot>>
monitorVars == <<token, monitor, candidate, stable>>
vars == <<cloudVars, streamVars, sequences, data, pollVars, monitorVars,
          markers, pushed>>

Events == [property : Properties, form : SequenceForms, seq : Nat,
           version : Versions]

Sequences  == [form : SequenceForms, seq : Nat]
NoSequence == [form |-> "absent", seq |-> 0]

NoSignature == "none"
NoSnapshot  == [p \in Properties |-> 0]

\* The first refresh has decoded and remembered what it found.
Init ==
    /\ version = [p \in Properties |-> 0]
    /\ replica = version
    /\ streaming = FALSE
    /\ lastSeq = 0
    /\ wire = {}
    /\ sequences = [p \in Properties |-> NoSequence]
    /\ data = version
    /\ phase = "idle"
    /\ snapshot = NoSnapshot
    /\ token = 0
    /\ monitor = 0
    /\ candidate = IF Reading[0] \in Steady THEN Reading[0] ELSE NoSignature
    /\ stable = 0
    /\ markers = [c \in Channels |-> 0]
    /\ pushed = {}

---------------------------------------------------------------------------
(* The handlers both paths share. *)

\* Faulty: an older reading replaces a newer one.
AcceptedUnordered(v) == Reading[v] # "garbled"

\* Faulty: an undecodable blob moves the ordering token.
AcceptedGarbled(v) == v >= token

\* An error is shown but leaves the ordering token alone; a reading with an
\* older token than the last accepted one is dropped.
Accepted(v) == Reading[v] # "garbled" /\ v >= token

\* Faulty: any reading is remembered as a maintenance signature.
UpdateMonitorUnsteady(v) ==
    /\ token' = IF Accepted(v) THEN v ELSE token
    /\ monitor' = IF Accepted(v) \/ Reading[v] = "garbled" THEN v ELSE monitor
    /\ candidate' = Reading[v]
    /\ stable' = IF Reading[v] = candidate THEN v ELSE stable

\* A ready reading is the maintenance state at once, a standby signature when
\* it is the second of two equal steady signatures.
UpdateMonitor(v) ==
    /\ token' = IF Accepted(v) THEN v ELSE token
    /\ monitor' = IF Accepted(v) \/ Reading[v] = "garbled" THEN v ELSE monitor
    /\ IF Accepted(v) /\ Reading[v] \in Steady
       THEN /\ candidate' = Reading[v]
            /\ stable' = IF Reading[v] \in {"ready", candidate}
                         THEN v ELSE stable
       ELSE UNCHANGED <<candidate, stable>>

\* Both channels are inspected whichever of them moved.
SniffAppTraffic(properties) == markers' = [c \in Channels |-> properties[c]]

\* Faulty: the poll wins over newer push values.
MergePolled(polled) == polled

\* An eventually consistent poll does not replace a newer stamped value.
Merge(polled) ==
    [p \in Properties |->
        IF p \in Stamped /\ data[p] > polled[p] THEN data[p] ELSE polled[p]]

---------------------------------------------------------------------------
(* The cloud. *)

\* A property changes; the stream carries an event unless it is lost.
Change(p) ==
    /\ version[p] < MaxVersion[p]
    /\ version' = [version EXCEPT ![p] = @ + 1]
    /\ \/ /\ streaming /\ lastSeq < MaxEvents
          /\ lastSeq' = lastSeq + 1
          /\ wire' = wire \cup {[property |-> p, seq |-> lastSeq + 1,
                                 form |-> Form[p][version[p] + 1],
                                 version |-> version[p] + 1]}
       \/ UNCHANGED <<lastSeq, wire>>
    /\ UNCHANGED <<replica, streaming, sequences, data, pollVars, monitorVars,
                   markers, pushed>>

Replicate(p) ==
    /\ replica[p] < version[p]
    /\ replica' = [replica EXCEPT ![p] = version[p]]
    /\ UNCHANGED <<version, streamVars, sequences, data, pollVars,
                   monitorVars, markers, pushed>>

---------------------------------------------------------------------------
(* The stream. *)

\* Faulty: sequence numbers of the previous stream are kept.
StreamUpRemembering ==
    /\ ~streaming
    /\ streaming' = TRUE
    /\ lastSeq' = 0
    /\ wire' = {}
    /\ UNCHANGED <<cloudVars, sequences, data, pollVars, monitorVars, markers,
                   pushed>>

\* set_dss_state("streaming"): sequence values restart with a new stream.
StreamUp ==
    /\ ~streaming
    /\ streaming' = TRUE
    /\ lastSeq' = 0
    /\ wire' = {}
    /\ sequences' = [p \in Properties |-> NoSequence]
    /\ UNCHANGED <<cloudVars, data, pollVars, monitorVars, markers, pushed>>

StreamDown ==
    /\ streaming
    /\ streaming' = FALSE
    /\ lastSeq' = 0
    /\ wire' = {}
    /\ UNCHANGED <<cloudVars, sequences, data, pollVars, monitorVars,
                   markers, pushed>>

\* A delivered event may be delivered again.
Consume(e) ==
    /\ e \in wire
    /\ wire' \in {wire, wire \ {e}}
    /\ UNCHANGED <<streaming, lastSeq>>

SequenceOf(e) == [form |-> e.form, seq |-> e.seq]

\* Integers are ordered; any other sequence is refused only when it is the very
\* one remembered, and an event without one never.
AcceptSequence(e) ==
    LET last == sequences[e.property]
    IN  \/ e.form = "absent"
        \/ e.form = "number" /\ last.form = "number" /\ e.seq > last.seq
        \/ ~(e.form = "number" /\ last.form = "number") /\ SequenceOf(e) # last

RememberSequence(e) ==
    sequences' = IF e.form = "absent" THEN sequences
                 ELSE [sequences EXCEPT ![e.property] = SequenceOf(e)]

Older(e) == e.property \in Stamped /\ e.version < data[e.property]

\* handle_dss_event: a repeated or out-of-order sequence is dropped.
EventRefused(e) ==
    /\ Consume(e)
    /\ ~AcceptSequence(e)
    /\ UNCHANGED <<cloudVars, sequences, data, pollVars, monitorVars, markers,
                   pushed>>

\* handle_dss_event: the stored value is newer.
EventOutdated(e) ==
    /\ Consume(e)
    /\ AcceptSequence(e) /\ Older(e)
    /\ RememberSequence(e)
    /\ UNCHANGED <<cloudVars, data, pollVars, monitorVars, markers, pushed>>

\* handle_dss_event: the value is stored, decoded and sniffed.
EventApplied(e) ==
    /\ Consume(e)
    /\ AcceptSequence(e) /\ ~Older(e)
    /\ RememberSequence(e)
    /\ data' = [data EXCEPT ![e.property] = e.version]
    /\ IF e.property = Monitor THEN UpdateMonitor(e.version)
                               ELSE UNCHANGED monitorVars
    /\ IF e.property \in Channels THEN SniffAppTraffic(data')
                                  ELSE UNCHANGED markers
    /\ pushed' = IF phase = "details" THEN pushed \cup {e.property} ELSE {}
    /\ UNCHANGED <<cloudVars, pollVars>>

EventDelivered(e) == EventRefused(e) \/ EventOutdated(e) \/ EventApplied(e)

---------------------------------------------------------------------------
(* The poll, _async_update_data. *)

\* Faulty: no reconciliation while the stream is up.
PollSentFallback ==
    /\ phase = "idle" /\ ~streaming
    /\ phase' = "asking"
    /\ snapshot' = replica
    /\ UNCHANGED <<cloudVars, streamVars, sequences, data, monitorVars,
                   markers, pushed>>

PollSent ==
    /\ phase = "idle"
    /\ phase' = "asking"
    /\ snapshot' = replica
    /\ UNCHANGED <<cloudVars, streamVars, sequences, data, monitorVars,
                   markers, pushed>>

\* Faulty: only push events are decoded.
PollMergedUndecoded ==
    /\ phase = "asking"
    /\ phase' = "details"
    /\ snapshot' = Merge(snapshot)
    /\ SniffAppTraffic(snapshot')
    /\ pushed' = {}
    /\ UNCHANGED <<cloudVars, streamVars, sequences, data, monitorVars>>

\* The properties arrive: merged, sniffed and decoded, not stored yet.
PollMerged ==
    /\ phase = "asking"
    /\ phase' = "details"
    /\ snapshot' = Merge(snapshot)
    /\ SniffAppTraffic(snapshot')
    /\ UpdateMonitor(snapshot'[Monitor])
    /\ pushed' = {}
    /\ UNCHANGED <<cloudVars, streamVars, sequences, data>>

\* Home Assistant stores what the poll returned.
PollFinished ==
    /\ phase = "details"
    /\ phase' = "idle"
    /\ data' = snapshot
    /\ snapshot' = NoSnapshot
    /\ pushed' = {}
    /\ UNCHANGED <<cloudVars, streamVars, sequences, monitorVars, markers>>

\* A request failed; what the merge has decoded stays.
PollFailed ==
    /\ phase # "idle"
    /\ phase' = "idle"
    /\ snapshot' = NoSnapshot
    /\ pushed' = {}
    /\ UNCHANGED <<cloudVars, streamVars, sequences, data, monitorVars,
                   markers>>

---------------------------------------------------------------------------
Next ==
    \/ \E p \in Properties : Change(p) \/ Replicate(p)
    \/ StreamUp \/ StreamDown
    \/ \E e \in wire : EventDelivered(e)
    \/ PollSent \/ PollMerged \/ PollFinished \/ PollFailed

\* Home Assistant polls for ever and a poll may always succeed; the replica
\* catches up.  Of the stream it is only assumed that it does not repeat old
\* events for ever, of which those without a number are accepted every time.
Fairness ==
    /\ WF_vars(\E e \in wire : EventDelivered(e) /\ e \notin wire')
    /\ \A p \in Properties : WF_vars(Replicate(p))
    /\ WF_vars(PollSent) /\ SF_vars(PollMerged) /\ SF_vars(PollFinished)

Spec == Init /\ [][Next]_vars
FairSpec == Spec /\ Fairness

---------------------------------------------------------------------------
(* Properties. *)

TypeOK ==
    /\ version \in [Properties -> Versions]
    /\ replica \in [Properties -> Versions]
    /\ streaming \in BOOLEAN
    /\ lastSeq \in Nat
    /\ wire \subseteq Events
    /\ sequences \in [Properties -> Sequences]
    /\ data \in [Properties -> Versions]
    /\ phase \in {"idle", "asking", "details"}
    /\ snapshot \in [Properties -> Versions]
    /\ token \in Versions
    /\ monitor \in Versions
    /\ candidate \in Steady \cup {NoSignature}
    /\ stable \in Versions
    /\ markers \in [Channels -> Versions]
    /\ pushed \subseteq Properties

\* Whatever the interleaving of polls and push events, a decoded monitor is the
\* newest reading ever accepted, and the maintenance state is never ahead of it
\* (_update_monitor).
MonitorIsNewest ==
    /\ Reading[monitor] # "garbled" => monitor = token
    /\ stable <= token
    /\ Reading[token] # "garbled"

\* No value reaches self.data, by push or by a poll that returned after other
\* awaits, without having gone through the monitor decoder.
NothingUndecoded ==
    Reading[data[Monitor]] # "garbled" => token >= data[Monitor]

\* Sequences remembered from an earlier stream never make the
\* coordinator refuse an event this stream has yet to send (set_dss_state).
NoFutureEventRefused ==
    streaming => \A p \in Properties : sequences[p].seq <= lastSeq

\* A stamped value goes back only when a poll returns, and only for a property
\* pushed while that poll was awaiting connection info or the device list.
GoesBackOnlyInTheWindow ==
    [][\A p \in Stamped : data'[p] < data[p] =>
            phase = "details" /\ phase' = "idle" /\ p \in pushed]_vars

\* The maintenance state (stable_maintenance_monitor) never returns to an
\* older reading of the machine.
MaintenanceForward == [][stable' >= stable]_vars

\* Once the cloud stops changing, polls alone bring the coordinator's copy, the
\* monitor, the sniffer and, if the last reading is steady, the maintenance
\* state to the cloud's last version, whatever the stream lost or reordered.
Settled ==
    /\ data = version
    /\ monitor = version[Monitor]
    /\ \A c \in Channels : markers[c] = version[c]
    /\ Reading[version[Monitor]] \in Steady => stable = version[Monitor]

SettlesOnCloud == <>[]Settled

\* docs/ARCHITECTURE.md:14-15: "an older poll cannot overwrite a newer
\* timestamped push value".
NewerPushKept == [][\A p \in Stamped : data'[p] >= data[p]]_vars
===========================================================================
