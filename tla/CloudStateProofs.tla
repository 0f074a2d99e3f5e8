------------------------ MODULE CloudStateProofs ------------------------
(***************************************************************************)
(* Proofs about CloudState, for every set of properties, every decoding of *)
(* the monitor and every number of changes, events and polls.              *)
(***************************************************************************)
EXTENDS CloudState, TLAPS

---------------------------------------------------------------------------
(* Types. *)

\* UpdateMonitor keeps the types of the monitor's variables.
LEMMA UpdateMonitorType ==
    ASSUME TypeOK, NEW v \in Versions, UpdateMonitor(v)
    PROVE  /\ token' \in Versions
           /\ monitor' \in Versions
           /\ candidate' \in Steady \cup {NoSignature}
           /\ stable' \in Versions
BY DEF TypeOK, UpdateMonitor, Accepted, Versions

\* The merge takes each property from the poll or from the stored data.
LEMMA MergeType ==
    ASSUME TypeOK, NEW polled \in [Properties -> Versions]
    PROVE  Merge(polled) \in [Properties -> Versions]
BY DEF TypeOK, Merge, Versions

\* A sequence is remembered in the form the event carries it.
LEMMA RememberSequenceType ==
    ASSUME TypeOK, NEW e \in Events, RememberSequence(e)
    PROVE  /\ sequences' \in [Properties -> Sequences]
           /\ \A p \in Properties :
                  sequences'[p] \in {sequences[p], SequenceOf(e)}
<1>1. e.property \in Properties /\ SequenceOf(e) \in Sequences
    BY DEF Events, SequenceOf, Sequences
<1> QED
    BY <1>1 DEF TypeOK, RememberSequence

\* The variables have their types initially.
LEMMA InitType == Init => TypeOK
<1> SUFFICES ASSUME Init PROVE TypeOK
    OBVIOUS
<1>1. Channels \subseteq Properties
    BY CloudAssumption
<1>2. candidate \in Steady \cup {NoSignature}
    BY DEF Init
<1>3. sequences \in [Properties -> Sequences]
    BY DEF Init, Sequences, SequenceForms, NoSequence
<1> QED
    BY <1>1, <1>2, <1>3 DEF Init, TypeOK, Versions, NoSnapshot

\* Every step keeps the types (all handlers).
LEMMA NextType == TypeOK /\ [Next]_vars => TypeOK'
<1> SUFFICES ASSUME TypeOK, [Next]_vars PROVE TypeOK'
    OBVIOUS
<1> USE DEF TypeOK
<1>1. ASSUME NEW p \in Properties, Change(p) PROVE TypeOK'
  <2>1. version' \in [Properties -> Versions]
      BY <1>1 DEF Change, Versions
  <2>2. Form[p][version[p] + 1] \in SequenceForms
    <3>1. version[p] \in Nat /\ MaxVersion[p] \in Nat
        BY CloudAssumption DEF Versions
    <3>2. version[p] + 1 \in 1 .. MaxVersion[p]
        BY <1>1, <3>1 DEF Change
    <3> QED
        BY <3>2, CloudAssumption
  <2>3. lastSeq' \in Nat /\ wire' \subseteq Events
      BY <1>1, <2>2 DEF Change, Versions, Events
  <2> QED
      BY <1>1, <2>1, <2>3 DEF Change, pollVars, monitorVars
<1>2. ASSUME NEW p \in Properties, Replicate(p) PROVE TypeOK'
    BY <1>2 DEF Replicate, streamVars, pollVars, monitorVars
<1>3. ASSUME StreamUp PROVE TypeOK'
  <2>1. sequences' \in [Properties -> Sequences]
      BY <1>3 DEF StreamUp, Sequences, SequenceForms, NoSequence
  <2> QED
      BY <1>3, <2>1 DEF StreamUp, cloudVars, pollVars, monitorVars
<1>4. ASSUME StreamDown PROVE TypeOK'
    BY <1>4 DEF StreamDown, cloudVars, pollVars, monitorVars
<1>5. ASSUME NEW e \in wire, EventRefused(e) PROVE TypeOK'
    BY <1>5 DEF EventRefused, Consume, cloudVars, pollVars, monitorVars
<1>6. ASSUME NEW e \in wire, EventOutdated(e) PROVE TypeOK'
  <2>1. e \in Events
      OBVIOUS
  <2>2. sequences' \in [Properties -> Sequences]
      BY <1>6, <2>1, RememberSequenceType DEF EventOutdated
  <2> QED
      BY <1>6, <2>2
      DEF EventOutdated, Consume, cloudVars, pollVars, monitorVars
<1>7. ASSUME NEW e \in wire, EventApplied(e) PROVE TypeOK'
  <2>1. e \in Events
      OBVIOUS
  <2>2. sequences' \in [Properties -> Sequences]
      BY <1>7, <2>1, RememberSequenceType DEF EventApplied
  <2>3. data' \in [Properties -> Versions]
      BY <1>7, <2>1 DEF EventApplied, Events
  <2>4. /\ token' \in Versions
        /\ monitor' \in Versions
        /\ candidate' \in Steady \cup {NoSignature}
        /\ stable' \in Versions
    <3>1. CASE e.property = Monitor
        BY <1>7, <2>1, <3>1, UpdateMonitorType DEF EventApplied, Events
    <3>2. CASE e.property # Monitor
        BY <1>7, <3>2 DEF EventApplied, monitorVars
    <3> QED
        BY <3>1, <3>2
  <2>5. markers' \in [Channels -> Versions]
      BY <1>7, <2>3, CloudAssumption DEF EventApplied, SniffAppTraffic
  <2>6. pushed' \subseteq Properties
      BY <1>7, <2>1 DEF EventApplied, Events
  <2> QED
      BY <1>7, <2>2, <2>3, <2>4, <2>5, <2>6
      DEF EventApplied, Consume, cloudVars, pollVars
<1>8. ASSUME PollSent PROVE TypeOK'
    BY <1>8 DEF PollSent, cloudVars, streamVars, monitorVars
<1>9. ASSUME PollMerged PROVE TypeOK'
  <2>1. snapshot' \in [Properties -> Versions]
      BY <1>9, MergeType DEF PollMerged
  <2>2. snapshot'[Monitor] \in Versions
      BY <2>1, CloudAssumption
  <2>3. /\ token' \in Versions
        /\ monitor' \in Versions
        /\ candidate' \in Steady \cup {NoSignature}
        /\ stable' \in Versions
      BY <1>9, <2>2, UpdateMonitorType DEF PollMerged
  <2>4. markers' \in [Channels -> Versions]
      BY <1>9, <2>1, CloudAssumption DEF PollMerged, SniffAppTraffic
  <2> QED
      BY <1>9, <2>1, <2>3, <2>4 DEF PollMerged, cloudVars, streamVars
<1>10. ASSUME PollFinished PROVE TypeOK'
    BY <1>10
    DEF PollFinished, NoSnapshot, Versions, cloudVars, streamVars, monitorVars
<1>11. ASSUME PollFailed PROVE TypeOK'
    BY <1>11
    DEF PollFailed, NoSnapshot, Versions, cloudVars, streamVars, monitorVars
<1>12. ASSUME UNCHANGED vars PROVE TypeOK'
    BY <1>12 DEF vars, cloudVars, streamVars, pollVars, monitorVars
<1> QED
    BY <1>1, <1>2, <1>3, <1>4, <1>5, <1>6, <1>7, <1>8, <1>9, <1>10, <1>11,
       <1>12 DEF Next, EventDelivered

\* The variables of CloudState always have their types.
THEOREM TypeCorrect == Spec => []TypeOK
BY InitType, NextType, PTL DEF Spec

---------------------------------------------------------------------------
(* The monitor. *)

\* The decoder, whatever version it is given: the accepted reading only moves
\* forward, and so does the maintenance state.
LEMMA UpdateMonitorForward ==
    ASSUME TypeOK, MonitorIsNewest, NEW v \in Versions, UpdateMonitor(v)
    PROVE  /\ MonitorIsNewest'
           /\ token' >= token
           /\ stable' >= stable
           /\ Reading[v] # "garbled" => token' >= v
BY DEF TypeOK, MonitorIsNewest, UpdateMonitor, Accepted, Versions

\* What a poll has merged went through the decoder before it is stored.
SnapshotDecoded ==
    phase = "details" /\ Reading[snapshot[Monitor]] # "garbled" =>
        token >= snapshot[Monitor]

MonitorInv == MonitorIsNewest /\ NothingUndecoded /\ SnapshotDecoded

\* The decoder's own invariant holds initially.
LEMMA InitMonitor == Init => MonitorInv
BY CloudAssumption
DEF Init, MonitorInv, MonitorIsNewest, NothingUndecoded, SnapshotDecoded

\* Every step keeps it, and moves the maintenance state forward only.
LEMMA NextMonitor ==
    TypeOK /\ MonitorInv /\ [Next]_vars => MonitorInv' /\ stable' >= stable
<1> SUFFICES ASSUME TypeOK, MonitorInv, [Next]_vars
             PROVE  MonitorInv' /\ stable' >= stable
    OBVIOUS
<1>0. stable \in Nat /\ token \in Nat
    BY DEF TypeOK, Versions
<1> USE DEF MonitorInv
\* The steps that leave the monitor, the data and the poll alone.
<1>a. ASSUME UNCHANGED <<data, pollVars, monitorVars>>
      PROVE  MonitorInv' /\ stable' >= stable
    BY <1>a, <1>0 DEF MonitorIsNewest, NothingUndecoded, SnapshotDecoded,
                      pollVars, monitorVars
<1>1. ASSUME NEW p \in Properties, Change(p) \/ Replicate(p)
      PROVE  MonitorInv' /\ stable' >= stable
    BY <1>1, <1>a DEF Change, Replicate
<1>2. ASSUME StreamUp \/ StreamDown
      PROVE  MonitorInv' /\ stable' >= stable
    BY <1>2, <1>a DEF StreamUp, StreamDown
<1>3. ASSUME NEW e \in wire, EventRefused(e) \/ EventOutdated(e)
      PROVE  MonitorInv' /\ stable' >= stable
    BY <1>3, <1>a DEF EventRefused, EventOutdated
<1>4. ASSUME NEW e \in wire, EventApplied(e)
      PROVE  MonitorInv' /\ stable' >= stable
  <2>0. /\ e.property \in Properties /\ e.version \in Versions
        /\ Monitor \in Properties
        /\ data \in [Properties -> Versions]
        /\ snapshot[Monitor] \in Nat
      BY CloudAssumption DEF TypeOK, Events, Versions
  <2>1. CASE e.property = Monitor
    <3>1. /\ MonitorIsNewest' /\ token' >= token /\ stable' >= stable
          /\ Reading[e.version] # "garbled" => token' >= e.version
        BY <1>4, <2>0, <2>1, UpdateMonitorForward DEF EventApplied
    <3>2. data'[Monitor] = e.version
        BY <1>4, <2>0, <2>1 DEF EventApplied
    <3>3. token' \in Nat
        BY <1>4, <2>0, <2>1, UpdateMonitorType DEF EventApplied, Versions
    <3>4. NothingUndecoded'
        BY <3>1, <3>2 DEF NothingUndecoded
    <3>5. SnapshotDecoded'
        BY <1>0, <1>4, <2>0, <3>1, <3>3
        DEF SnapshotDecoded, EventApplied, pollVars
    <3> QED
        BY <3>1, <3>4, <3>5
  <2>2. CASE e.property # Monitor
    <3>1. data'[Monitor] = data[Monitor]
        BY <1>4, <2>0, <2>2 DEF EventApplied
    <3> QED
        BY <1>0, <1>4, <2>2, <3>1
        DEF EventApplied, MonitorIsNewest, NothingUndecoded, SnapshotDecoded,
            pollVars, monitorVars
  <2> QED
      BY <2>1, <2>2
<1>5. ASSUME PollSent \/ PollFailed
      PROVE  MonitorInv' /\ stable' >= stable
    BY <1>5, <1>0 DEF PollSent, PollFailed, MonitorIsNewest, NothingUndecoded,
                      SnapshotDecoded, monitorVars
<1>6. ASSUME PollMerged
      PROVE  MonitorInv' /\ stable' >= stable
  <2>0. /\ snapshot \in [Properties -> Versions]
        /\ data \in [Properties -> Versions]
        /\ Monitor \in Properties
      BY CloudAssumption DEF TypeOK
  <2>a. snapshot' \in [Properties -> Versions]
      BY <1>6, <2>0, MergeType DEF PollMerged
  <2>1. snapshot'[Monitor] \in Versions /\ data[Monitor] \in Nat
      BY <2>0, <2>a DEF Versions
  <2>2. token' \in Nat
      BY <1>6, <2>1, UpdateMonitorType DEF PollMerged, Versions
  <2>3. /\ MonitorIsNewest' /\ token' >= token /\ stable' >= stable
        /\ Reading[snapshot'[Monitor]] # "garbled" =>
               token' >= snapshot'[Monitor]
      BY <1>6, <2>1, UpdateMonitorForward DEF PollMerged
  <2>4. NothingUndecoded'
      BY <1>0, <1>6, <2>1, <2>2, <2>3 DEF NothingUndecoded, PollMerged
  <2> QED
      BY <2>3, <2>4 DEF SnapshotDecoded
<1>7. ASSUME PollFinished
      PROVE  MonitorInv' /\ stable' >= stable
    BY <1>7, <1>0 DEF PollFinished, MonitorIsNewest, NothingUndecoded,
                      SnapshotDecoded, monitorVars
<1>8. ASSUME UNCHANGED vars
      PROVE  MonitorInv' /\ stable' >= stable
    BY <1>8, <1>a DEF vars
<1> QED
    BY <1>1, <1>2, <1>3, <1>4, <1>5, <1>6, <1>7, <1>8 DEF Next, EventDelivered

\* However polls and push events interleave, the monitor shows the newest
\* reading ever accepted (_update_monitor).
THEOREM MonitorNewest == Spec => []MonitorIsNewest
<1>1. MonitorInv => MonitorIsNewest
    BY DEF MonitorInv
<1> QED
    BY <1>1, TypeCorrect, InitMonitor, NextMonitor, PTL DEF Spec

\* Nothing is stored that the decoder has not seen (_async_update_data,
\* handle_dss_event).
THEOREM AllDecoded == Spec => []NothingUndecoded
<1>1. MonitorInv => NothingUndecoded
    BY DEF MonitorInv
<1> QED
    BY <1>1, TypeCorrect, InitMonitor, NextMonitor, PTL DEF Spec

\* The maintenance state never returns to an older reading.
THEOREM StableForward == Spec => MaintenanceForward
<1>1. TypeOK /\ MonitorInv /\ [Next]_vars => [stable' >= stable]_vars
    BY NextMonitor
<1> QED
    BY <1>1, TypeCorrect, InitMonitor, NextMonitor, PTL
    DEF Spec, MaintenanceForward

---------------------------------------------------------------------------
(* The stream. *)

WireOfThisStream == \A e \in wire : e.seq <= lastSeq

StreamInv == WireOfThisStream /\ NoFutureEventRefused

\* A stream starts with an empty memory, and an event enters the memory only
\* with a sequence the stream has sent.
LEMMA NextStream == TypeOK /\ StreamInv /\ [Next]_vars => StreamInv'
<1> SUFFICES ASSUME TypeOK, StreamInv, [Next]_vars PROVE StreamInv'
    OBVIOUS
<1> USE DEF StreamInv, WireOfThisStream, NoFutureEventRefused
<1>1. ASSUME NEW p \in Properties, Change(p) PROVE StreamInv'
  <2>1. /\ lastSeq \in Nat /\ \A e \in wire : e.seq \in Nat
        /\ \A q \in Properties : sequences[q].seq \in Nat
      BY DEF TypeOK, Events, Sequences
  <2>2. CASE UNCHANGED <<lastSeq, wire>>
      BY <1>1, <2>2 DEF Change
  <2>3. CASE /\ streaming
             /\ lastSeq' = lastSeq + 1
             /\ wire' = wire \cup {[property |-> p, seq |-> lastSeq + 1,
                                    form |-> Form[p][version[p] + 1],
                                    version |-> version[p] + 1]}
      BY <1>1, <2>1, <2>3 DEF Change
  <2> QED
      BY <1>1, <2>2, <2>3 DEF Change
<1>2. ASSUME NEW p \in Properties, Replicate(p) PROVE StreamInv'
    BY <1>2 DEF Replicate, streamVars
<1>3. ASSUME StreamUp \/ StreamDown PROVE StreamInv'
    BY <1>3 DEF StreamUp, StreamDown, TypeOK, NoSequence
<1>4. ASSUME NEW e \in wire, EventRefused(e) PROVE StreamInv'
    BY <1>4 DEF EventRefused, Consume
<1>5. ASSUME NEW e \in wire, EventOutdated(e) \/ EventApplied(e)
      PROVE  StreamInv'
  <2>1. /\ wire' \subseteq wire
        /\ lastSeq' = lastSeq /\ streaming' = streaming
        /\ RememberSequence(e)
      BY <1>5 DEF EventOutdated, EventApplied, Consume
  <2>2. \A p \in Properties : sequences'[p] \in {sequences[p], SequenceOf(e)}
      BY <2>1, RememberSequenceType DEF TypeOK
  <2>3. SequenceOf(e).seq = e.seq
      BY DEF SequenceOf
  <2> QED
      BY <2>1, <2>2, <2>3
<1>6. ASSUME PollSent \/ PollMerged \/ PollFinished \/ PollFailed
      PROVE  StreamInv'
    BY <1>6 DEF PollSent, PollMerged, PollFinished, PollFailed, streamVars
<1>7. ASSUME UNCHANGED vars PROVE StreamInv'
    BY <1>7 DEF vars, streamVars
<1> QED
    BY <1>1, <1>2, <1>3, <1>4, <1>5, <1>6, <1>7 DEF Next, EventDelivered

\* No sequence remembered can refuse an event still to be sent
\* (set_dss_state clears _dss_sequences).
THEOREM FutureEventsHeard == Spec => []NoFutureEventRefused
<1>1. Init => StreamInv
    BY DEF Init, StreamInv, WireOfThisStream, NoFutureEventRefused
<1>2. StreamInv => NoFutureEventRefused
    BY DEF StreamInv
<1> QED
    BY <1>1, <1>2, TypeCorrect, NextStream, PTL DEF Spec

---------------------------------------------------------------------------
(* The window of the poll. *)

\* After the merge, only what was pushed since is ahead of the poll.
OnlyPushedAhead ==
    phase = "details" =>
        \A p \in Stamped : data[p] > snapshot[p] => p \in pushed

\* The merge puts the poll ahead of the stored data.
LEMMA MergeAhead ==
    ASSUME TypeOK, NEW polled \in [Properties -> Versions],
           NEW p \in Stamped
    PROVE  Merge(polled)[p] >= data[p]
BY CloudAssumption DEF TypeOK, Merge, Versions

\* The invariant, and what it says of a step that stores an older value.
LEMMA NextWindow ==
    TypeOK /\ OnlyPushedAhead /\ [Next]_vars =>
        /\ OnlyPushedAhead'
        /\ \A p \in Stamped : data'[p] < data[p] =>
               phase = "details" /\ phase' = "idle" /\ p \in pushed
<1> DEFINE Kept ==
        \A p \in Stamped : data'[p] < data[p] =>
            phase = "details" /\ phase' = "idle" /\ p \in pushed
<1> SUFFICES ASSUME TypeOK, OnlyPushedAhead, [Next]_vars
             PROVE  OnlyPushedAhead' /\ Kept
    OBVIOUS
<1>0. /\ \A p \in Stamped : p \in Properties
      /\ \A p \in Stamped : data[p] \in Nat /\ snapshot[p] \in Nat
    BY CloudAssumption DEF TypeOK, Versions
<1> USE DEF OnlyPushedAhead
<1>1. ASSUME UNCHANGED <<data, pollVars, pushed>> PROVE OnlyPushedAhead' /\ Kept
    BY <1>0, <1>1 DEF pollVars
<1>2. ASSUME NEW e \in wire, EventApplied(e) PROVE OnlyPushedAhead' /\ Kept
  <2>1. /\ e.version \in Nat /\ e.property \in Properties
        /\ data \in [Properties -> Versions]
      BY DEF TypeOK, Events, Versions
  <2>2. /\ data' = [data EXCEPT ![e.property] = e.version]
        /\ pushed' = IF phase = "details" THEN pushed \cup {e.property} ELSE {}
        /\ ~Older(e) /\ UNCHANGED pollVars
      BY <1>2 DEF EventApplied
  <2>3. Kept
      BY <1>0, <2>1, <2>2 DEF Older
  <2>4. OnlyPushedAhead'
      BY <1>0, <2>1, <2>2 DEF pollVars
  <2> QED
      BY <2>3, <2>4
<1>3. ASSUME PollSent \/ PollFailed PROVE OnlyPushedAhead' /\ Kept
    BY <1>0, <1>3 DEF PollSent, PollFailed
<1>4. ASSUME PollMerged PROVE OnlyPushedAhead' /\ Kept
  <2>1. \A p \in Stamped : snapshot'[p] >= data[p]
      BY <1>4, MergeAhead DEF PollMerged, TypeOK
  <2>2. \A p \in Stamped : snapshot'[p] \in Nat
      BY <1>0, <1>4, MergeType DEF PollMerged, TypeOK, Versions
  <2> QED
      BY <1>0, <1>4, <2>1, <2>2 DEF PollMerged
<1>5. ASSUME PollFinished PROVE OnlyPushedAhead' /\ Kept
    BY <1>0, <1>5 DEF PollFinished
<1>6. ASSUME UNCHANGED vars PROVE OnlyPushedAhead' /\ Kept
    BY <1>1, <1>6 DEF vars
<1>7. ASSUME NEW p \in Properties, Change(p) \/ Replicate(p)
      PROVE  OnlyPushedAhead' /\ Kept
    BY <1>1, <1>7 DEF Change, Replicate
<1>8. ASSUME StreamUp \/ StreamDown PROVE OnlyPushedAhead' /\ Kept
    BY <1>1, <1>8 DEF StreamUp, StreamDown
<1>9. ASSUME NEW e \in wire, EventRefused(e) \/ EventOutdated(e)
      PROVE  OnlyPushedAhead' /\ Kept
    BY <1>1, <1>9 DEF EventRefused, EventOutdated
<1> QED
    BY <1>2, <1>3, <1>4, <1>5, <1>6, <1>7, <1>8, <1>9 DEF Next, EventDelivered

\* The only way a stamped value goes back is a poll that returns after its
\* other awaits (_merge_poll_with_push, _async_update_data).
THEOREM WindowOnly == Spec => GoesBackOnlyInTheWindow
<1>1. Init => OnlyPushedAhead
    BY DEF Init, OnlyPushedAhead
<1>2. TypeOK /\ OnlyPushedAhead /\ [Next]_vars =>
        [\A p \in Stamped : data'[p] < data[p] =>
            phase = "details" /\ phase' = "idle" /\ p \in pushed]_vars
    BY NextWindow
<1> QED
    BY <1>1, <1>2, TypeCorrect, NextWindow, PTL
    DEF Spec, GoesBackOnlyInTheWindow
===========================================================================
