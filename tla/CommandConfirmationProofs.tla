-------------------- MODULE CommandConfirmationProofs --------------------
(***************************************************************************)
(* Proofs about CommandConfirmation, for any states, any capacity of the   *)
(* acknowledgement cache and any number of commands.                       *)
(***************************************************************************)
EXTENDS CommandConfirmation, TLAPS

Pausing == {"ack", "state", "refresh", "sleep", "reconcile"}
Results == Outcomes \ {"none", "sent"}

\* What a step of the command's own coroutine may do: suspend, or end with a
\* result the state or the command's own acknowledgement accounts for.
CallResult ==
    /\ command' = command /\ before' = before
    /\ expired' \in BOOLEAN
    /\ waiter' \in Waiters
    /\ \/ /\ pc' \in Pausing
          /\ outcome' = outcome
          /\ pc' = "state" => waiter' = "pending" /\ ~Changed
       \/ /\ pc' = "idle"
          /\ outcome' \in Results
          /\ outcome' = "acknowledged" => Changed \/ status[command] = "accepted"
          /\ outcome' = "rejected" => status[command] = "refused"

\* The loop of async_wait.
LEMMA LoopResult ==
    ASSUME TypeOK
    PROVE  /\ Loop => CallResult
           /\ AfterLoop => CallResult
           /\ WaitForState => CallResult
<1>1. AfterLoop => CallResult
    BY DEF AfterLoop, Ends, CallResult, Pausing, Results, Outcomes, Waiters,
           TypeOK
<1>2. Loop => CallResult
    BY <1>1 DEF Loop, Ends, Suspends, CallResult, Pausing, Results, Outcomes,
           Waiters, TypeOK
<1>3. WaitForState => CallResult
    BY <1>2 DEF WaitForState, Ends, CallResult, Results, Outcomes, Waiters
<1> QED
    BY <1>1, <1>2, <1>3

\* The acknowledgement that decides is the command's own.
LEMMA DecideResult ==
    ASSUME TypeOK, Decide(status[command])
    PROVE  CallResult
BY LoopResult DEF Decide, Ends, CallResult, Results, Outcomes, Waiters

\* Every step of the coroutine.
LEMMA ProgressResult ==
    ASSUME TypeOK, Progress
    PROVE  /\ CallResult
           /\ UNCHANGED <<status, order, stateVars, streaming, closed>>
           /\ recent' \subseteq recent
<1>1. CASE PostFails
    BY <1>1 DEF PostFails, Ends, CallResult, Results, Outcomes, Waiters,
                ackVars
<1>2. CASE PostedWithoutAck
    BY <1>2, LoopResult DEF PostedWithoutAck, ackVars
<1>3. CASE PostedAcknowledged
    BY <1>3, DecideResult DEF PostedAcknowledged
<1>4. CASE PostedAwaitingAck
    BY <1>4 DEF PostedAwaitingAck, Suspends, CallResult, Pausing, Waiters,
                TypeOK
<1>5. CASE AckResumes
    BY <1>5, DecideResult DEF AckResumes
<1>6. CASE AckTimesOut
    BY <1>6, LoopResult DEF AckTimesOut
<1>7. CASE Woken
    BY <1>7, LoopResult DEF Woken, ackVars
<1>8. CASE WaitTimesOut
    BY <1>8, LoopResult DEF WaitTimesOut, ackVars
<1>9. CASE RefreshReturns
  <2>1. CallResult
      BY <1>9, LoopResult
      DEF RefreshReturns, Ends, Suspends, CallResult, Pausing, Results,
          Outcomes, Waiters, TypeOK
  <2> QED
      BY <1>9, <2>1 DEF RefreshReturns, ackVars
<1>10. CASE SleepEnds
    BY <1>10, LoopResult DEF SleepEnds, ackVars
<1>11. CASE Reconciled
    BY <1>11 DEF Reconciled, Ends, CallResult, Results, Outcomes, Waiters,
                 ackVars
<1> QED
    BY <1>1, <1>2, <1>3, <1>4, <1>5, <1>6, <1>7, <1>8, <1>9, <1>10, <1>11
    DEF Progress

\* The same steps leave a pending acknowledgement waiter only where the
\* acknowledgement is still to come.
LEMMA ProgressWaits ==
    ASSUME TypeOK, NoAckMissed, Progress
    PROVE  NoAckMissed' /\ ackWaiter' \in Waiters
<1>1. CASE PostFails \/ PostedWithoutAck \/ PostedAcknowledged
    BY <1>1 DEF PostFails, PostedWithoutAck, PostedAcknowledged, NoAckMissed,
                ackVars, TypeOK
<1>2. CASE PostedAwaitingAck
    BY <1>2 DEF PostedAwaitingAck, Suspends, NoAckMissed, Waiters
<1>3. CASE AckResumes \/ AckTimesOut
    BY <1>3 DEF AckResumes, AckTimesOut, NoAckMissed, Waiters
<1>4. CASE Woken \/ WaitTimesOut \/ RefreshReturns \/ SleepEnds \/ Reconciled
    BY <1>4 DEF Woken, WaitTimesOut, RefreshReturns, SleepEnds, Reconciled,
                NoAckMissed, ackVars, TypeOK
<1> QED
    BY <1>1, <1>2, <1>3, <1>4 DEF Progress

---------------------------------------------------------------------------
(* Types. *)

\* The acknowledgement cache holds ids (_remember_dss_ack).
LEMMA RememberType ==
    ASSUME TypeOK, NEW i \in Ids, Remember(i)
    PROVE  order' \in Seq(Ids) /\ recent' \subseteq Ids
<1> USE DEF TypeOK
<1>1. CASE i \in recent
    BY <1>1 DEF Remember
<1>2. CASE i \notin recent /\ Len(order) # Limit
    BY <1>2 DEF Remember
<1>3. CASE i \notin recent /\ Len(order) = Limit
  <2>0. Len(<<>>) = 0 /\ Limit # 0
      BY ConfirmationAssumption
  <2>1. order # <<>>
      BY <1>3, <2>0
  <2>2. Tail(order) \in Seq(Ids)
      BY <2>1
  <2>3. Append(Tail(order), i) \in Seq(Ids)
      BY <2>2
  <2>4. order' = Append(Tail(order), i) /\ recent' \subseteq recent \cup {i}
      BY <1>3 DEF Remember
  <2> QED
      BY <2>3, <2>4
<1> QED
    BY <1>1, <1>2, <1>3

\* Every step keeps the types.
LEMMA NextType == TypeOK /\ NoAckMissed /\ [Next]_vars => TypeOK'
<1> SUFFICES ASSUME TypeOK, NoAckMissed, [Next]_vars PROVE TypeOK'
    OBVIOUS
<1>1. CASE Send
  <2>1. command' \in 0 .. MaxCommands
      BY <1>1, ConfirmationAssumption DEF Send, TypeOK
  <2>2. before' \in States /\ seen' \in States
      BY <1>1 DEF Send, TypeOK
  <2> QED
      BY <1>1, <2>1, <2>2 DEF Send, TypeOK, Locations, Outcomes, ackVars
<1>2. CASE Progress
    BY <1>2, ProgressResult, ProgressWaits
    DEF TypeOK, CallResult, Pausing, Results, Locations, Outcomes, stateVars
<1>3. CASE Expire
    BY <1>3 DEF Expire, TypeOK, ackVars, stateVars
<1>4. ASSUME NEW i \in Ids, MachineAcks(i) PROVE TypeOK'
    BY <1>4 DEF MachineAcks, TypeOK, callVars, ackVars, stateVars
<1>5. ASSUME NEW i \in Ids, AckArrives(i) PROVE TypeOK'
  <2>1. order' \in Seq(Ids) /\ recent' \subseteq Ids
      BY <1>5, RememberType DEF AckArrives
  <2>2. ackWaiter' \in Waiters
      BY <1>5 DEF AckArrives, TypeOK, Waiters
  <2> QED
      BY <1>5, <2>1, <2>2 DEF AckArrives, TypeOK, callVars, stateVars
<1>6. CASE StatePushed
    BY <1>6 DEF StatePushed, Sees, TypeOK, Waiters, callVars, ackVars
<1>7. CASE Polled \/ CommandEchoed
    BY <1>7 DEF Polled, CommandEchoed, Sees, TypeOK, callVars, ackVars
<1>8. CASE StreamChanges
    BY <1>8 DEF StreamChanges, TypeOK, callVars, ackVars, stateVars
<1>9. CASE Shutdown
    BY <1>9 DEF Shutdown, Ends, TypeOK, Waiters, Locations, Outcomes, callVars,
                ackVars, stateVars
<1>10. CASE UNCHANGED vars
    BY <1>10 DEF vars, TypeOK, callVars, ackVars, stateVars
<1> QED
    BY <1>1, <1>2, <1>3, <1>4, <1>5, <1>6, <1>7, <1>8, <1>9, <1>10 DEF Next

---------------------------------------------------------------------------
(* Waiters. *)

WaiterThere == pc = "state" => waiter # "none"

WaitInv == TypeOK /\ NoAckMissed /\ NoLostWakeup /\ WaiterThere

\* Everything holds before the first command.
LEMMA InitWait == Init => WaitInv
<1> SUFFICES ASSUME Init PROVE WaitInv
    OBVIOUS
<1>1. order \in Seq(Ids) /\ recent \subseteq Ids
    BY DEF Init
<1>2. command \in 0 .. MaxCommands
    BY ConfirmationAssumption DEF Init
<1>3. status \in [Ids -> Acks \cup {"none"}]
    BY DEF Init
<1>4. before \in States /\ seen \in States
    BY ConfirmationAssumption DEF Init
<1>5. TypeOK
    BY <1>1, <1>2, <1>3, <1>4 DEF Init, TypeOK, Waiters, Locations, Outcomes
<1> QED
    BY <1>5 DEF Init, WaitInv, NoAckMissed, NoLostWakeup, WaiterThere

\* Every step keeps both kinds of waiters informed.
LEMMA NextWait == WaitInv /\ [Next]_vars => WaitInv'
<1> SUFFICES ASSUME WaitInv, [Next]_vars
             PROVE  NoAckMissed' /\ NoLostWakeup' /\ WaiterThere'
    BY NextType DEF WaitInv
<1> USE DEF WaitInv
<1>1. CASE Send
    BY <1>1 DEF Send, NoAckMissed, NoLostWakeup, WaiterThere, ackVars
<1>2. CASE Progress
    BY <1>2, ProgressResult, ProgressWaits
    DEF NoLostWakeup, WaiterThere, CallResult, Pausing, Changed, stateVars
<1>3. CASE Expire
    BY <1>3 DEF Expire, NoAckMissed, NoLostWakeup, WaiterThere, Changed,
                ackVars, stateVars
<1>4. ASSUME NEW i \in Ids, MachineAcks(i)
      PROVE  NoAckMissed' /\ NoLostWakeup' /\ WaiterThere'
    BY <1>4 DEF MachineAcks, NoAckMissed, NoLostWakeup, WaiterThere, Changed,
                callVars, ackVars, stateVars
<1>5. ASSUME NEW i \in Ids, AckArrives(i)
      PROVE  NoAckMissed' /\ NoLostWakeup' /\ WaiterThere'
    BY <1>5 DEF AckArrives, Remember, NoAckMissed, NoLostWakeup, WaiterThere,
                Changed, callVars, stateVars
<1>6. CASE StatePushed
    BY <1>6 DEF StatePushed, Sees, NoAckMissed, NoLostWakeup, WaiterThere,
                TypeOK, Waiters, callVars, ackVars
<1>7. CASE Polled \/ CommandEchoed
    BY <1>7 DEF Polled, CommandEchoed, Sees, NoAckMissed, NoLostWakeup,
                WaiterThere, callVars, ackVars
<1>8. CASE StreamChanges
    BY <1>8 DEF StreamChanges, NoAckMissed, NoLostWakeup, WaiterThere, Changed,
                callVars, ackVars, stateVars
<1>9. CASE Shutdown
    BY <1>9 DEF Shutdown, Ends, NoAckMissed, NoLostWakeup, WaiterThere, Changed,
                callVars, stateVars
<1>10. CASE UNCHANGED vars
    BY <1>10 DEF vars, NoAckMissed, NoLostWakeup, WaiterThere, Changed,
                 callVars, ackVars, stateVars
<1> QED
    BY <1>1, <1>2, <1>3, <1>4, <1>5, <1>6, <1>7, <1>8, <1>9, <1>10 DEF Next

\* The variables of CommandConfirmation always have their types.
THEOREM ConfirmationTypes == Spec => []TypeOK
<1>1. WaitInv => TypeOK
    BY DEF WaitInv
<1> QED
    BY <1>1, InitWait, NextWait, PTL DEF Spec

\* No push of the monitor or of the response that moves the state goes unnoticed
\* by a sleeping command: only a poll or a command echo can move it without
\* setting the waiter.
THEOREM WakeupsKept == Spec => []NoLostWakeup
<1>1. WaitInv => NoLostWakeup
    BY DEF WaitInv
<1> QED
    BY <1>1, InitWait, NextWait, PTL DEF Spec

\* A command waits for its acknowledgement only while it has not arrived.
THEOREM AcksHeard == Spec => []NoAckMissed
<1>1. WaitInv => NoAckMissed
    BY DEF WaitInv
<1> QED
    BY <1>1, InitWait, NextWait, PTL DEF Spec

---------------------------------------------------------------------------
(* The acknowledgement cache. *)

\* The deque remembers the ids of datapoints that were sent, the current one
\* only once while its POST is not answered: an id is appended when it is not
\* cached, and the current id leaves the cache with its only place in the deque.
CacheInv ==
    /\ AckCache
    /\ \A i \in Ids : status[i] # "none" => i <= command
    /\ \A n \in DOMAIN order : order[n] <= command
    /\ pc = "post" =>
           \A m, n \in DOMAIN order :
               order[m] = command /\ order[n] = command => m = n

\* What is remembered of i: the deque gains it at the end, and may lose its
\* first id to make room.
LEMMA RememberOrder ==
    ASSUME TypeOK, NEW i \in Ids, i \notin recent, Remember(i),
           Len(order) <= Limit
    PROVE  \E drop \in {0, 1} :
               /\ Len(order') = Len(order) - drop + 1 /\ Len(order') <= Limit
               /\ \A n \in 1 .. Len(order) - drop : order'[n] = order[n + drop]
               /\ order'[Len(order')] = i
               /\ drop = 1 => Len(order) > 0
               /\ recent' = (IF drop = 1 THEN recent \ {order[1]} ELSE recent)
                                \cup {i}
<1> Len(order) \in Nat /\ Limit \in Nat \ {0} /\ order \in Seq(Ids)
    BY ConfirmationAssumption DEF TypeOK
<1>1. CASE Len(order) # Limit
  <2>1. order' = Append(order, i) /\ recent' = recent \cup {i}
      BY <1>1 DEF Remember
  <2>2. /\ Len(order') = Len(order) + 1
        /\ \A n \in 1 .. Len(order) : order'[n] = order[n]
        /\ order'[Len(order) + 1] = i
      BY <2>1
  <2> QED
      BY <1>1, <2>1, <2>2
<1>2. CASE Len(order) = Limit
  <2>1. /\ order' = Append(Tail(order), i)
        /\ recent' = (recent \ {Head(order)}) \cup {i}
      BY <1>2 DEF Remember
  <2>2. order # <<>>
      BY <1>2
  <2>3. /\ Tail(order) \in Seq(Ids) /\ Len(Tail(order)) = Len(order) - 1
        /\ \A n \in 1 .. Len(order) - 1 : Tail(order)[n] = order[n + 1]
        /\ Head(order) = order[1]
      BY <2>2
  <2>4. /\ Len(order') = Len(order)
        /\ \A n \in 1 .. Len(order) - 1 : order'[n] = order[n + 1]
        /\ order'[Len(order)] = i
      BY <2>1, <2>3
  <2> QED
      BY <1>2, <2>1, <2>3, <2>4
<1> QED
    BY <1>1, <1>2

\* Remembering a sent datapoint keeps the cache in order.
LEMMA RememberCached ==
    ASSUME TypeOK, CacheInv, NEW i \in Ids, i <= command, Remember(i),
           UNCHANGED <<pc, command, status>>
    PROVE  CacheInv'
<1>1. CASE i \in recent
    BY <1>1 DEF Remember, CacheInv, AckCache, Elements
<1>2. CASE i \notin recent
  <2>1. PICK drop \in {0, 1} :
            /\ Len(order') = Len(order) - drop + 1 /\ Len(order') <= Limit
            /\ \A n \in 1 .. Len(order) - drop : order'[n] = order[n + drop]
            /\ order'[Len(order')] = i
            /\ drop = 1 => Len(order) > 0
            /\ recent' = (IF drop = 1 THEN recent \ {order[1]} ELSE recent)
                             \cup {i}
      BY <1>2, RememberOrder DEF CacheInv, AckCache
  <2>2. /\ DOMAIN order = 1 .. Len(order) /\ DOMAIN order' = 1 .. Len(order')
        /\ Len(order) \in Nat /\ Len(order') \in Nat \ {0}
    <3>1. order \in Seq(Ids) /\ order' \in Seq(Ids)
        BY RememberType DEF TypeOK
    <3> QED
        BY <2>1, <3>1
  \* A place of the new deque is the last one or a place of the old one.
  <2>3. \A n \in DOMAIN order' :
            \/ n = Len(order')
            \/ n + drop \in DOMAIN order /\ order'[n] = order[n + drop]
    <3> SUFFICES ASSUME NEW n \in 1 .. Len(order'), n # Len(order')
                 PROVE  /\ n + drop \in 1 .. Len(order)
                        /\ order'[n] = order[n + drop]
        BY <2>2
    <3>1. n \in 1 .. Len(order) - drop /\ n + drop \in 1 .. Len(order)
        BY <2>1, <2>2
    <3> QED
        BY <2>1, <3>1
  <2>4. \A n \in DOMAIN order' : order'[n] <= command
      BY <2>1, <2>3 DEF CacheInv
  <2>5. recent' \subseteq Elements(order')
    <3> SUFFICES ASSUME NEW id \in recent' PROVE \E n \in DOMAIN order' : id = order'[n]
        BY DEF Elements
    <3>1. CASE id = i
        BY <2>1, <2>2, <3>1
    <3>2. CASE id # i
      <4>1. PICK n \in DOMAIN order : id = order[n] /\ (drop = 1 => n # 1)
          BY <2>1, <3>2 DEF CacheInv, AckCache, Elements
      <4>2. n - drop \in 1 .. Len(order) - drop /\ (n - drop) + drop = n
          BY <2>2, <4>1
      <4>3. n - drop \in DOMAIN order' /\ order'[n - drop] = id
          BY <2>1, <2>2, <4>1, <4>2
      <4> QED
          BY <4>3
    <3> QED
        BY <3>1, <3>2
  <2>6. CASE pc # "post"
      BY <2>1, <2>4, <2>5, <2>6 DEF CacheInv, AckCache
  <2>7. CASE pc = "post"
    <3>1. i = command => \A n \in DOMAIN order : order[n] # command
        BY <1>2, <2>7 DEF CacheInv, AckCache, Elements
    <3>2. \A m, n \in DOMAIN order' :
              order'[m] = command /\ order'[n] = command => m = n
      <4> SUFFICES ASSUME NEW m \in DOMAIN order', NEW n \in DOMAIN order',
                          order'[m] = command, order'[n] = command
                   PROVE  m = n
          OBVIOUS
      <4>1. CASE i = command
          BY <2>3, <3>1, <4>1
      <4>2. CASE i # command
        <5>1. /\ m + drop \in DOMAIN order /\ order[m + drop] = command
              /\ n + drop \in DOMAIN order /\ order[n + drop] = command
            BY <2>1, <2>3, <4>2
        <5>2. m + drop = n + drop
            BY <2>7, <5>1 DEF CacheInv
        <5> QED
            BY <2>2, <5>2
      <4> QED
          BY <4>1, <4>2
    <3>3. command \in Elements(order') => command \in recent'
      <4> SUFFICES ASSUME NEW n \in DOMAIN order', order'[n] = command, i # command
                   PROVE  command \in recent'
          BY <2>1 DEF Elements
      <4>1. n + drop \in DOMAIN order /\ order[n + drop] = command
          BY <2>1, <2>3
      <4>2. command \in recent
          BY <2>7, <4>1 DEF CacheInv, AckCache, Elements
      <4>3. CASE drop = 1
        <5>1. 1 \in DOMAIN order /\ n + drop # 1
            BY <2>1, <2>2, <4>3
        <5>2. order[1] # command
            BY <2>7, <4>1, <5>1 DEF CacheInv
        <5> QED
            BY <2>1, <4>2, <5>2
      <4> QED
          BY <2>1, <4>2, <4>3
    <3> QED
        BY <2>1, <2>4, <2>5, <3>2, <3>3 DEF CacheInv, AckCache
  <2> QED
      BY <2>6, <2>7
<1> QED
    BY <1>1, <1>2

\* Every step keeps the cache.
LEMMA NextCache == TypeOK /\ CacheInv /\ [Next]_vars => CacheInv'
<1> SUFFICES ASSUME TypeOK, CacheInv, [Next]_vars PROVE CacheInv'
    OBVIOUS
<1>0. command \in Nat /\ Ids \subseteq Nat
    BY ConfirmationAssumption DEF TypeOK, Ids
<1>1. CASE Send
  <2>1. \A n \in DOMAIN order : order[n] \in Nat
      BY <1>0 DEF TypeOK
  <2>2. \A n \in DOMAIN order : order[n] <= command' /\ order[n] # command'
      BY <1>0, <1>1, <2>1 DEF Send, CacheInv
  <2>3. \A i \in Ids : status[i] # "none" => i <= command'
      BY <1>0, <1>1 DEF Send, CacheInv
  <2> QED
      BY <1>1, <2>2, <2>3 DEF Send, CacheInv, AckCache, Elements, ackVars
<1>2. CASE Progress
  <2>1. /\ UNCHANGED <<command, status, order>> /\ recent' \subseteq recent
        /\ pc' # "post"
      BY <1>2, ProgressResult DEF CallResult, Pausing
  <2> QED
      BY <2>1 DEF CacheInv, AckCache, Elements
<1>3. ASSUME NEW i \in Ids, MachineAcks(i) PROVE CacheInv'
    BY <1>3 DEF MachineAcks, CacheInv, AckCache, TypeOK, callVars, ackVars
<1>4. ASSUME NEW i \in Ids, AckArrives(i) PROVE CacheInv'
  <2>1. i <= command /\ Remember(i) /\ UNCHANGED <<pc, command, status>>
      BY <1>4 DEF AckArrives, CacheInv, callVars
  <2> QED
      BY <2>1, RememberCached
<1>5. CASE Shutdown
    BY <1>5 DEF Shutdown, Ends, CacheInv, AckCache, Elements, callVars
<1>6. CASE UNCHANGED <<pc, command, status, recent, order>>
    BY <1>6 DEF CacheInv, AckCache, Elements
<1> QED
    BY <1>1, <1>2, <1>3, <1>4, <1>5, <1>6
    DEF Next, Expire, StatePushed, Polled, CommandEchoed, StreamChanges, vars,
        callVars, ackVars

\* An acknowledgement that overtook the reply to its POST is still found when
\* the reply arrives, whatever the capacity of the cache and whatever late and
\* repeated acknowledgements of earlier commands it had to make room for.
THEOREM CacheFinds == Spec => []AckCache
<1>1. Init => CacheInv
    BY ConfirmationAssumption DEF Init, CacheInv, AckCache, Elements
<1>2. WaitInv => TypeOK
    BY DEF WaitInv
<1>3. CacheInv => AckCache
    BY DEF CacheInv
<1> QED
    BY <1>1, <1>2, <1>3, InitWait, NextWait, NextCache, PTL DEF Spec

---------------------------------------------------------------------------
(* Refinement of CommandOutcome. *)

\* A command in progress has been sent, and a state that differs from its
\* snapshot has moved since; nothing is acknowledged before it is sent.
Sending ==
    /\ pc # "idle" => command > 0 /\ outcome = "sent" /\ (Changed => moved)
    /\ pc = "idle" => outcome # "sent"
    /\ \A i \in Ids : i > command => status[i] = "none"

\* Every step keeps that.
LEMMA NextSending ==
    TypeOK /\ NoAckMissed /\ Sending /\ [Next]_vars => Sending'
<1> SUFFICES ASSUME TypeOK, NoAckMissed, Sending, [Next]_vars PROVE Sending'
    OBVIOUS
<1> USE DEF Sending
<1>0. command \in Nat /\ Ids \subseteq Nat
    BY ConfirmationAssumption DEF TypeOK, Ids
<1>1. CASE Send
    BY <1>0, <1>1 DEF Send, Changed
<1>2. CASE Progress
    <2>1. pc # "idle"
        BY <1>2 DEF Progress, PostFails, PostedWithoutAck, PostedAcknowledged,
           PostedAwaitingAck, AckResumes, AckTimesOut, Woken, WaitTimesOut,
           RefreshReturns, SleepEnds, Reconciled
    <2> QED
        BY <1>2, <2>1, ProgressResult
        DEF CallResult, Pausing, Results, Changed, stateVars
<1>3. CASE Expire
    BY <1>3 DEF Expire, Changed, stateVars
<1>4. ASSUME NEW i \in Ids, MachineAcks(i) PROVE Sending'
    BY <1>0, <1>4 DEF MachineAcks, TypeOK, Changed, callVars, stateVars
<1>5. ASSUME NEW i \in Ids, AckArrives(i) PROVE Sending'
    BY <1>5 DEF AckArrives, Changed, callVars, stateVars
<1>6. CASE StatePushed \/ Polled \/ CommandEchoed
    BY <1>6 DEF StatePushed, Polled, CommandEchoed, Sees, Changed, callVars
<1>7. CASE StreamChanges
    BY <1>7 DEF StreamChanges, Changed, callVars, stateVars
<1>8. CASE Shutdown
    BY <1>8 DEF Shutdown, Ends, Changed, callVars, stateVars
<1>9. CASE UNCHANGED vars
    BY <1>9 DEF vars, Changed, callVars, stateVars
<1> QED
    BY <1>1, <1>2, <1>3, <1>4, <1>5, <1>6, <1>7, <1>8, <1>9 DEF Next

OutcomeStep ==
    \/ Outcome!Send \/ Outcome!Learn \/ Outcome!Conclude
    \/ UNCHANGED Outcome!ovars

\* Evidence only grows while the command stays the same.
LEMMA EvidenceKept ==
    ASSUME UNCHANGED <<command, outcome>>,
           Evidence \subseteq Evidence'
    PROVE  OutcomeStep
<1>1. Evidence' \in SUBSET Outcome!Signs
    BY DEF Evidence, Outcome!Signs
<1> QED
    BY <1>1 DEF OutcomeStep, Outcome!Learn

\* Every step is one of CommandOutcome or changes nothing there.
LEMMA StepRefines ==
    TypeOK /\ NoAckMissed /\ Sending /\ [Next]_vars => OutcomeStep
<1> SUFFICES ASSUME TypeOK, NoAckMissed, Sending, [Next]_vars
             PROVE  OutcomeStep
    OBVIOUS
<1>1. CASE Send
  <2>1. command \in Nat /\ command + 1 \in Ids
      BY <1>1, ConfirmationAssumption DEF Send, TypeOK, Ids
  <2>2. Evidence' = {}
      BY <1>1, <2>1 DEF Send, Sending, Evidence
  <2> QED
      BY <1>1, <2>2 DEF Send, Sending, OutcomeStep, Outcome!Send
<1>2. CASE Progress
  <2>1. pc # "idle"
      BY <1>2 DEF Progress, PostFails, PostedWithoutAck, PostedAcknowledged,
         PostedAwaitingAck, AckResumes, AckTimesOut, Woken, WaitTimesOut,
         RefreshReturns, SleepEnds, Reconciled
  <2>2. CallResult /\ UNCHANGED <<status, moved, command>>
      BY <1>2, ProgressResult DEF stateVars, CallResult
  <2>3. Evidence' = Evidence
      BY <2>2 DEF Evidence
  <2>4. CASE outcome' = outcome
      BY <2>2, <2>3, <2>4, EvidenceKept
  <2>5. CASE outcome' # outcome
    <3>1. /\ outcome' \in Results
          /\ outcome' = "acknowledged" => Changed \/ status[command] = "accepted"
          /\ outcome' = "rejected" => status[command] = "refused"
        BY <2>2, <2>5 DEF CallResult
    <3>2. command > 0 /\ outcome = "sent" /\ (Changed => moved)
        BY <2>1 DEF Sending
    <3>3. outcome' = "acknowledged" => {"accepted", "moved"} \cap Evidence # {}
        BY <3>1, <3>2 DEF Evidence
    <3>4. outcome' = "rejected" => "refused" \in Evidence
        BY <3>1, <3>2 DEF Evidence
    <3> QED
        BY <2>2, <2>3, <3>1, <3>2, <3>3, <3>4
        DEF OutcomeStep, Outcome!Conclude, Results, Outcomes
  <2> QED
      BY <2>4, <2>5
<1>3. CASE Expire
    BY <1>3, EvidenceKept DEF Expire, Evidence, stateVars
<1>4. ASSUME NEW i \in Ids, MachineAcks(i) PROVE OutcomeStep
  <2>1. command \in Nat /\ (command > 0 => command \in Ids)
      BY ConfirmationAssumption DEF TypeOK, Ids
  <2>2. Evidence \subseteq Evidence'
      BY <1>4, <2>1
      DEF MachineAcks, Evidence, TypeOK, callVars, stateVars
  <2> QED
      BY <1>4, <2>2, EvidenceKept DEF MachineAcks, callVars
<1>5. ASSUME NEW i \in Ids, AckArrives(i) PROVE OutcomeStep
    BY <1>5, EvidenceKept DEF AckArrives, Evidence, callVars, stateVars
<1>6. CASE StatePushed \/ Polled \/ CommandEchoed
    BY <1>6, EvidenceKept
    DEF StatePushed, Polled, CommandEchoed, Sees, Evidence, callVars
<1>7. CASE StreamChanges
    BY <1>7, EvidenceKept DEF StreamChanges, Evidence, callVars, stateVars
<1>8. CASE Shutdown
  <2>1. Evidence' = Evidence /\ command' = command
      BY <1>8 DEF Shutdown, Ends, Evidence, callVars, stateVars
  <2>2. CASE pc # "idle" /\ Ends("failed")
      BY <1>8, <2>1, <2>2
      DEF Shutdown, Ends, Sending, OutcomeStep, Outcome!Conclude
  <2>3. CASE UNCHANGED callVars
      BY <2>1, <2>3, EvidenceKept DEF callVars
  <2> QED
      BY <1>8, <2>2, <2>3 DEF Shutdown
<1>9. CASE UNCHANGED vars
    BY <1>9, EvidenceKept DEF vars, Evidence, callVars, stateVars
<1> QED
    BY <1>1, <1>2, <1>3, <1>4, <1>5, <1>6, <1>7, <1>8, <1>9 DEF Next

\* The result of a command never contradicts what the machine has shown.
THEOREM OutcomesHonest == Spec => OutcomeHonest
<1>1. Init => Sending /\ Outcome!Init
    BY ConfirmationAssumption
    DEF Init, Sending, Changed, Ids, Outcome!Init, Evidence
<1>2. WaitInv => TypeOK /\ NoAckMissed
    BY DEF WaitInv
<1>3. OutcomeStep =>
        [Outcome!Send \/ Outcome!Learn \/ Outcome!Conclude]_(Outcome!ovars)
    BY DEF OutcomeStep
<1> QED
    BY <1>1, <1>2, <1>3, InitWait, NextWait, NextSending, StepRefines, PTL
    DEF Spec, OutcomeHonest, Outcome!Spec
===========================================================================
