-------------------------- MODULE DssStreamProofs --------------------------
(***************************************************************************)
(* Theorems about DssStream, for every delay and every Retry-After.  The    *)
(* invariant says where in its life an entry can hold what: a connection    *)
(* only while the task receives from it or closes it, a cancellation only    *)
(* while async_stop waits for the task.                                     *)
(***************************************************************************)
EXTENDS DssStream, WellFoundedInduction, TLAPS

\* Which parts of the supervision an entry has in each of its phases.
Phases ==
    /\ up <=> entry # "down"
    /\ ~up => ~fallback /\ ~due
    /\ entry \in {"down", "starting"} => task = "none"
    /\ entry = "stopping" <=> stop # "idle"
    /\ entry = "stopping" => stopping
    /\ cancelled => task # "none" /\ stop = "joining"

\* What the supervision task owns at each of its awaits.
Owns ==
    /\ held <=> task = "receiving"
    /\ conn # "none" => task \in {"receiving", "closing"}
    /\ raising => task = "closing"

\* The interval is that of the state, and the timer is on its way to it.
Timers ==
    /\ interval = IntervalFor(state)
    /\ LossIsPolled

IInv == TypeOK /\ Phases /\ Owns /\ Timers

---------------------------------------------------------------------------
(* The two operators several actions share. *)

\* A change of state keeps the timers right.
LEMMA SetStateGood ==
    ASSUME IInv, NEW s \in {"polling", "connecting", "streaming"}, SetState(s),
           up' = up
    PROVE  /\ Timers'
           /\ state' = s /\ interval' \in {"slow", "fast"}
           /\ UNCHANGED timer
           /\ due' \in BOOLEAN /\ fallback' \in BOOLEAN
           /\ overlooked' \in BOOLEAN
           /\ ~fallback /\ ~due /\ state # "streaming" => ~fallback' /\ ~due'
  <1>1. state' = s /\ interval' = IntervalFor(s) /\ UNCHANGED timer
    BY DEF SetState
  <1>2. /\ due' \in BOOLEAN /\ fallback' \in BOOLEAN /\ overlooked' \in BOOLEAN
        /\ ~fallback /\ ~due /\ state # "streaming" => ~fallback' /\ ~due'
    BY DEF SetState, IInv, TypeOK
  <1>3. LossIsPolled'
    BY <1>1 DEF SetState, IInv, TypeOK, Timers, LossIsPolled
  <1>4. QED
    BY <1>1, <1>2, <1>3 DEF Timers, IntervalFor

\* Leaving an await that is not the close keeps the task's ownership.
LEMMA FinallyGood ==
    ASSUME IInv, NEW exception \in BOOLEAN, Finally(exception), task # "closing",
           UNCHANGED conn
    PROVE  /\ Owns'
           /\ task' \in {"none", "closing", "sleeping"}
           /\ held' \in BOOLEAN /\ raising' \in BOOLEAN
  BY DEF Finally, IInv, TypeOK, Owns

---------------------------------------------------------------------------
(* The invariant. *)

\* The invariant holds initially.
LEMMA InitIInv == Init => IInv
  BY StreamAssumption
     DEF Init, IInv, TypeOK, Phases, Owns, Timers, IntervalFor, LossIsPolled

\* Every step keeps the invariant.
LEMMA NextIInv == IInv /\ [Next]_vars => IInv'
  <1> SUFFICES ASSUME IInv, [Next]_vars
               PROVE  IInv'
    OBVIOUS
  <1> USE DEF IInv
  <1>1. CASE Poll \/ RefreshDone \/ FallbackEnds
    <2>1. TypeOK'
      BY <1>1 DEF Poll, RefreshDone, FallbackEnds, TypeOK, supervision, ending
    <2>3. Owns'
      BY <1>1 DEF Poll, RefreshDone, FallbackEnds, Owns, supervision
    <2>4. Phases'
      BY <1>1 DEF Poll, RefreshDone, FallbackEnds, Phases, TypeOK, supervision,
                  ending
    <2>2. Timers'
      BY <1>1 DEF Poll, RefreshDone, FallbackEnds, TypeOK, Timers, LossIsPolled,
                  IntervalFor, supervision, ending
    <2>5. QED
      BY <2>1, <2>2, <2>3, <2>4
  <1>2. CASE Subscribed \/ ConnectionLost
    BY <1>2 DEF Subscribed, ConnectionLost, Runs, TypeOK, Phases, Owns, Timers,
                LossIsPolled, IntervalFor, polling, ending
  <1>3. CASE Opened
    <2>1. SetState("streaming") /\ up' = up
      BY <1>3 DEF Opened, ending
    <2>2. QED
      BY <1>3, <2>1, SetStateGood, StreamAssumption
         DEF Opened, Runs, TypeOK, Phases, Owns, ending
  <1>4. ASSUME NEW r \in RetryAfters, AttemptFails(r)
        PROVE  IInv'
    <2>1. SetState("polling") /\ up' = up /\ Finally(FALSE) /\ UNCHANGED conn
      BY <1>4 DEF AttemptFails, ending
    <2>2. task \in {"subscribing", "opening", "receiving"} /\ ~cancelled
      BY <1>4 DEF AttemptFails, Runs
    <2>3. Timers' /\ Owns'
      BY <2>1, <2>2, SetStateGood, FinallyGood
    <2>4. r \in Nat /\ delay' \in Nat /\ asked' \in Nat /\ fails' \in Nat
      BY <1>4, StreamAssumption DEF AttemptFails, Greatest, Least, TypeOK
    <2>5. TypeOK'
      <3>1. /\ state' \in {"polling", "connecting", "streaming"}
            /\ interval' \in {"slow", "fast"} /\ timer' = timer
            /\ due' \in BOOLEAN /\ fallback' \in BOOLEAN
            /\ overlooked' \in BOOLEAN
        BY <2>1, SetStateGood
      <3>2. /\ task' \in {"none", "closing", "sleeping"}
            /\ held' \in BOOLEAN /\ raising' \in BOOLEAN
        BY <2>1, <2>2, FinallyGood
      <3>3. UNCHANGED <<entry, up, stopping, stop, conn, cancelled>>
        BY <1>4 DEF AttemptFails, ending
      <3>4. QED
        BY <2>4, <3>1, <3>2, <3>3 DEF TypeOK
    <2>6. Phases'
      BY <1>4, <2>1, <2>2, SetStateGood DEF AttemptFails, Phases, TypeOK, ending
    <2>7. QED
      BY <2>3, <2>5, <2>6
  <1>5. CASE ReceiveStops
    <2>1. Finally(FALSE) /\ task = "receiving" /\ ~cancelled /\ UNCHANGED conn
      BY <1>5 DEF ReceiveStops, Runs
    <2>2. /\ Owns' /\ task' \in {"none", "closing", "sleeping"}
          /\ held' \in BOOLEAN /\ raising' \in BOOLEAN
      BY <2>1, FinallyGood
    <2>3. TypeOK'
      BY <1>5, <2>1, <2>2 DEF ReceiveStops, TypeOK, polling, ending
    <2>4. Phases'
      BY <1>5, <2>1 DEF ReceiveStops, Phases, polling, ending
    <2>5. Timers'
      BY <1>5 DEF ReceiveStops, Timers, LossIsPolled, IntervalFor, polling,
                  ending
    <2>6. QED
      BY <2>2, <2>3, <2>4, <2>5
  <1>6. CASE Closed
    BY <1>6 DEF Closed, Runs, TypeOK, Phases, Owns, Timers, LossIsPolled,
                IntervalFor, polling, ending
  <1>7. CASE Slept
    <2>1. SetState("connecting") /\ up' = up /\ delay' \in Nat
      BY <1>7, StreamAssumption DEF Slept, Least, TypeOK, ending
    <2>2. QED
      BY <1>7, <2>1, SetStateGood
         DEF Slept, Runs, TypeOK, Phases, Owns, ending
  <1>8. CASE Cancelled
    <2>1. CASE task = "closing"
      BY <1>8, <2>1 DEF Cancelled, TypeOK, Phases, Owns, Timers, LossIsPolled,
                        IntervalFor, polling, ending
    <2>2. CASE task # "closing"
      <3>1. Finally(TRUE) /\ UNCHANGED conn
        BY <1>8, <2>2 DEF Cancelled
      <3>2. QED
        BY <1>8, <2>2, <3>1, FinallyGood
           DEF Cancelled, TypeOK, Phases, Timers, LossIsPolled, IntervalFor,
               polling, ending
    <2>3. QED
      BY <2>1, <2>2
  <1>9. CASE StopClosed \/ StopJoined
    <2>1. TypeOK'
      BY <1>9 DEF StopClosed, StopJoined, Shutdown, TypeOK, polling
    <2>2. Phases'
      BY <1>9 DEF StopClosed, StopJoined, Shutdown, Phases, TypeOK, polling
    <2>3. Owns'
      BY <1>9 DEF StopClosed, StopJoined, Owns, TypeOK
    <2>4. Timers'
      BY <1>9 DEF StopClosed, StopJoined, Shutdown, Timers, LossIsPolled,
                  IntervalFor, polling
    <2>5. QED
      BY <2>1, <2>2, <2>3, <2>4
  <1>10. CASE SetUp \/ SetUpFails
    <2>1. TypeOK'
      BY <1>10 DEF SetUp, SetUpFails, Shutdown, TypeOK, supervision
    <2>2. Phases'
      BY <1>10 DEF SetUp, SetUpFails, Shutdown, Phases, TypeOK, supervision
    <2>3. Owns'
      BY <1>10 DEF SetUp, SetUpFails, Owns, supervision
    <2>4. Timers'
      BY <1>10 DEF SetUp, SetUpFails, Shutdown, Timers, LossIsPolled,
                   IntervalFor
    <2>5. QED
      BY <2>1, <2>2, <2>3, <2>4
  <1>11. CASE StartStream
    <2>1. SetState("connecting") /\ up' = up
      BY <1>11 DEF StartStream
    <2>2. /\ Timers' /\ state' = "connecting"
          /\ interval' \in {"slow", "fast"} /\ timer' = timer
          /\ due' \in BOOLEAN /\ fallback' \in BOOLEAN /\ overlooked' \in BOOLEAN
      BY <2>1, SetStateGood
    <2>3. TypeOK'
      BY <1>11, <2>2, StreamAssumption DEF StartStream, TypeOK
    <2>4. Phases' /\ Owns'
      BY <1>11 DEF StartStream, Phases, Owns, TypeOK
    <2>5. QED
      BY <2>2, <2>3, <2>4
  <1>12. CASE Forwarded \/ UnloadFails
    BY <1>12 DEF Forwarded, UnloadFails, TypeOK, Phases, Owns, Timers,
                 LossIsPolled, IntervalFor, supervision, polling
  <1>13. CASE ForwardFails \/ Unload
    <2>1. TypeOK'
      <3>1. BeginStop /\ UNCHANGED <<supervision, polling, up, state>>
        BY <1>13 DEF ForwardFails, Unload
      <3>2. entry' = "stopping" /\ stopping' = TRUE
                /\ stop' \in {"closing", "joining"}
        BY <3>1 DEF BeginStop
      <3>3. cancelled' \in BOOLEAN
        BY <3>1 DEF BeginStop, TypeOK
      <3>4. QED
        BY <3>1, <3>2, <3>3 DEF TypeOK, supervision, polling
    <2>2. Phases'
      BY <1>13 DEF ForwardFails, Unload, BeginStop, Phases, TypeOK, supervision,
                   polling
    <2>3. Owns'
      BY <1>13 DEF ForwardFails, Unload, Owns, supervision
    <2>4. Timers'
      BY <1>13 DEF ForwardFails, Unload, Timers, LossIsPolled, IntervalFor,
                   polling
    <2>5. QED
      BY <2>1, <2>2, <2>3, <2>4
  <1>14. CASE UNCHANGED vars
    BY <1>14 DEF vars, TypeOK, Phases, Owns, Timers, LossIsPolled, IntervalFor,
                 supervision, polling, ending
  <1>15. QED
    BY <1>1, <1>2, <1>3, <1>4, <1>5, <1>6, <1>7, <1>8, <1>9, <1>10, <1>11,
       <1>12, <1>13, <1>14 DEF Next, Supervises

\* The invariant always holds.
LEMMA Invariant == Spec => []IInv
  BY InitIInv, NextIInv, PTL DEF Spec

---------------------------------------------------------------------------
(* Theorems. *)

\* Every variable has its type.
THEOREM StreamTypes == Spec => []TypeOK
  <1>1. IInv => TypeOK
    BY DEF IInv
  <1>2. QED
    BY <1>1, Invariant, PTL

\* An entry that is down has left nothing running, at whatever await async_stop
\* found the supervision and wherever set-up failed.
THEOREM NothingLeft == Spec => []NothingLeftRunning
  <1>1. IInv => NothingLeftRunning
    BY DEF IInv, Phases, Owns, NothingLeftRunning
  <1>2. QED
    BY <1>1, Invariant, PTL

\* A lost stream is followed by a refresh before the slow timer, but for the
\* moment that overlooked records.
THEOREM LossPolled == Spec => []LossIsPolled
  <1>1. IInv => LossIsPolled
    BY DEF IInv, Timers
  <1>2. QED
    BY <1>1, Invariant, PTL

---------------------------------------------------------------------------
(* The backoff.  What the doubling requires is defined by recursion, so     *)
(* that the function exists has to be proved first, by induction on how     *)
(* many failures it counts.                                                 *)

\* A set of numbers with zero and every successor holds them all.
LEMMA NatSetInduction ==
    ASSUME NEW S, 0 \in S, \A n \in Nat : n \in S => n + 1 \in S
    PROVE  Nat \subseteq S
  <1> DEFINE T == Nat \ S
  <1>1. SUFFICES ASSUME T # {} PROVE FALSE
    OBVIOUS
  <1>2. PICK n \in T : \A m \in T : ~ (<<m, n>> \in OpToRel(<, Nat))
    <2>1. T \subseteq Nat
      OBVIOUS
    <2> HIDE DEF T
    <2>2. QED
      BY ONLY <2>1, <1>1, NatLessThanWellFounded, WFMin, Zenon
  <1>3. n - 1 \in T /\ n - 1 \in Nat /\ n - 1 < n
    OBVIOUS
  <1>4. <<n - 1, n>> \in OpToRel(<, Nat)
    BY <1>3 DEF OpToRel
  <1>5. QED
    BY <1>2, <1>3, <1>4

\* The doubling has a value for every number of failures that is counted.
LEMMA DoubledExists ==
    \E f : f = [n \in 0 .. CountedFails |->
                   IF n = 0 THEN MinDelay ELSE 2 * f[n - 1]]
  <1> DEFINE Solves(f, m) ==
        f = [n \in 0 .. m |-> IF n = 0 THEN MinDelay ELSE 2 * f[n - 1]]
  <1> DEFINE S == {m \in Nat : \E f : Solves(f, m)}
  <1>1. 0 \in S
    <2> DEFINE f == [n \in 0 .. 0 |-> MinDelay]
    <2>1. Solves(f, 0)
      OBVIOUS
    <2>2. QED
      BY <2>1
  <1>2. ASSUME NEW m \in Nat, m \in S
        PROVE  m + 1 \in S
    <2>1. PICK f : Solves(f, m)
      BY <1>2
    <2> DEFINE g == [n \in 0 .. m + 1 |->
                        IF n = m + 1 THEN 2 * f[m] ELSE f[n]]
    <2>2. \A n \in 0 .. m : f[n] = IF n = 0 THEN MinDelay ELSE 2 * f[n - 1]
      BY <2>1
    <2>3. \A n \in 0 .. m : n \in 0 .. m + 1 /\ g[n] = f[n]
      OBVIOUS
    <2>4. m + 1 \in 0 .. m + 1 /\ m + 1 # 0 /\ m \in 0 .. m
          /\ (m + 1) - 1 = m /\ g[m + 1] = 2 * f[m]
      OBVIOUS
    <2>5. g = [n \in 0 .. m + 1 |-> g[n]]
      OBVIOUS
    <2> HIDE DEF g
    <2>6. \A n \in 0 .. m + 1 :
              g[n] = IF n = 0 THEN MinDelay ELSE 2 * g[n - 1]
      <3> SUFFICES ASSUME NEW n \in 0 .. m + 1
                   PROVE  g[n] = IF n = 0 THEN MinDelay ELSE 2 * g[n - 1]
        OBVIOUS
      <3>1. CASE n = m + 1
        BY <2>3, <2>4, <3>1
      <3>2. CASE n = 0
        <4>1. 0 \in 0 .. m
          OBVIOUS
        <4>2. QED
          BY <2>2, <2>3, <3>2, <4>1
      <3>3. CASE n \in 1 .. m
        <4>1. n - 1 \in 0 .. m /\ n \in 0 .. m /\ n # 0
          BY <3>3
        <4>2. g[n - 1] = f[n - 1] /\ g[n] = f[n] /\ f[n] = 2 * f[n - 1]
          BY <2>2, <2>3, <4>1
        <4>3. QED
          BY <4>1, <4>2
      <3>4. QED
        BY <3>1, <3>2, <3>3
    <2>7. Solves(g, m + 1)
      BY <2>5, <2>6
    <2>8. QED
      BY <2>7
  <1>3. CountedFails \in S
    <2> HIDE DEF S
    <2>1. QED
      BY <1>1, <1>2, NatSetInduction, StreamAssumption
  <1>4. QED
    BY <1>3

\* It begins with the shortest delay and doubles.
LEMMA DoubledValues ==
    /\ Doubled[0] = MinDelay
    /\ \A n \in 0 .. CountedFails - 1 : Doubled[n + 1] = 2 * Doubled[n]
  <1>1. Doubled = [n \in 0 .. CountedFails |->
                      IF n = 0 THEN MinDelay ELSE 2 * Doubled[n - 1]]
    BY DoubledExists DEF Doubled
  <1>2. CountedFails \in Nat \ {0}
    BY StreamAssumption
  <1>3. Doubled[0] = MinDelay
    BY <1>1, <1>2
  <1>4. ASSUME NEW n \in 0 .. CountedFails - 1
        PROVE  Doubled[n + 1] = 2 * Doubled[n]
    <2>1. n + 1 \in 0 .. CountedFails /\ n + 1 # 0 /\ (n + 1) - 1 = n
      BY <1>2
    <2>2. QED
      BY <1>1, <2>1
  <1>5. QED
    BY <1>3, <1>4

\* Every wait is a number, and one failure more never asks for a shorter one.
LEMMA DoubledGrows ==
    /\ \A n \in 0 .. CountedFails : Doubled[n] \in Nat
    /\ \A n \in 0 .. CountedFails - 1 : Doubled[n] <= Doubled[n + 1]
  <1> DEFINE S == {m \in Nat : m <= CountedFails => Doubled[m] \in Nat}
  <1>1. CountedFails \in Nat /\ MinDelay \in Nat
    BY StreamAssumption
  <1>2. 0 \in S
    BY <1>1, DoubledValues
  <1>3. ASSUME NEW m \in Nat, m \in S
        PROVE  m + 1 \in S
    <2> SUFFICES ASSUME m + 1 <= CountedFails
                 PROVE  Doubled[m + 1] \in Nat
      OBVIOUS
    <2>1. Doubled[m] \in Nat /\ m \in 0 .. CountedFails - 1
      BY <1>1, <1>3
    <2>2. QED
      BY <2>1, DoubledValues
  <1>4. Nat \subseteq S
    <2> HIDE DEF S
    <2>1. QED
      BY <1>2, <1>3, NatSetInduction
  <1>5. \A n \in 0 .. CountedFails : Doubled[n] \in Nat
    BY <1>1, <1>4
  <1>6. ASSUME NEW n \in 0 .. CountedFails - 1
        PROVE  Doubled[n] <= Doubled[n + 1]
    <2>1. n \in 0 .. CountedFails /\ Doubled[n + 1] = 2 * Doubled[n]
      BY <1>1, DoubledValues
    <2>2. QED
      BY <1>5, <2>1
  <1>7. QED
    BY <1>5, <1>6

\* The delay on the way to an attempt already counts the next failure; the
\* delay of a wait, also of one whose connection is still being closed, is the
\* one that failure asked for.
Backoff ==
    /\ fails \in 0 .. CountedFails
    /\ task \in {"subscribing", "opening", "receiving"} =>
           Least(MaxDelay, Doubled[fails]) <= delay /\ delay <= MaxDelay
    /\ task = "sleeping" \/ (task = "closing" /\ ~raising /\ ~stopping) =>
           /\ delay >= asked
           /\ fails > 0 /\ delay >= Least(MaxDelay, Doubled[fails - 1])
           /\ delay <= Greatest(MaxDelay, asked)

\* One failure more, and the delay the next attempt waits for.
LEMMA FailureWaits ==
    ASSUME IInv, Backoff, NEW r \in RetryAfters, AttemptFails(r)
    PROVE  /\ fails' \in 1 .. CountedFails
           /\ delay' >= asked' /\ delay' >= Least(MaxDelay, Doubled[fails' - 1])
           /\ delay' <= Greatest(MaxDelay, asked')
  <1>1. /\ Least(MaxDelay, Doubled[fails]) <= delay /\ delay <= MaxDelay
        /\ fails \in 0 .. CountedFails
    BY DEF Backoff, AttemptFails, Runs
  <1>2. /\ delay \in Nat /\ MaxDelay \in Nat /\ r \in Nat
        /\ CountedFails \in Nat \ {0}
    BY StreamAssumption DEF IInv, TypeOK
  <1>3. delay' = Greatest(delay, r) /\ asked' = r
        /\ fails' = Least(CountedFails, fails + 1)
    BY DEF AttemptFails
  <1>4. delay' >= r /\ delay' >= delay /\ delay' <= Greatest(MaxDelay, r)
    BY <1>1, <1>2, <1>3 DEF Greatest
  <1>5. /\ fails' \in 1 .. CountedFails
        /\ \/ fails' - 1 = fails
           \/ fails' - 1 = fails - 1 /\ fails = CountedFails
    BY <1>1, <1>2, <1>3 DEF Least
  <1>6. /\ Doubled[fails' - 1] <= Doubled[fails]
        /\ Doubled[fails' - 1] \in Nat /\ Doubled[fails] \in Nat
    <2>1. CASE fails' - 1 = fails
      BY <1>1, <1>2, <2>1, DoubledGrows
    <2>2. CASE fails' - 1 = fails - 1 /\ fails = CountedFails
      <3>1. fails - 1 \in 0 .. CountedFails - 1 /\ fails \in 0 .. CountedFails
            /\ fails - 1 \in 0 .. CountedFails /\ (fails - 1) + 1 = fails
        BY <1>2, <2>2
      <3>2. QED
        BY <2>2, <3>1, DoubledGrows
    <2>3. QED
      BY <1>5, <2>1, <2>2
  <1>7. delay' >= Least(MaxDelay, Doubled[fails' - 1])
    <2>1. delay' \in Nat
      BY <1>2, <1>3 DEF Greatest
    <2>2. QED
      BY <1>1, <1>2, <1>4, <1>6, <2>1 DEF Least
  <1>8. QED
    BY <1>3, <1>4, <1>5, <1>7

\* After a wait the doubling has caught up with the failures counted.
LEMMA WaitDoubles ==
    ASSUME IInv, Backoff, task = "sleeping", delay' = Least(MaxDelay, 2 * delay)
    PROVE  Least(MaxDelay, Doubled[fails]) <= delay' /\ delay' <= MaxDelay
  <1>1. /\ delay \in Nat /\ MaxDelay \in Nat /\ CountedFails \in Nat \ {0}
        /\ fails \in 1 .. CountedFails
        /\ delay >= Least(MaxDelay, Doubled[fails - 1])
    BY StreamAssumption DEF IInv, TypeOK, Backoff
  <1>2. fails - 1 \in 0 .. CountedFails - 1 /\ (fails - 1) + 1 = fails
        /\ fails - 1 \in 0 .. CountedFails
    BY <1>1
  <1>3. Doubled[fails - 1] \in Nat /\ Doubled[fails] = 2 * Doubled[fails - 1]
    BY <1>2, DoubledValues, DoubledGrows
  <1>4. QED
    BY <1>1, <1>3 DEF Least

\* Every step keeps the bound of the delays.
LEMMA NextBackoff == IInv /\ Backoff /\ [Next]_vars => Backoff'
  <1> SUFFICES ASSUME IInv, Backoff, [Next]_vars
               PROVE  Backoff'
    OBVIOUS
  <1>1. CASE /\ UNCHANGED <<task, raising, delay, asked, fails>>
             /\ stopping' = stopping \/ stopping' = TRUE
    BY <1>1 DEF Backoff
  <1>2. ASSUME NEW r \in RetryAfters, AttemptFails(r)
        PROVE  Backoff'
    <2>1. task' \in {"none", "closing", "sleeping"}
      BY <1>2, FinallyGood DEF AttemptFails, Runs
    <2>2. fails' \in 0 .. CountedFails /\ fails' > 0
      BY <1>2, FailureWaits, StreamAssumption
    <2>3. QED
      BY <1>2, <2>1, <2>2, FailureWaits DEF Backoff
  <1>3. CASE Opened \/ StartStream
    <2>1. /\ task' \in {"subscribing", "receiving"}
          /\ delay' = MinDelay /\ fails' = 0
      BY <1>3 DEF Opened, StartStream
    <2>2. /\ MinDelay \in Nat /\ MaxDelay \in Nat /\ MinDelay <= MaxDelay
          /\ CountedFails \in Nat
      BY StreamAssumption
    <2>3. Least(MaxDelay, Doubled[fails']) <= delay' /\ delay' <= MaxDelay
      BY <2>1, <2>2, DoubledValues DEF Least
    <2>4. QED
      BY <2>1, <2>2, <2>3 DEF Backoff
  <1>4. CASE Subscribed
    BY <1>4 DEF Subscribed, Runs, Backoff
  <1>5. CASE ReceiveStops
    <2>1. /\ stopping' /\ UNCHANGED fails /\ task' \in {"none", "closing"}
      BY <1>5 DEF ReceiveStops, Finally, ending
    <2>2. QED
      BY <2>1 DEF Backoff
  <1>6. CASE Closed
    <2>1. /\ task = "closing" /\ UNCHANGED <<delay, asked, fails>>
          /\ task' = IF stopping \/ raising THEN "none" ELSE "sleeping"
      BY <1>6 DEF Closed, Runs
    <2>2. QED
      BY <2>1 DEF Backoff
  <1>7. CASE Slept
    <2>1. /\ task = "sleeping" /\ task' = "subscribing" /\ UNCHANGED fails
          /\ delay' = Least(MaxDelay, 2 * delay)
      BY <1>7 DEF Slept, Runs
    <2>2. QED
      BY <2>1, WaitDoubles DEF Backoff
  <1>8. CASE Cancelled
    <2>1. /\ UNCHANGED fails
          /\ task' = "none" \/ (task' = "closing" /\ raising')
      BY <1>8 DEF Cancelled, Finally
    <2>2. QED
      BY <2>1 DEF Backoff
  <1>9. QED
    BY <1>1, <1>2, <1>3, <1>4, <1>5, <1>6, <1>7, <1>8
    DEF Next, Supervises, Poll, RefreshDone, FallbackEnds, ConnectionLost,
        StopClosed, StopJoined, SetUp, SetUpFails, Forwarded, ForwardFails,
        Unload, UnloadFails, BeginStop, vars, supervision, ending

\* Whatever the cloud asks for and however often the stream fails, an attempt is
\* preceded by a wait as long as the cloud asked and as the doubling requires,
\* and no longer than the larger of the limit and what the cloud asked.
THEOREM BackoffKept == Spec => []BackoffHonoured
  <1>1. Init => Backoff
    BY StreamAssumption DEF Init, Backoff
  <1>2. Backoff => BackoffHonoured
    BY DEF Backoff, BackoffHonoured
  <1>3. QED
    BY <1>1, <1>2, NextBackoff, Invariant, PTL DEF Spec
===========================================================================
