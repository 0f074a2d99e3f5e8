--------------------- MODULE CommandTransactionProofs ---------------------
(***************************************************************************)
(* Proofs about the command path, for any number of callers and beverages, *)
(* either machine profile and any environment the constants describe.      *)
(***************************************************************************)
EXTENDS CommandTransaction, TLAPS

USE DEF callVars, lockVars, recipeVars, sessionVars, machineVars

\* The variables have their types initially.
LEMMA InitTypeOK == Init => TypeOK
  BY ConstantsAssumption
  DEF Init, TypeOK, Locations, Resting, Holding, Writing, Blank, Locals, Results,
      OwnIds, AppIds, Monitors

\* A record of Locals stays one when a snapshot is taken or it is blanked.
LEMMA LocalTypes ==
  ASSUME TypeOK, NEW l \in Locals
  PROVE  Snapshot(l) \in Locals /\ Blank \in Locals
  BY DEF TypeOK, Snapshot, Blank, Locals

\* A command that ends keeps the types.
LEMMA RestsType ==
  ASSUME TypeOK, NEW c \in Callers, NEW outcome \in Resting, Rests(c, outcome)
  PROVE  /\ pc' \in [Callers -> Locations]
         /\ command' \in [Callers -> Commands \cup {NoCommand}]
         /\ local' \in [Callers -> Locals]
  BY DEF TypeOK, Rests, Locations, Resting, Holding, Writing, Blank, Locals

\* So does a failure, published or not.
LEMMA FailsType ==
  ASSUME TypeOK, NEW c \in Callers, NEW k, NEW result \in Results,
         Fails(c, k, result)
  PROVE  /\ pc' \in [Callers -> Locations]
         /\ command' \in [Callers -> Commands \cup {NoCommand}]
         /\ local' \in [Callers -> Locals]
         /\ lastResult' \in Results
         /\ commandLock' \in Callers \cup {NoOne}
         /\ sessionLock' \in Callers \cup {NoOne}
  <1>1. Rests(c, "failed") /\ "failed" \in Resting
    BY DEF Fails, Resting
  <1>2. lastResult' \in Results
    BY DEF Fails, Publish, TypeOK
  <1>3. QED
    BY <1>1, <1>2, RestsType DEF Fails, Release

\* So does the completion of a command.
LEMMA CompletesType ==
  ASSUME TypeOK, NEW c \in Callers, NEW result \in Results,
         NEW wrote \in BOOLEAN, Completes(c, result, wrote)
  PROVE  /\ pc' \in [Callers -> Locations]
         /\ command' \in [Callers -> Commands \cup {NoCommand}]
         /\ local' \in [Callers -> Locals]
         /\ lastResult' \in Results
         /\ commandLock' \in Callers \cup {NoOne}
         /\ sessionLock' \in Callers \cup {NoOne}
         /\ active' \in Beverages \cup {NoBeverage}
  <1>1. pc' \in [Callers -> Locations]
    BY DEF TypeOK, Completes, Locations, Resting, Holding, Writing
  <1>2. local' \in [Callers -> Locals]
    BY DEF TypeOK, Completes, Blank, Locals
  <1>3. command' \in [Callers -> Commands \cup {NoCommand}]
    BY DEF TypeOK, Completes
  <1>4. lastResult' \in Results
    BY DEF TypeOK, Completes, Publish
  <1>5. active' \in Beverages \cup {NoBeverage}
    <2>1. command[c] \in Commands \cup {NoCommand}
      BY DEF TypeOK
    <2>2. command[c].kind = "start" => command[c].beverage \in Beverages
      BY <2>1 DEF Commands, NoCommand, OnBeverage
    <2>3. QED
      BY <2>2 DEF TypeOK, Completes
  <1>6. QED
    BY <1>1, <1>2, <1>3, <1>4, <1>5 DEF Completes, Release

\* So does what a failed start leaves for Stop.
LEMMA KeepsType ==
  ASSUME TypeOK, NEW c \in Callers, NEW status,
         KeepsBeverage(c, status) \/ UNCHANGED active
  PROVE  active' \in Beverages \cup {NoBeverage}
  <1>1. command[c].kind = "start" => command[c].beverage \in Beverages
    BY DEF TypeOK, Commands, NoCommand, OnBeverage
  <1>2. QED
    BY <1>1 DEF TypeOK, KeepsBeverage

\* So does the beginning of the writes.
LEMMA SendsType ==
  ASSUME TypeOK, NEW c \in Callers, NEW k \in Commands \cup {NoCommand},
         NEW result \in Results, Sends(c, k, result)
  PROVE  /\ pc' \in [Callers -> Locations]
         /\ command' \in [Callers -> Commands \cup {NoCommand}]
         /\ local' \in [Callers -> Locals]
         /\ lastResult' \in Results
         /\ commandLock' \in Callers \cup {NoOne}
         /\ sessionLock' \in Callers \cup {NoOne}
  <1>1. CASE Fails(c, k, "rejected")
    BY <1>1, FailsType DEF Results
  <1>2. CASE /\ pc' = [pc EXCEPT ![c] = FirstWrite(k)]
             /\ command' = [command EXCEPT ![c] = k]
             /\ local' = [local EXCEPT ![c] = Snapshot(@)]
             /\ lastResult' = result
             /\ commandLock' = c
             /\ sessionLock' = IF SessionRequired THEN c ELSE NoOne
    <2>1. pc' \in [Callers -> Locations]
      BY <1>2 DEF TypeOK, FirstWrite, Locations, Holding, Writing
    <2>2. local' \in [Callers -> Locals]
      BY <1>2, LocalTypes DEF TypeOK
    <2>3. QED
      BY <1>2, <2>1, <2>2 DEF TypeOK
  <1>3. QED
    BY <1>1, <1>2 DEF Sends


\* Every step keeps every variable in its type.
LEMMA StepTypeOK == TypeOK /\ [Next]_vars => TypeOK'
  <1> SUFFICES ASSUME TypeOK, [Next]_vars PROVE TypeOK'
    OBVIOUS
  <1>1. ASSUME NEW c \in Callers, Refuse(c) PROVE TypeOK'
    BY <1>1, RestsType DEF TypeOK, Refuse, Resting
  <1>2. ASSUME NEW c \in Callers, NEW k \in Commands, Accept(c, k) PROVE TypeOK'
    <2>1. CASE Sends(c, k, "pending")
      BY <1>2, <2>1, SendsType DEF Accept, TypeOK, Results
    <2>2. CASE /\ pc' = [pc EXCEPT ![c] = "fetch"]
               /\ command' = [command EXCEPT ![c] = k]
               /\ local' = [local EXCEPT ![c] = Blank]
               /\ lastResult' = "pending"
               /\ commandLock' = c
               /\ sessionLock' = c
      BY <1>2, <2>2, LocalTypes
      DEF Accept, TypeOK, Locations, Holding, Results
    <2>3. QED
      BY <1>2, <2>1, <2>2 DEF Accept
  <1>3. ASSUME NEW c \in Callers, NEW k \in Commands, SyncAccepted(c, k) PROVE TypeOK'
    BY <1>3 DEF SyncAccepted, TypeOK, Locations, Holding, Blank, Locals
  <1>4. ASSUME NEW c \in Callers, StopUnknown(c) \/ RejectRaw(c) PROVE TypeOK'
    BY <1>4, RestsType
    DEF StopUnknown, RejectRaw, RejectUnsent, TypeOK, Resting, Results
  <1>5. ASSUME NEW c \in Callers, SyncSkipped(c) PROVE TypeOK'
    BY <1>5, RestsType DEF TypeOK, SyncSkipped, Resting
  <1>6. ASSUME NEW c \in Callers, ReadAppId(c) PROVE TypeOK'
    BY <1>6 DEF ReadAppId, TypeOK, Locals
  <1>7. ASSUME NEW c \in Callers, FetchFails(c) PROVE TypeOK'
    BY <1>7, FailsType DEF FetchFails, TypeOK, Results
  <1>8. ASSUME NEW c \in Callers, SessionInUse(c) PROVE TypeOK'
    BY <1>8, FailsType DEF SessionInUse, TypeOK, Results
  <1>9. ASSUME NEW c \in Callers, SessionTimeout(c) PROVE TypeOK'
    BY <1>9, FailsType DEF SessionTimeout, TypeOK, Results
  <1>10. ASSUME NEW c \in Callers, AckRefused(c) PROVE TypeOK'
    BY <1>10, FailsType DEF AckRefused, TypeOK, Results
  <1>11. ASSUME NEW c \in Callers, AuthFails(c) PROVE TypeOK'
    <2>1. active' \in Beverages \cup {NoBeverage}
      BY <1>11, KeepsType DEF AuthFails
    <2>2. QED
      BY <1>11, <2>1, FailsType DEF AuthFails, TypeOK, Results
  <1>12. ASSUME NEW c \in Callers, SessionReused(c) PROVE TypeOK'
    BY <1>12, FailsType, SendsType DEF SessionReused, TypeOK, Results
  <1>13. ASSUME NEW c \in Callers, Connect(c) PROVE TypeOK'
    <2>1. local' \in [Callers -> Locals]
      <3>1. [local[c] EXCEPT !.appId = "none", !.claim = ownId] \in Locals
        BY DEF TypeOK, Locals
      <3>2. QED
        BY <1>13, <3>1 DEF Connect, TypeOK
    <2>2. pc' \in [Callers -> Locations]
      BY <1>13 DEF Connect, TypeOK, Locations, Holding
    <2>3. QED
      BY <1>13, <2>1, <2>2 DEF Connect, TypeOK
  <1>14. ASSUME NEW c \in Callers, ConnectPosted(c) PROVE TypeOK'
    <2>1. local[c].claim \in OwnIds \cup {"none"}
      BY DEF TypeOK, Locals
    <2>2. QED
      BY <1>14, <2>1 DEF ConnectPosted, TypeOK, Locations, Holding
  <1>15. ASSUME NEW c \in Callers, SessionConfirmed(c) PROVE TypeOK'
    BY <1>15, SendsType DEF SessionConfirmed, TypeOK
  <1>16. ASSUME NEW c \in Callers, RefreshSent(c) PROVE TypeOK'
    BY <1>16, LocalTypes
    DEF RefreshSent, TypeOK, Results, Locations, Holding, Writing
  <1>17. ASSUME NEW c \in Callers, NEW identified \in BOOLEAN, WriteAccepted(c, identified) PROVE TypeOK'
    <2>1. CASE Completes(c, "sent", TRUE)
      BY <1>17, <2>1, CompletesType DEF WriteAccepted, TypeOK, Results
    <2>2. CASE ~Completes(c, "sent", TRUE)
      <3>1. local' \in [Callers -> Locals]
        <4>1. [local[c] EXCEPT !.wrote = TRUE] \in Locals
          BY DEF TypeOK, Locals
        <4>2. local' = [local EXCEPT ![c] = [local[c] EXCEPT !.wrote = TRUE]]
          BY <1>17, <2>2 DEF WriteAccepted
        <4>3. QED
          BY <4>1, <4>2 DEF TypeOK
      <3>2. pc' \in [Callers -> Locations]
        BY <1>17, <2>2 DEF WriteAccepted, TypeOK, Locations, Holding, Writing
      <3>3. lastResult' \in Results
        BY <1>17, <2>2 DEF WriteAccepted, TypeOK, Publish, Results
      <3>4. QED
        BY <1>17, <2>2, <3>1, <3>2, <3>3 DEF WriteAccepted, TypeOK
    <2>3. QED
      BY <2>1, <2>2
  <1>18. ASSUME NEW c \in Callers, AckAccepted(c) PROVE TypeOK'
    <2>1. local[c].wrote \in BOOLEAN
      BY DEF TypeOK, Locals
    <2>2. QED
      BY <1>18, <2>1, CompletesType DEF AckAccepted, TypeOK, Results
  <1>19. ASSUME NEW c \in Callers, StateConfirms(c) PROVE TypeOK'
    <2>1. local[c].wrote \in BOOLEAN
      BY DEF TypeOK, Locals
    <2>2. QED
      BY <1>19, <2>1, CompletesType DEF StateConfirms, TypeOK, Results
  <1>20. ASSUME NEW c \in Callers, AckInconclusive(c) PROVE TypeOK'
    <2>1. local[c].wrote \in BOOLEAN
      BY DEF TypeOK, Locals
    <2>2. CASE Completes(c, "sent", local[c].wrote)
      BY <1>20, <2>1, <2>2, CompletesType DEF AckInconclusive, TypeOK, Results
    <2>3. CASE ~Completes(c, "sent", local[c].wrote)
      BY <1>20, <2>3
      DEF AckInconclusive, TypeOK, Locations, Holding, Writing
    <2>4. QED
      BY <2>2, <2>3
  <1>21. ASSUME NEW c \in Callers, ConfirmationTimeout(c) PROVE TypeOK'
    <2>1. active' \in Beverages \cup {NoBeverage}
      BY <1>21, KeepsType DEF ConfirmationTimeout
    <2>2. QED
      BY <1>21, <2>1, FailsType DEF ConfirmationTimeout, TypeOK, Results
  <1>22. ASSUME NEW c \in Callers, CloudFails(c) PROVE TypeOK'
    <2>1. local[c].claim \in OwnIds \cup {"none"}
      BY DEF TypeOK, Locals
    <2>2. active' \in Beverages \cup {NoBeverage}
      BY <1>22, KeepsType DEF CloudFails
    <2>3. QED
      BY <1>22, <2>1, <2>2, FailsType DEF CloudFails, TypeOK, Results
  <1>23. ASSUME NEW c \in Callers, SyncSettles(c) PROVE TypeOK'
    BY <1>23, RestsType DEF TypeOK, SyncSettles, Resting
  <1>24. ASSUME NEW c \in Callers, Cancel(c) PROVE TypeOK'
    BY <1>24, RestsType DEF TypeOK, Cancel, Resting
  <1>25. ASSUME Environment PROVE TypeOK'
    <2>1. ASSUME NEW id \in AppIds, HolderMoves(id) PROVE TypeOK'
      BY <2>1 DEF HolderMoves, TypeOK
    <2>2. ASSUME MachineConnects PROVE TypeOK'
      BY <2>2 DEF MachineConnects, TypeOK, OwnIds, AppIds
    <2>3. ASSUME ConnectAges PROVE TypeOK'
      BY <2>3 DEF ConnectAges, TypeOK
    <2>4. ASSUME NEW reading \in Monitors, MonitorMoves(reading) PROVE TypeOK'
      BY <2>4 DEF MonitorMoves, TypeOK, Locals
    <2>5. ASSUME ResponseMoves PROVE TypeOK'
      BY <2>5 DEF ResponseMoves, TypeOK, Locals
    <2>6. ASSUME NEW c \in Callers,
                 NEW verdict \in {"accepted", "refused", "unclear"},
                 AckArrives(c, verdict)
          PROVE TypeOK'
      <3>1. local' \in [Callers -> Locals]
        <4>1. /\ [local[c] EXCEPT !.ack = verdict, !.heard = TRUE] \in Locals
              /\ [local[c] EXCEPT !.ack = verdict] \in Locals
          BY DEF TypeOK, Locals
        <4>2. QED
          BY <2>6, <4>1 DEF AckArrives, TypeOK
      <3>2. QED
        BY <2>6, <3>1 DEF AckArrives, TypeOK
    <2>7. ASSUME NEW up \in BOOLEAN, StreamMoves(up) \/ OnlineMoves(up)
          PROVE TypeOK'
      BY <2>7 DEF StreamMoves, OnlineMoves, TypeOK
    <2>8. ASSUME NEW b \in Beverages, NEW wireStop \in BOOLEAN,
                 AppFrame(b, wireStop)
          PROVE TypeOK'
      BY <2>8 DEF AppFrame, TypeOK, OwnIds
    <2>9. ASSUME AppWakeFrame PROVE TypeOK'
      BY <2>9 DEF AppWakeFrame, TypeOK, OwnIds
    <2>10. QED
      BY <1>25, <2>1, <2>2, <2>3, <2>4, <2>5, <2>6, <2>7, <2>8, <2>9
      DEF Environment
  <1>26. CASE UNCHANGED vars
    BY <1>26 DEF vars, TypeOK
  <1>27. QED
    BY <1>1, <1>2, <1>3, <1>4, <1>5, <1>6, <1>7, <1>8, <1>9, <1>10,
         <1>11, <1>12, <1>13, <1>14, <1>15, <1>16, <1>17, <1>18, <1>19,
         <1>20, <1>21, <1>22, <1>23, <1>24, <1>25, <1>26
    DEF Next, Request, Progress

\* The variables of the command path keep their types, whatever the callers,
\* the app, the machine and the cloud do.
THEOREM TypeCorrect == Spec => []TypeOK
  <1>1. Init => TypeOK
    BY InitTypeOK
  <1>2. TypeOK /\ [Next]_vars => TypeOK'
    BY StepTypeOK
  <1>3. QED
    BY <1>1, <1>2, PTL DEF Spec


---------------------------------------------------------------------------
(* Mutual exclusion.  OneTransaction is inductive once the types are known: *)
(* a caller moves either under the free lock or under its own.              *)

\* The caller that may take the lock ends the step holding both locks or none.
LEMMA HolderMovesAlone ==
  ASSUME TypeOK, OneTransaction, NEW c \in Callers, NEW o \in Locations,
         commandLock \in {c, NoOne},
         pc' = [pc EXCEPT ![c] = o],
         \/ /\ o \in Holding
            /\ commandLock' = c
            /\ sessionLock' = IF SessionRequired THEN c ELSE NoOne
         \/ o \notin Holding /\ Release
  PROVE  OneTransaction'
  <1>1. \A d \in Callers : pc'[d] = IF d = c THEN o ELSE pc[d]
    BY DEF TypeOK
  <1>2. NoOne \notin Callers
    BY ConstantsAssumption
  <1>3. \A d \in Callers \ {c} : pc[d] \notin Holding
    BY <1>2 DEF OneTransaction
  <1>4. QED
    BY <1>1, <1>2, <1>3 DEF OneTransaction, Release, SessionRequired, UsesCloudSession

\* A caller outside the locks stays outside them.
LEMMA OutsiderStaysOut ==
  ASSUME TypeOK, OneTransaction, NEW c \in Callers, NEW o \in Locations \ Holding,
         pc[c] \notin Holding,
         pc' = [pc EXCEPT ![c] = o],
         UNCHANGED lockVars
  PROVE  OneTransaction'
  BY DEF TypeOK, OneTransaction, SessionRequired, UsesCloudSession

\* A failure leaves the lock free and its caller outside.
LEMMA FailsAlone ==
  ASSUME TypeOK, OneTransaction, NEW c \in Callers, NEW k, NEW result,
         commandLock \in {c, NoOne}, Fails(c, k, result)
  PROVE  OneTransaction'
  <1>1. pc' = [pc EXCEPT ![c] = "failed"] /\ Release
    BY DEF Fails, Rests
  <1>2. "failed" \in Locations \ Holding
    BY DEF Locations, Resting, Holding, Writing
  <1>3. QED
    BY <1>1, <1>2, HolderMovesAlone

\* So does the completion of a command.
LEMMA CompletesAlone ==
  ASSUME TypeOK, OneTransaction, NEW c \in Callers, NEW result, NEW wrote,
         commandLock \in {c, NoOne}, Completes(c, result, wrote)
  PROVE  OneTransaction'
  <1> DEFINE o == IF command[c].kind = "sync" THEN "settle" ELSE "done"
  <1>1. pc' = [pc EXCEPT ![c] = o] /\ Release
    BY DEF Completes
  <1>2. o \in Locations \ Holding
    BY DEF Locations, Resting, Holding, Writing
  <1> HIDE DEF o
  <1>3. QED
    BY <1>1, <1>2, HolderMovesAlone

\* The beginning of the writes keeps the one transaction.
LEMMA SendsAlone ==
  ASSUME TypeOK, OneTransaction, NEW c \in Callers, NEW k, NEW result,
         commandLock \in {c, NoOne}, Sends(c, k, result)
  PROVE  OneTransaction'
  <1>1. CASE Fails(c, k, "rejected")
    BY <1>1, FailsAlone
  <1>2. CASE ~Fails(c, k, "rejected")
    <2> DEFINE o == FirstWrite(k)
    <2>1. /\ pc' = [pc EXCEPT ![c] = o]
          /\ commandLock' = c
          /\ sessionLock' = IF SessionRequired THEN c ELSE NoOne
      BY <1>2 DEF Sends
    <2>2. o \in Holding /\ o \in Locations
      BY DEF FirstWrite, Locations, Holding, Writing
    <2> HIDE DEF o
    <2>3. QED
      BY <2>1, <2>2, HolderMovesAlone
  <1>3. QED
    BY <1>1, <1>2

\* Every step keeps the locks with the one caller inside a transaction.
LEMMA StepOneTransaction ==
  TypeOK /\ OneTransaction /\ [Next]_vars => OneTransaction'
  <1> SUFFICES ASSUME TypeOK, OneTransaction, [Next]_vars PROVE OneTransaction'
    OBVIOUS
  <1> USE ConstantsAssumption
  <1>1. \A c \in Callers : pc[c] \in Holding <=> commandLock = c
    BY DEF OneTransaction
  <1>2. \A c \in Callers : pc[c] \in Resting => pc[c] \notin Holding
    BY DEF Resting, Holding, Writing
  <1>3. "failed" \in Locations \ Holding /\ "idle" \in Locations \ Holding
    BY DEF Locations, Resting, Holding, Writing
  <1>4. ASSUME NEW c \in Callers, Refuse(c) PROVE OneTransaction'
    BY <1>4, <1>2, <1>3, OutsiderStaysOut DEF Refuse, Rests
  <1>5. ASSUME NEW c \in Callers, StopUnknown(c) \/ RejectRaw(c) PROVE OneTransaction'
    BY <1>5, <1>2, <1>3, OutsiderStaysOut
    DEF StopUnknown, RejectRaw, RejectUnsent, Rests
  <1>6. ASSUME NEW c \in Callers, SyncSkipped(c) PROVE OneTransaction'
    BY <1>6, <1>2, <1>3, OutsiderStaysOut DEF SyncSkipped, Rests
  <1>7. ASSUME NEW c \in Callers, NEW k \in Commands, Accept(c, k)
        PROVE  OneTransaction'
    <2>1. commandLock = NoOne
      BY <1>7 DEF Accept, Locked
    <2>2. CASE Sends(c, k, "pending")
      BY <2>1, <2>2, SendsAlone
    <2>3. CASE ~Sends(c, k, "pending")
      <3>1. /\ pc' = [pc EXCEPT ![c] = "fetch"]
            /\ commandLock' = c
            /\ sessionLock' = IF SessionRequired THEN c ELSE NoOne
        BY <1>7, <2>3 DEF Accept
      <3>2. "fetch" \in Holding /\ "fetch" \in Locations
        BY DEF Locations, Holding
      <3>3. QED
        BY <2>1, <3>1, <3>2, HolderMovesAlone
    <2>4. QED
      BY <2>2, <2>3
  <1>8. ASSUME NEW c \in Callers, NEW k \in Commands, SyncAccepted(c, k)
        PROVE  OneTransaction'
    <2>1. CASE UsesCloudSession
      <3>1. /\ commandLock = NoOne
            /\ pc' = [pc EXCEPT ![c] = "fetch"]
            /\ commandLock' = c
            /\ sessionLock' = IF SessionRequired THEN c ELSE NoOne
        BY <1>8, <2>1 DEF SyncAccepted, SyncPossible, Locked, SessionRequired
      <3>2. "fetch" \in Holding /\ "fetch" \in Locations
        BY DEF Locations, Holding
      <3>3. QED
        BY <3>1, <3>2, HolderMovesAlone
    <2>2. CASE ~UsesCloudSession
      <3>1. /\ pc[c] \notin Holding
            /\ pc' = [pc EXCEPT ![c] = "settle"]
            /\ UNCHANGED lockVars
        BY <1>8, <2>2, <1>2 DEF SyncAccepted
      <3>2. "settle" \in Locations \ Holding
        BY DEF Locations, Holding, Writing
      <3>3. QED
        BY <3>1, <3>2, OutsiderStaysOut
    <2>3. QED
      BY <2>1, <2>2
  <1>9. ASSUME NEW c \in Callers,
               \/ ReadAppId(c) \/ FetchFails(c) \/ SessionInUse(c)
               \/ SessionReused(c) \/ Connect(c) \/ ConnectPosted(c)
               \/ SessionConfirmed(c) \/ SessionTimeout(c)
        PROVE  OneTransaction'
    <2>1. commandLock = c
      BY <1>9, <1>1
      DEF ReadAppId, FetchFails, SessionInUse, SessionReused, Connect,
          ConnectPosted, SessionConfirmed, SessionTimeout, Holding
    <2>2. CASE ReadAppId(c)
      BY <2>2 DEF ReadAppId, OneTransaction, SessionRequired, UsesCloudSession
    <2>3. CASE \E k, result : Fails(c, k, result)
      BY <2>1, <2>3, FailsAlone
    <2>4. CASE \E k, result : Sends(c, k, result)
      BY <2>1, <2>4, SendsAlone
    <2>5. CASE Connect(c) \/ ConnectPosted(c)
      <3>1. PICK o \in {"post", "confirm"} :
                pc' = [pc EXCEPT ![c] = o] /\ UNCHANGED lockVars
        BY <2>5 DEF Connect, ConnectPosted
      <3>2. o \in Holding /\ o \in Locations
        BY <3>1 DEF Holding, Locations
      <3>3. sessionLock' = IF SessionRequired THEN c ELSE NoOne
        BY <2>1, <3>1 DEF OneTransaction
      <3>4. QED
        BY <2>1, <3>1, <3>2, <3>3, HolderMovesAlone
    <2>6. QED
      BY <1>9, <2>2, <2>3, <2>4, <2>5
      DEF FetchFails, SessionInUse, SessionReused, SessionConfirmed,
          SessionTimeout
  <1>10. ASSUME NEW c \in Callers,
                \/ RefreshSent(c)
                \/ \E identified \in BOOLEAN : WriteAccepted(c, identified)
                \/ AckAccepted(c) \/ AckRefused(c) \/ AckInconclusive(c)
                \/ StateConfirms(c) \/ ConfirmationTimeout(c)
                \/ CloudFails(c) \/ AuthFails(c)
         PROVE  OneTransaction'
    <2>1. commandLock = c
      BY <1>10, <1>1
      DEF RefreshSent, WriteAccepted, AckAccepted, AckRefused, AckInconclusive,
          StateConfirms, ConfirmationTimeout, CloudFails, AuthFails, Holding,
          Writing
    <2>2. CASE \E k, result : Fails(c, k, result)
      BY <2>1, <2>2, FailsAlone
    <2>3. CASE \E result, wrote : Completes(c, result, wrote)
      BY <2>1, <2>3, CompletesAlone
    <2>4. CASE \E o \in Writing :
                   pc' = [pc EXCEPT ![c] = o] /\ UNCHANGED lockVars
      <3>1. PICK o \in Writing :
                pc' = [pc EXCEPT ![c] = o] /\ UNCHANGED lockVars
        BY <2>4
      <3>2. o \in Holding /\ o \in Locations
        BY <3>1 DEF Holding, Locations
      <3>3. sessionLock' = IF SessionRequired THEN c ELSE NoOne
        BY <2>1, <3>1 DEF OneTransaction
      <3>4. QED
        BY <2>1, <3>1, <3>2, <3>3, HolderMovesAlone
    <2>5. QED
      BY <1>10, <2>2, <2>3, <2>4
      DEF RefreshSent, WriteAccepted, AckAccepted, AckRefused, AckInconclusive,
          StateConfirms, ConfirmationTimeout, CloudFails, AuthFails, Writing
  <1>11. ASSUME NEW c \in Callers, SyncSettles(c) PROVE OneTransaction'
    <2>1. pc[c] \notin Holding
      BY <1>11 DEF SyncSettles, Holding, Writing
    <2>2. QED
      BY <1>11, <2>1, <1>3, OutsiderStaysOut DEF SyncSettles, Rests
  <1>12. ASSUME NEW c \in Callers, Cancel(c) PROVE OneTransaction'
    <2>1. pc' = [pc EXCEPT ![c] = "idle"]
      BY <1>12 DEF Cancel, Rests
    <2>2. CASE commandLock = c
      <3>1. Release
        BY <1>12, <2>2 DEF Cancel, Release, OneTransaction
      <3>2. QED
        BY <2>1, <2>2, <3>1, <1>3, HolderMovesAlone
    <2>3. CASE commandLock # c
      <3>1. UNCHANGED lockVars
        BY <1>12, <2>3 DEF Cancel, OneTransaction
      <3>2. QED
        BY <2>1, <2>3, <3>1, <1>1, <1>3, OutsiderStaysOut
    <2>4. QED
      BY <2>2, <2>3
  <1>13. CASE UNCHANGED <<pc, lockVars>>
    BY <1>13 DEF OneTransaction, SessionRequired, UsesCloudSession
  <1>14. ASSUME Environment PROVE UNCHANGED <<pc, lockVars>>
    BY <1>14
    DEF Environment, HolderMoves, MachineConnects, ConnectAges, MonitorMoves,
        ResponseMoves, AckArrives, StreamMoves, OnlineMoves, AppFrame,
        AppWakeFrame
  <1>15. CASE UNCHANGED vars
    BY <1>15, <1>13 DEF vars
  <1>16. QED
    BY <1>4, <1>5, <1>6, <1>7, <1>8, <1>9, <1>10, <1>11, <1>12, <1>13,
         <1>14, <1>15
    DEF Next, Request, Progress

\* No two callers are ever inside a transaction, and the two locks are held by
\* the one that is: the second lock never makes anybody wait.
THEOREM MutualExclusion == Spec => []OneTransaction
  <1>1. Init => OneTransaction
    BY ConstantsAssumption
    DEF Init, OneTransaction, Holding, Writing
  <1>2. TypeOK /\ OneTransaction /\ [Next]_vars => OneTransaction'
    BY StepOneTransaction
  <1>3. QED
    BY <1>1, <1>2, TypeCorrect, PTL DEF Spec

---------------------------------------------------------------------------
(* Sessions.  WritesInOwnSession is not inductive: that a caller writes     *)
(* under the learned identity rests on how it came to be allowed to write.  *)
(* A Start or Stop needs a learned frame, every other command needed the    *)
(* signature when it was accepted, and a signature is never lost.           *)

\* What caller c read is the identity learned from the app.
Signed(c) == pc[c] \in Writing => local[c].appId = ownId /\ HasSignature

\* Caller c's command may only be running because a signature is known.
Entitled(c) ==
    (pc[c] \in Holding /\ command[c].kind \notin {"start", "stop"}) => HasSignature

SignedInv ==
    /\ learned # {} => HasSignature
    /\ \A c \in Callers : Signed(c) /\ Entitled(c)

\* A caller's own step: it starts to write with the id it read, and keeps both
\* while it writes; the other callers and the identity stay as they are.
LEMMA CallerStaysSigned ==
  ASSUME TypeOK, SignedInv,
         NEW c \in Callers, NEW p, NEW k, NEW l,
         pc' = [pc EXCEPT ![c] = p],
         command' = [command EXCEPT ![c] = k],
         local' = [local EXCEPT ![c] = l],
         UNCHANGED <<learned, ownId>>,
         p \in Writing =>
             \/ l.appId = ownId /\ HasSignature
             \/ pc[c] \in Writing /\ l.appId = local[c].appId,
         p \in Holding =>
             \/ k.kind \notin {"start", "stop"} => HasSignature
             \/ pc[c] \in Holding /\ k = command[c]
  PROVE  SignedInv'
  <1>1. /\ pc'[c] = p /\ command'[c] = k /\ local'[c] = l
        /\ \A d \in Callers \ {c} :
               pc'[d] = pc[d] /\ command'[d] = command[d] /\ local'[d] = local[d]
    BY DEF TypeOK
  <1>2. \A d \in Callers : Signed(d)' /\ Entitled(d)'
    <2> TAKE d \in Callers
    <2>1. CASE d = c
      BY <1>1, <2>1 DEF SignedInv, Signed, Entitled, HasSignature
    <2>2. CASE d # c
      BY <1>1, <2>2 DEF SignedInv, Signed, Entitled, HasSignature
    <2>3. QED
      BY <2>1, <2>2
  <1>3. QED
    BY <1>2 DEF SignedInv, HasSignature

\* Snapshots and the mark of an accepted write keep the id.
LEMMA AppIdKept ==
  ASSUME NEW l \in Locals
  PROVE  /\ Snapshot(l).appId = l.appId
         /\ [l EXCEPT !.wrote = TRUE].appId = l.appId
  BY DEF Snapshot, Locals

\* A command that ends asks for no signature.
LEMMA RestsSigned ==
  ASSUME TypeOK, SignedInv, NEW c \in Callers, NEW o \in Resting, Rests(c, o),
         UNCHANGED <<learned, ownId>>
  PROVE  SignedInv'
  <1>1. o \notin Writing /\ o \notin Holding
    BY DEF Resting, Writing, Holding
  <1>2. QED
    BY <1>1, CallerStaysSigned DEF Rests

\* Neither does a command that completes.
LEMMA CompletesSigned ==
  ASSUME TypeOK, SignedInv, NEW c \in Callers, NEW result, NEW wrote,
         Completes(c, result, wrote), UNCHANGED <<learned, ownId>>
  PROVE  SignedInv'
  <1> DEFINE p == IF command[c].kind = "sync" THEN "settle" ELSE "done"
  <1> DEFINE l == [Blank EXCEPT !.wrote = wrote]
  <1>1. p \notin Writing /\ p \notin Holding
    BY DEF Writing, Holding
  <1>2. /\ pc' = [pc EXCEPT ![c] = p] /\ local' = [local EXCEPT ![c] = l]
        /\ command' = [command EXCEPT ![c] = NoCommand]
    BY DEF Completes
  <1> HIDE DEF p, l
  <1>3. QED
    BY <1>1, <1>2, CallerStaysSigned

\* A caller that read its own id and is not rejected writes under the learned
\* identity: either its frame or its command presupposes it.
LEMMA SendsSigned ==
  ASSUME TypeOK, SignedInv, SessionRequired, NEW c \in Callers, NEW result,
         pc[c] \in Holding, local[c].appId = ownId,
         Sends(c, command[c], result), UNCHANGED <<learned, ownId>>
  PROVE  SignedInv'
  <1>1. CASE Fails(c, command[c], "rejected")
    BY <1>1, RestsSigned DEF Fails, Resting
  <1>2. CASE ~Fails(c, command[c], "rejected")
    <2>1. /\ ~Rejects(command[c])
          /\ pc' = [pc EXCEPT ![c] = FirstWrite(command[c])]
          /\ command' = [command EXCEPT ![c] = command[c]]
          /\ local' = [local EXCEPT ![c] = Snapshot(local[c])]
      BY <1>2 DEF Sends
    <2>2. HasSignature
      BY <2>1 DEF Rejects, NotLearned, SessionRequired, UsesCloudSession,
                  SignedInv, Entitled
    <2>3. Snapshot(local[c]).appId = ownId
      BY AppIdKept DEF TypeOK
    <2>4. QED
      BY <2>1, <2>2, <2>3, CallerStaysSigned
  <1>3. QED
    BY <1>1, <1>2

\* Where a cloud session is required, every step keeps every caller signed.
LEMMA StepSigned ==
  ASSUME TypeOK, SignedInv, SessionRequired, [Next]_vars
  PROVE  SignedInv'
  <1> "failed" \in Resting /\ "idle" \in Resting
    BY DEF Resting
  <1>1. ASSUME NEW c \in Callers, NEW o \in Resting, Rests(c, o),
               UNCHANGED <<learned, ownId>>
        PROVE  SignedInv'
    BY <1>1, RestsSigned
  <1>2. ASSUME NEW c \in Callers, NEW k, NEW result, Fails(c, k, result),
               UNCHANGED <<learned, ownId>>
        PROVE  SignedInv'
    BY <1>2, <1>1 DEF Fails
  <1>3. ASSUME NEW c \in Callers, Request(c) PROVE SignedInv'
    <2>1. ASSUME NEW k \in Commands, Accept(c, k) PROVE SignedInv'
      <3>1. /\ pc' = [pc EXCEPT ![c] = "fetch"]
            /\ command' = [command EXCEPT ![c] = k]
            /\ local' = [local EXCEPT ![c] = Blank]
            /\ UNCHANGED <<learned, ownId>>
        BY <2>1 DEF Accept
      <3>2. k.kind \notin {"start", "stop"} => HasSignature
        <4>1. k.kind \in Kinds \ {"sync"}
          BY <2>1, ConstantsAssumption DEF Accept, Commands
        <4>2. QED
          BY <2>1, <4>1
          DEF Accept, Issuable, Signing, Kinds, SessionRequired
      <3>3. "fetch" \notin Writing
        BY DEF Writing
      <3>4. QED
        BY <3>1, <3>2, <3>3, CallerStaysSigned
    <2>2. ASSUME NEW k \in Commands, SyncAccepted(c, k) PROVE SignedInv'
      <3>1. /\ pc' = [pc EXCEPT ![c] = "fetch"]
            /\ command' = [command EXCEPT ![c] = k]
            /\ local' = [local EXCEPT ![c] = Blank]
            /\ UNCHANGED <<learned, ownId>>
            /\ HasSignature
        BY <2>2 DEF SyncAccepted, SyncPossible, SessionRequired
      <3>2. "fetch" \notin Writing
        BY DEF Writing
      <3>3. QED
        BY <3>1, <3>2, CallerStaysSigned
    <2>3. QED
      BY <1>3, <1>1, <2>1, <2>2
      DEF Request, Refuse, StopUnknown, RejectRaw, RejectUnsent, SyncSkipped
  <1>4. ASSUME NEW c \in Callers, ReadAppId(c) PROVE SignedInv'
    <2>1. /\ pc' = [pc EXCEPT ![c] = pc[c]]
          /\ command' = [command EXCEPT ![c] = command[c]]
          /\ local' = [local EXCEPT ![c] = [local[c] EXCEPT !.appId = cloudId]]
          /\ UNCHANGED <<learned, ownId>>
      BY <1>4 DEF ReadAppId, TypeOK
    <2>2. pc[c] \notin Writing
      BY <1>4 DEF ReadAppId, Writing
    <2>3. QED
      BY <2>1, <2>2, CallerStaysSigned
  <1>5. ASSUME NEW c \in Callers,
               \/ FetchFails(c) \/ SessionInUse(c) \/ SessionTimeout(c)
               \/ AckRefused(c) \/ CloudFails(c) \/ AuthFails(c)
               \/ ConfirmationTimeout(c)
        PROVE  SignedInv'
    BY <1>5, <1>2
    DEF FetchFails, SessionInUse, SessionTimeout, AckRefused, CloudFails,
        AuthFails, ConfirmationTimeout
  <1>6. ASSUME NEW c \in Callers, SessionReused(c) \/ SessionConfirmed(c)
        PROVE  SignedInv'
    <2>1. pc[c] \in Holding /\ UNCHANGED <<learned, ownId>>
      BY <1>6 DEF SessionReused, SessionConfirmed, Holding
    <2>2. QED
      BY <1>6, <2>1, <1>2, SendsSigned DEF SessionReused, SessionConfirmed
  <1>7. ASSUME NEW c \in Callers, Connect(c) \/ ConnectPosted(c) PROVE SignedInv'
    <2>1. /\ command' = [command EXCEPT ![c] = command[c]]
          /\ UNCHANGED <<learned, ownId>>
          /\ pc[c] \in Holding
      BY <1>7 DEF Connect, ConnectPosted, TypeOK, Holding
    <2>2. "post" \notin Writing /\ "confirm" \notin Writing
      BY DEF Writing
    <2>3. CASE Connect(c)
      <3> DEFINE l == [local[c] EXCEPT !.appId = "none", !.claim = ownId]
      <3>1. pc' = [pc EXCEPT ![c] = "post"] /\ local' = [local EXCEPT ![c] = l]
        BY <2>3 DEF Connect
      <3> HIDE DEF l
      <3>2. QED
        BY <2>1, <2>2, <3>1, CallerStaysSigned
    <2>4. CASE ConnectPosted(c)
      <3>1. /\ pc' = [pc EXCEPT ![c] = "confirm"]
            /\ local' = [local EXCEPT ![c] = local[c]]
        BY <2>4 DEF ConnectPosted, TypeOK
      <3>2. QED
        BY <2>1, <2>2, <3>1, CallerStaysSigned
    <2>5. QED
      BY <1>7, <2>3, <2>4
  <1>8. ASSUME NEW c \in Callers, RefreshSent(c) PROVE SignedInv'
    <2>1. /\ pc' = [pc EXCEPT ![c] = "write"]
          /\ command' = [command EXCEPT ![c] = command[c]]
          /\ local' = [local EXCEPT ![c] = Snapshot(local[c])]
          /\ UNCHANGED <<learned, ownId>>
      BY <1>8 DEF RefreshSent, TypeOK
    <2>2. /\ pc[c] \in Writing /\ pc[c] \in Holding
          /\ Snapshot(local[c]).appId = local[c].appId
      BY <1>8, AppIdKept DEF RefreshSent, Writing, Holding, TypeOK
    <2>3. QED
      BY <2>1, <2>2, CallerStaysSigned
  <1>9. ASSUME NEW c \in Callers,
               \/ \E identified \in BOOLEAN : WriteAccepted(c, identified)
               \/ AckAccepted(c) \/ AckInconclusive(c) \/ StateConfirms(c)
        PROVE  SignedInv'
    <2>1. pc[c] \in Writing /\ pc[c] \in Holding /\ UNCHANGED <<learned, ownId>>
      BY <1>9
      DEF WriteAccepted, AckAccepted, AckInconclusive, StateConfirms, Writing,
          Holding
    <2>2. CASE \E result, wrote : Completes(c, result, wrote)
      BY <2>1, <2>2, CompletesSigned
    <2>3. CASE ~(\E result, wrote : Completes(c, result, wrote))
      <3>1. PICK o, l :
                /\ pc' = [pc EXCEPT ![c] = o]
                /\ local' = [local EXCEPT ![c] = l]
                /\ l \in {local[c], [local[c] EXCEPT !.wrote = TRUE]}
                /\ UNCHANGED command
        <4>1. CASE \E identified \in BOOLEAN : WriteAccepted(c, identified)
          BY <4>1, <2>3 DEF WriteAccepted
        <4>2. CASE AckInconclusive(c)
          <5>1. local' = [local EXCEPT ![c] = local[c]]
            BY <4>2, <2>3 DEF AckInconclusive, TypeOK
          <5>2. QED
            BY <4>2, <2>3, <5>1 DEF AckInconclusive
        <4>3. QED
          BY <1>9, <2>3, <4>1, <4>2 DEF AckAccepted, StateConfirms
      <3>2. l.appId = local[c].appId
        BY <3>1, AppIdKept DEF TypeOK
      <3>3. command' = [command EXCEPT ![c] = command[c]]
        BY <3>1 DEF TypeOK
      <3>4. QED
        BY <2>1, <3>1, <3>2, <3>3, CallerStaysSigned
    <2>4. QED
      BY <2>2, <2>3
  <1>10. ASSUME NEW c \in Callers, SyncSettles(c) \/ Cancel(c) PROVE SignedInv'
    BY <1>10, <1>1 DEF SyncSettles, Cancel
  <1>11. ASSUME \A c \in Callers : local'[c].appId = local[c].appId,
                UNCHANGED <<pc, command, learned, ownId>>
         PROVE  SignedInv'
    BY <1>11 DEF SignedInv, Signed, Entitled, HasSignature
  <1>12. ASSUME Environment PROVE SignedInv'
    <2>1. ASSUME NEW reading \in Monitors, MonitorMoves(reading) PROVE SignedInv'
      BY <2>1, <1>11 DEF MonitorMoves, TypeOK, Locals
    <2>2. CASE ResponseMoves
      BY <2>2, <1>11 DEF ResponseMoves, TypeOK, Locals
    <2>3. ASSUME NEW c \in Callers,
                 NEW verdict \in {"accepted", "refused", "unclear"},
                 AckArrives(c, verdict)
          PROVE  SignedInv'
      <3>1. PICK l : /\ local' = [local EXCEPT ![c] = l]
                     /\ l \in {[local[c] EXCEPT !.ack = verdict, !.heard = TRUE],
                               [local[c] EXCEPT !.ack = verdict]}
        BY <2>3 DEF AckArrives
      <3>2. l.appId = local[c].appId
        BY <3>1 DEF TypeOK, Locals
      <3>3. QED
        BY <2>3, <3>1, <3>2, <1>11 DEF AckArrives, TypeOK
    <2>4. CASE UNCHANGED <<pc, command, local, learned, ownId>>
      BY <2>4, <1>11
    <2>5. CASE UNCHANGED <<pc, command, local>> /\ ownId' = "device"
      BY <2>5 DEF SignedInv, Signed, Entitled, HasSignature
    <2>6. QED
      BY <1>12, <2>1, <2>2, <2>3, <2>4, <2>5
      DEF Environment, HolderMoves, MachineConnects, ConnectAges, StreamMoves,
          OnlineMoves, AppFrame, AppWakeFrame
  <1>13. CASE UNCHANGED vars
    BY <1>13, <1>11 DEF vars
  <1>14. QED
    BY <1>3, <1>4, <1>5, <1>6, <1>7, <1>8, <1>9, <1>10, <1>12, <1>13
    DEF Next, Progress

\* A frame is only in flight under the integration's own cloud session and the
\* identity learned from the app, for any number of callers, any other
\* application and however the session was acquired.
THEOREM OwnSession == Spec => []WritesInOwnSession
  <1> DEFINE Inv == SessionRequired => SignedInv
  <1>1. Init => Inv
    BY DEF Init, SignedInv, Signed, Entitled, HasSignature, Writing, Holding
  <1>2. TypeOK /\ Inv /\ [Next]_vars => Inv'
    BY StepSigned DEF SessionRequired, UsesCloudSession
  <1>3. OneTransaction /\ Inv => WritesInOwnSession
    BY DEF OneTransaction, SignedInv, Signed, WritesInOwnSession, Holding
  <1> HIDE DEF Inv
  <1>4. QED
    BY <1>1, <1>2, <1>3, TypeCorrect, MutualExclusion, PTL DEF Spec

---------------------------------------------------------------------------
(* Outcomes: what a caller is told and what is published when it leaves.    *)

\* Caller c's step tells the caller what it publishes.
Agrees(c) ==
    (Leaves(c, Holding) /\ command[c].kind # "sync") =>
        /\ pc'[c] = "done" => lastResult' \in {"sent", "acknowledged"}
        /\ pc'[c] = "failed" => lastResult' \in {"timed_out", "rejected"}

\* A caller is only told something by its own step.
LEMMA OwnStepTells ==
  ASSUME TypeOK, NEW c \in Callers, NEW p, pc' = [pc EXCEPT ![c] = p], Agrees(c)
  PROVE  \A d \in Callers : Agrees(d)
  <1> TAKE d \in Callers
  <1>1. CASE d # c
    BY <1>1 DEF TypeOK, Agrees, Leaves
  <1>2. QED
    BY <1>1

\* A failure that names its result tells what it publishes.
LEMMA FailsTells ==
  ASSUME TypeOK, NEW c \in Callers, NEW result \in {"timed_out", "rejected"},
         Fails(c, command[c], result)
  PROVE  \A d \in Callers : Agrees(d)
  <1>1. pc' = [pc EXCEPT ![c] = "failed"]
    BY DEF Fails, Rests
  <1>2. Agrees(c)
    BY <1>1 DEF TypeOK, Agrees, Fails, Publish
  <1>3. QED
    BY <1>1, <1>2, OwnStepTells

\* So does a completion.
LEMMA CompletesTells ==
  ASSUME TypeOK, NEW c \in Callers, NEW result \in {"sent", "acknowledged"},
         NEW wrote, Completes(c, result, wrote)
  PROVE  \A d \in Callers : Agrees(d)
  <1> DEFINE p == IF command[c].kind = "sync" THEN "settle" ELSE "done"
  <1>1. pc' = [pc EXCEPT ![c] = p]
    BY DEF Completes
  <1>2. Agrees(c)
    BY <1>1 DEF TypeOK, Agrees, Completes, Publish
  <1> HIDE DEF p
  <1>3. QED
    BY <1>1, <1>2, OwnStepTells

\* A caller at rest leaves nothing, and one that moves inside the transaction
\* or is cancelled is told nothing.
LEMMA SilentStep ==
  ASSUME TypeOK, NEW c \in Callers, NEW p, pc' = [pc EXCEPT ![c] = p],
         pc[c] \notin Holding \/ p \notin {"done", "failed"}
  PROVE  \A d \in Callers : Agrees(d)
  BY OwnStepTells DEF TypeOK, Agrees, Leaves

\* Every step that publishes agrees with how the command ended.
LEMMA StepTells == TypeOK /\ Next => \A d \in Callers : Agrees(d)
  <1> SUFFICES ASSUME TypeOK, Next PROVE \A d \in Callers : Agrees(d)
    OBVIOUS
  <1> DEFINE Goal == \A d \in Callers : Agrees(d)
  <1>1. ASSUME NEW c \in Callers, Request(c) PROVE Goal
    <2>1. pc[c] \notin Holding
      BY <1>1
      DEF Request, Refuse, Accept, SyncAccepted, StopUnknown, RejectRaw,
          RejectUnsent, SyncSkipped, Resting, Holding, Writing
    <2>2. \E p : pc' = [pc EXCEPT ![c] = p]
      <3>1. CASE \E o : Rests(c, o)
        BY <3>1 DEF Rests
      <3>2. ASSUME NEW k, Accept(c, k) PROVE \E p : pc' = [pc EXCEPT ![c] = p]
        BY <3>2 DEF Accept, Sends, Fails, Rests
      <3>3. ASSUME NEW k, SyncAccepted(c, k) PROVE \E p : pc' = [pc EXCEPT ![c] = p]
        BY <3>3 DEF SyncAccepted
      <3>4. QED
        BY <1>1, <3>1, <3>2, <3>3
        DEF Request, Refuse, StopUnknown, RejectRaw, RejectUnsent, SyncSkipped
    <2>3. QED
      BY <2>1, <2>2, SilentStep
  <1>2. ASSUME NEW c \in Callers,
               \/ FetchFails(c) \/ SessionInUse(c) \/ SessionTimeout(c)
               \/ AckRefused(c) \/ CloudFails(c) \/ AuthFails(c)
               \/ ConfirmationTimeout(c)
        PROVE  Goal
    BY <1>2, FailsTells
    DEF FetchFails, SessionInUse, SessionTimeout, AckRefused, CloudFails,
        AuthFails, ConfirmationTimeout
  <1>3. ASSUME NEW c \in Callers, SessionReused(c) \/ SessionConfirmed(c)
        PROVE  Goal
    <2>1. CASE Fails(c, command[c], "rejected")
      BY <2>1, FailsTells
    <2>2. CASE pc' = [pc EXCEPT ![c] = FirstWrite(command[c])]
      <3>1. FirstWrite(command[c]) \notin {"done", "failed"}
        BY DEF FirstWrite
      <3>2. QED
        BY <2>2, <3>1, SilentStep
    <2>3. QED
      BY <1>3, <2>1, <2>2 DEF SessionReused, SessionConfirmed, Sends
  <1>4. ASSUME NEW c \in Callers, Connect(c) \/ ConnectPosted(c) \/ RefreshSent(c)
        PROVE  Goal
    BY <1>4, SilentStep DEF Connect, ConnectPosted, RefreshSent
  <1>5. ASSUME NEW c \in Callers,
               \/ \E identified \in BOOLEAN : WriteAccepted(c, identified)
               \/ AckAccepted(c) \/ AckInconclusive(c) \/ StateConfirms(c)
        PROVE  Goal
    <2>1. ASSUME NEW result \in {"sent", "acknowledged"}, NEW wrote,
                 Completes(c, result, wrote)
          PROVE  Goal
      BY <2>1, CompletesTells
    <2>2. ASSUME NEW p \in {"ack", "await"}, pc' = [pc EXCEPT ![c] = p]
          PROVE  Goal
      BY <2>2, SilentStep
    <2>3. ASSUME NEW identified \in BOOLEAN, WriteAccepted(c, identified)
          PROVE  Goal
      <3> DEFINE p == IF identified /\ AckEnabled /\ streaming
                      THEN "ack" ELSE "await"
      <3>1. pc' = [pc EXCEPT ![c] = p] \/ Completes(c, "sent", TRUE)
        BY <2>3 DEF WriteAccepted
      <3>2. p \in {"ack", "await"}
        OBVIOUS
      <3> HIDE DEF p
      <3>3. CASE Completes(c, "sent", TRUE)
        BY <2>1, <3>3
      <3>4. QED
        BY <2>2, <3>1, <3>2, <3>3
    <2>4. CASE AckAccepted(c) \/ StateConfirms(c)
      BY <2>1, <2>4 DEF AckAccepted, StateConfirms
    <2>5. CASE AckInconclusive(c)
      BY <2>1, <2>2, <2>5 DEF AckInconclusive
    <2>6. QED
      BY <1>5, <2>3, <2>4, <2>5
  <1>6. ASSUME NEW c \in Callers, SyncSettles(c) \/ Cancel(c) PROVE Goal
    BY <1>6, SilentStep DEF SyncSettles, Cancel, Rests
  <1>7. CASE UNCHANGED pc
    BY <1>7 DEF Agrees, Leaves
  <1>8. ASSUME NEW c \in Callers, ReadAppId(c) PROVE Goal
    BY <1>7, <1>8 DEF ReadAppId
  <1>9. ASSUME Environment PROVE Goal
    BY <1>7, <1>9
    DEF Environment, HolderMoves, MachineConnects, ConnectAges, MonitorMoves,
        ResponseMoves, AckArrives, StreamMoves, OnlineMoves, AppFrame,
        AppWakeFrame
  <1>10. QED
    BY <1>1, <1>2, <1>3, <1>4, <1>5, <1>6, <1>8, <1>9 DEF Next, Progress

\* When a command ends, the published status is a success exactly if its caller
\* returns and a failure if its caller raises, whoever wrote the status before.
THEOREM StatusTruthful == Spec => StatusTellsOutcome
  <1>1. TypeOK /\ [Next]_vars => [\A c \in Callers : Agrees(c)]_vars
    BY StepTells
  <1>2. QED
    BY <1>1, TypeCorrect, PTL DEF Spec, StatusTellsOutcome, Agrees
===========================================================================
