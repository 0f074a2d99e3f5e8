--------------------- MODULE TransactionOutcomeProofs ---------------------
(***************************************************************************)
(* What a transaction of the command path comes to, for any callers and    *)
(* any environment: which beverage a start leaves for Stop, what            *)
(* "acknowledged" rests on, and that the path implements the serial        *)
(* command service.                                                        *)
(*                                                                         *)
(* One lemma, StepShapes, says what a step of the command path can be; the *)
(* proofs of the properties go through its seven shapes instead of the     *)
(* actions.                                                                *)
(***************************************************************************)
EXTENDS CommandTransactionProofs

USE DEF callVars, lockVars, recipeVars, sessionVars, machineVars

---------------------------------------------------------------------------
(* The invariant.  It relates where a caller is to what its locals say:    *)
(* that the cloud accepted the write, that the machine was heard.          *)

\* The machine showed nothing since the snapshot in l that l.heard misses.
Witnessed(l) ==
    monitor # l.before \/ l.responded \/ l.ack = "accepted" => l.heard

\* A caller at location p with command k and locals l.
Consistent(p, k, l) ==
    /\ p = "refresh" => k.kind = "wake"
    /\ p \in {"fetch", "post", "confirm", "refresh", "write", "idle", "failed"}
           => ~l.wrote
    /\ p \in {"ack", "await", "done"} => l.wrote
    /\ p \notin {"write", "ack", "await"} => l.ack = "none"
    /\ p \in Writing => Witnessed(l)

OutcomeInv == \A c \in Callers : Consistent(pc[c], command[c], local[c])

---------------------------------------------------------------------------
(* The shapes of a step. *)

Moves(c, p, k, l) ==
    /\ pc' = [pc EXCEPT ![c] = p]
    /\ command' = [command EXCEPT ![c] = k]
    /\ local' = [local EXCEPT ![c] = l]

\* A request enters, to acquire a session or, as a refresh without one, to settle.
Arrives(c) ==
    \E p \in {"fetch", "settle"}, k \in Commands :
        /\ pc[c] \in Resting
        /\ Moves(c, p, k, Blank)
        /\ p = "fetch" => commandLock = NoOne

\* send_fn begins to write, at once or after the session is acquired.
Transmits(c) ==
    \E k \in Commands \cup {NoCommand} :
        /\ Moves(c, FirstWrite(k), k, Snapshot(local[c]))
        /\ \/ pc[c] \in Resting /\ commandLock = NoOne
           \/ pc[c] \in {"fetch", "confirm"} /\ k = command[c]

\* The acquisition of the session goes on.
Acquires(c) ==
    \E p \in {"fetch", "post", "confirm"}, l \in Locals :
        /\ pc[c] \in {"fetch", "post", "confirm"}
        /\ Moves(c, p, command[c], l)
        /\ l.wrote = local[c].wrote /\ l.ack = local[c].ack

\* The session refresh is sent and the wake follows.
Nudges(c) ==
    /\ pc[c] = "refresh"
    /\ Moves(c, "write", command[c], Snapshot(local[c]))

\* The command's write is accepted and its confirmation waited for.
Waits(c) ==
    \E p \in {"ack", "await"} :
        /\ pc[c] \in {"write", "ack"}
        /\ Moves(c, p, command[c], [local[c] EXCEPT !.wrote = TRUE])

\* The command ends well.
Finishes(c) ==
    \E result \in {"sent", "acknowledged"} :
        /\ pc[c] \in {"write", "ack", "await"}
        /\ Completes(c, result, TRUE)
        /\ result = "acknowledged" => local[c].heard

\* The command fails, is refused or cancelled, or a refresh is over.
Quits(c) ==
    \E p \in {"failed", "idle"} :
        /\ Moves(c, p, NoCommand, Blank)
        /\ (/\ p = "failed" /\ pc[c] \in Writing
            /\ command[c].kind = "start" /\ local[c].wrote
            /\ local[c].ack # "refused")
           => active' = command[c].beverage

CallerMoves(c) ==
    /\ \/ Arrives(c) \/ Transmits(c) \/ Acquires(c) \/ Nudges(c) \/ Waits(c)
       \/ Finishes(c) \/ Quits(c)
    /\ UNCHANGED machineVars

\* The world moves, or nothing does.
WorldMoves ==
    /\ UNCHANGED <<pc, command>>
    /\ \A c \in Callers : local'[c].wrote = local[c].wrote

---------------------------------------------------------------------------
(* Each operator the actions share has a shape. *)

\* A caller whose command and locals are left alone keeps them.
LEMMA Kept ==
  ASSUME TypeOK, NEW c \in Callers
  PROVE  /\ pc = [pc EXCEPT ![c] = pc[c]]
         /\ command = [command EXCEPT ![c] = command[c]]
         /\ local = [local EXCEPT ![c] = local[c]]
         /\ local[c] \in Locals
  BY DEF TypeOK

\* A failure is a way to quit, unless it loses the beverage of a written start.
LEMMA FailsShape ==
  ASSUME NEW c \in Callers, NEW k, NEW result, Fails(c, k, result),
         pc[c] \in Holding => k = command[c],
         pc[c] \in Writing /\ command[c].kind = "start" /\ local[c].wrote
             /\ local[c].ack # "refused" => active' = command[c].beverage
  PROVE  Quits(c)
  BY DEF Fails, Rests, Moves, Quits, Publish

\* Ending outside a transaction, or idly inside one, is a way to quit.
LEMMA RestsShape ==
  ASSUME NEW c \in Callers, NEW p \in {"failed", "idle"}, Rests(c, p),
         pc[c] \notin Holding \/ p = "idle"
  PROVE  Quits(c)
  BY DEF Rests, Moves, Quits, Writing, Holding

\* The writes of a transaction begin on the session, or the command quits.
LEMMA SendsShape ==
  ASSUME TypeOK, NEW c \in Callers, NEW k \in Commands \cup {NoCommand},
         NEW result, Sends(c, k, result),
         \/ pc[c] \in Resting /\ commandLock = NoOne
         \/ pc[c] \in {"fetch", "confirm"} /\ k = command[c]
  PROVE  Transmits(c) \/ Quits(c)
  <1>1. CASE Fails(c, k, "rejected")
    <2>1. pc[c] \notin Writing /\ (pc[c] \in Holding => k = command[c])
      BY DEF Writing, Holding, Resting
    <2>2. QED
      BY <1>1, <2>1, FailsShape
  <1>2. CASE ~Fails(c, k, "rejected")
    BY <1>2 DEF Sends, Transmits, Moves
  <1>3. QED
    BY <1>1, <1>2

---------------------------------------------------------------------------
(* Each action has a shape. *)

\* A request arrives, begins to write at once, or quits.
LEMMA RequestShape ==
  ASSUME TypeOK, NEW c \in Callers, Request(c)
  PROVE  CallerMoves(c)
  <1>1. pc[c] \in Resting /\ pc[c] \notin Holding
    BY DEF Request, Refuse, Accept, SyncAccepted, StopUnknown, RejectRaw,
           RejectUnsent, SyncSkipped, Resting, Holding, Writing
  <1>2. ASSUME NEW k \in Commands, Accept(c, k)
        PROVE  CallerMoves(c)
    <2>1. commandLock = NoOne /\ UNCHANGED machineVars
      BY <1>2 DEF Accept, Locked
    <2>2. CASE Sends(c, k, "pending")
      BY <1>1, <2>1, <2>2, SendsShape DEF CallerMoves
    <2>3. CASE ~Sends(c, k, "pending")
      BY <1>1, <1>2, <2>1, <2>3 DEF Accept, Moves, Arrives, CallerMoves
    <2>4. QED
      BY <2>2, <2>3
  <1>3. ASSUME NEW k \in Commands, SyncAccepted(c, k)
        PROVE  CallerMoves(c)
    BY <1>3 DEF SyncAccepted, SyncPossible, Locked, Moves, Arrives, CallerMoves
  <1>4. CASE Rests(c, "failed") /\ UNCHANGED machineVars
    BY <1>1, <1>4, RestsShape DEF CallerMoves
  <1>5. QED
    BY <1>2, <1>3, <1>4
    DEF Request, Refuse, StopUnknown, RejectRaw, RejectUnsent, SyncSkipped

\* Acquiring the session changes no machine state: the caller acquires,
\* begins to write or quits.
LEMMA SessionShape ==
  ASSUME TypeOK, NEW c \in Callers,
         \/ ReadAppId(c) \/ FetchFails(c) \/ SessionInUse(c)
         \/ SessionReused(c) \/ Connect(c) \/ ConnectPosted(c)
         \/ SessionConfirmed(c) \/ SessionTimeout(c)
  PROVE  CallerMoves(c)
  <1>1. pc[c] \in {"fetch", "post", "confirm"} /\ UNCHANGED machineVars
    BY DEF ReadAppId, FetchFails, SessionInUse, SessionReused, Connect,
           ConnectPosted, SessionConfirmed, SessionTimeout
  <1>2. CASE \E result : Fails(c, command[c], result)
    BY <1>1, <1>2, FailsShape DEF CallerMoves, Writing
  <1>3. CASE \/ SessionReused(c) /\ Sends(c, command[c], lastResult)
             \/ SessionConfirmed(c)
    <2>1. /\ pc[c] \in {"fetch", "confirm"}
          /\ Sends(c, command[c], lastResult)
      BY <1>3 DEF SessionReused, SessionConfirmed
    <2>2. command[c] \in Commands \cup {NoCommand}
      BY DEF TypeOK
    <2>3. QED
      BY <1>1, <2>1, <2>2, SendsShape DEF CallerMoves
  <1>4. CASE ReadAppId(c)
    <2> DEFINE l == [local[c] EXCEPT !.appId = cloudId]
    <2>1. l \in Locals /\ l.wrote = local[c].wrote /\ l.ack = local[c].ack
      BY DEF TypeOK, Locals
    <2>2. Moves(c, pc[c], command[c], l)
      BY <1>4, Kept DEF ReadAppId, Moves
    <2> HIDE DEF l
    <2>3. QED
      BY <1>1, <2>1, <2>2 DEF Acquires, CallerMoves
  <1>5. CASE Connect(c)
    <2> DEFINE l == [local[c] EXCEPT !.appId = "none", !.claim = ownId]
    <2>1. l \in Locals /\ l.wrote = local[c].wrote /\ l.ack = local[c].ack
      BY DEF TypeOK, Locals
    <2>2. Moves(c, "post", command[c], l)
      BY <1>5, Kept DEF Connect, Moves
    <2> HIDE DEF l
    <2>3. QED
      BY <1>1, <2>1, <2>2 DEF Acquires, CallerMoves
  <1>6. CASE ConnectPosted(c)
    BY <1>1, <1>6, Kept DEF ConnectPosted, Moves, Acquires, CallerMoves
  <1>7. QED
    BY <1>2, <1>3, <1>4, <1>5, <1>6
    DEF FetchFails, SessionInUse, SessionReused, SessionTimeout

\* While it writes, the caller nudges, waits, finishes or quits; it finishes
\* only on evidence that was heard.
LEMMA WriteShape ==
  ASSUME TypeOK, OutcomeInv, NEW c \in Callers,
         \/ RefreshSent(c)
         \/ \E identified \in BOOLEAN : WriteAccepted(c, identified)
         \/ AckAccepted(c) \/ AckRefused(c) \/ AckInconclusive(c)
         \/ StateConfirms(c) \/ ConfirmationTimeout(c)
         \/ CloudFails(c) \/ AuthFails(c)
  PROVE  CallerMoves(c)
  <1>1. UNCHANGED machineVars
    BY DEF RefreshSent, WriteAccepted, AckAccepted, AckRefused, AckInconclusive,
           StateConfirms, ConfirmationTimeout, CloudFails, AuthFails
  <1>2. Consistent(pc[c], command[c], local[c])
    BY DEF OutcomeInv
  <1>3. CASE RefreshSent(c)
    BY <1>1, <1>3, Kept DEF RefreshSent, Moves, Nudges, CallerMoves
  <1>4. ASSUME NEW identified \in BOOLEAN, WriteAccepted(c, identified)
        PROVE  CallerMoves(c)
    <2>1. CASE Completes(c, "sent", TRUE)
      BY <1>1, <1>4, <2>1 DEF WriteAccepted, Finishes, CallerMoves
    <2>2. CASE ~Completes(c, "sent", TRUE)
      <3> DEFINE p == IF identified /\ AckEnabled /\ streaming
                      THEN "ack" ELSE "await"
      <3>1. pc[c] = "write" /\ p \in {"ack", "await"}
        BY <1>4 DEF WriteAccepted
      <3>2. Moves(c, p, command[c], [local[c] EXCEPT !.wrote = TRUE])
        BY <1>4, <2>2, Kept DEF WriteAccepted, Moves
      <3> HIDE DEF p
      <3>3. QED
        BY <1>1, <3>1, <3>2 DEF Waits, CallerMoves
    <2>3. QED
      BY <2>1, <2>2
  <1>5. CASE AckAccepted(c)
    <2>1. local[c].wrote = TRUE /\ local[c].heard
      BY <1>2, <1>5, Kept
      DEF AckAccepted, Consistent, Witnessed, Writing, Locals
    <2>2. QED
      BY <1>1, <1>5, <2>1 DEF AckAccepted, Finishes, CallerMoves
  <1>6. CASE StateConfirms(c)
    <2>1. local[c].wrote = TRUE /\ local[c].heard
      BY <1>2, <1>6, Kept
      DEF StateConfirms, Changed, Consistent, Witnessed, Writing, Locals
    <2>2. QED
      BY <1>1, <1>6, <2>1 DEF StateConfirms, Finishes, CallerMoves
  <1>7. CASE AckInconclusive(c)
    <2>1. local[c].wrote = TRUE /\ pc[c] = "ack"
      BY <1>2, <1>7, Kept DEF AckInconclusive, Consistent, Locals
    <2>2. local[c] = [local[c] EXCEPT !.wrote = TRUE]
      BY <2>1, Kept DEF Locals
    <2>3. CASE Completes(c, "sent", local[c].wrote)
      BY <1>1, <2>1, <2>3 DEF Finishes, CallerMoves
    <2>4. CASE ~Completes(c, "sent", local[c].wrote)
      <3>1. Moves(c, "await", command[c], local[c])
        BY <1>7, <2>4, Kept DEF AckInconclusive, Moves
      <3>2. QED
        BY <1>1, <2>1, <2>2, <3>1 DEF Waits, CallerMoves
    <2>5. QED
      BY <2>3, <2>4
  <1>8. CASE AckRefused(c) \/ ConfirmationTimeout(c)
    BY <1>1, <1>8, FailsShape
    DEF AckRefused, ConfirmationTimeout, KeepsBeverage, CallerMoves
  <1>9. CASE CloudFails(c) \/ AuthFails(c)
    <2>1. ~local[c].wrote
      BY <1>2, <1>9 DEF CloudFails, AuthFails, Consistent
    <2>2. QED
      BY <1>1, <1>9, <2>1, FailsShape DEF CloudFails, AuthFails, CallerMoves
  <1>10. QED
    BY <1>3, <1>4, <1>5, <1>6, <1>7, <1>8, <1>9

\* The world moves no caller and takes back no write.
LEMMA WorldShape ==
  ASSUME TypeOK, Environment \/ UNCHANGED vars
  PROVE  WorldMoves
  <1>1. UNCHANGED <<pc, command>>
    BY DEF vars, Environment, HolderMoves, MachineConnects, ConnectAges,
           MonitorMoves, ResponseMoves, AckArrives, StreamMoves, OnlineMoves,
           AppFrame, AppWakeFrame
  <1>2. CASE UNCHANGED local
    BY <1>1, <1>2 DEF WorldMoves
  <1>3. ASSUME NEW reading \in Monitors, MonitorMoves(reading)
        PROVE  WorldMoves
    BY <1>1, <1>3 DEF MonitorMoves, WorldMoves, TypeOK, Locals
  <1>4. CASE ResponseMoves
    BY <1>1, <1>4 DEF ResponseMoves, WorldMoves, TypeOK, Locals
  <1>5. ASSUME NEW c \in Callers,
               NEW verdict \in {"accepted", "refused", "unclear"},
               AckArrives(c, verdict)
        PROVE  WorldMoves
    BY <1>1, <1>5 DEF AckArrives, WorldMoves, TypeOK, Locals
  <1>6. QED
    BY <1>2, <1>3, <1>4, <1>5
    DEF vars, Environment, HolderMoves, MachineConnects, ConnectAges,
        StreamMoves, OnlineMoves, AppFrame, AppWakeFrame

\* Each step of a caller has one of the shapes.
LEMMA CallerShape ==
  ASSUME TypeOK, OutcomeInv, NEW c \in Callers,
         \/ Request(c) \/ Progress(c) \/ SessionTimeout(c) \/ Cancel(c)
  PROVE  CallerMoves(c)
  <1>1. CASE SyncSettles(c) \/ Cancel(c)
    <2>1. SyncSettles(c) => pc[c] \notin Holding
      BY DEF SyncSettles, Holding, Writing
    <2>2. QED
      BY <1>1, <2>1, RestsShape DEF SyncSettles, Cancel, CallerMoves
  <1>2. QED
    BY <1>1, RequestShape, SessionShape, WriteShape DEF Progress

\* A step of the command path is one of the caller's shapes, or the world's.
LEMMA StepShapes ==
  ASSUME TypeOK, OutcomeInv, [Next]_vars
  PROVE  (\E c \in Callers : CallerMoves(c)) \/ WorldMoves
  BY CallerShape, WorldShape DEF Next

---------------------------------------------------------------------------
(* The invariant is kept. *)

\* A caller's move concerns its own location, command and locals.
LEMMA MovesOnly ==
  ASSUME TypeOK, NEW c \in Callers, NEW p, NEW k, NEW l, Moves(c, p, k, l)
  PROVE  /\ pc'[c] = p /\ command'[c] = k /\ local'[c] = l
         /\ \A d \in Callers \ {c} :
                pc'[d] = pc[d] /\ command'[d] = command[d] /\ local'[d] = local[d]
  BY DEF TypeOK, Moves

\* It is enough to look at the caller that moves.
LEMMA MovesConsistent ==
  ASSUME TypeOK, OutcomeInv, NEW c \in Callers, NEW p, NEW k, NEW l,
         Moves(c, p, k, l), UNCHANGED monitor, Consistent(p, k, l)
  PROVE  OutcomeInv'
  <1> SUFFICES ASSUME NEW d \in Callers
               PROVE  Consistent(pc[d], command[d], local[d])'
    BY DEF OutcomeInv
  <1>1. CASE d = c
    BY <1>1, MovesOnly DEF Consistent, Witnessed
  <1>2. CASE d # c
    BY <1>2, MovesOnly DEF OutcomeInv, Consistent, Witnessed
  <1>3. QED
    BY <1>1, <1>2

\* The fields of the records the moves build.
LEMMA LocalFields ==
  ASSUME NEW l \in Locals
  PROVE  /\ ~Blank.wrote /\ Blank.ack = "none"
         /\ Snapshot(l).before = monitor
         /\ ~Snapshot(l).responded /\ ~Snapshot(l).wrote
         /\ Snapshot(l).ack = l.ack
         /\ [l EXCEPT !.wrote = TRUE].wrote
         /\ [l EXCEPT !.wrote = TRUE].before = l.before
         /\ [l EXCEPT !.wrote = TRUE].responded = l.responded
         /\ [l EXCEPT !.wrote = TRUE].ack = l.ack
         /\ [l EXCEPT !.wrote = TRUE].heard = l.heard
  BY DEF Blank, Snapshot, Locals

\* The shapes keep the invariant.
LEMMA CallerMovesConsistent ==
  ASSUME TypeOK, OutcomeInv, NEW c \in Callers, CallerMoves(c)
  PROVE  OutcomeInv'
  <1>1. /\ UNCHANGED monitor
        /\ Consistent(pc[c], command[c], local[c]) /\ local[c] \in Locals
    BY DEF CallerMoves, OutcomeInv, TypeOK
  <1>2. CASE Arrives(c)
    <2>1. PICK p \in {"fetch", "settle"}, k \in Commands : Moves(c, p, k, Blank)
      BY <1>2 DEF Arrives
    <2>2. Consistent(p, k, Blank)
      BY <1>1, LocalFields DEF Consistent, Writing
    <2>3. QED
      BY <1>1, <2>1, <2>2, MovesConsistent
  <1>3. CASE Transmits(c)
    <2>1. PICK k \in Commands \cup {NoCommand} :
              /\ Moves(c, FirstWrite(k), k, Snapshot(local[c]))
              /\ pc[c] \in Resting \cup {"fetch", "confirm"}
      BY <1>3 DEF Transmits
    <2>2. Consistent(FirstWrite(k), k, Snapshot(local[c]))
      BY <1>1, <2>1, LocalFields
      DEF Consistent, Witnessed, FirstWrite, Resting
    <2>3. QED
      BY <1>1, <2>1, <2>2, MovesConsistent
  <1>4. CASE Acquires(c)
    <2>1. PICK p \in {"fetch", "post", "confirm"}, l \in Locals :
              /\ pc[c] \in {"fetch", "post", "confirm"}
              /\ Moves(c, p, command[c], l)
              /\ l.wrote = local[c].wrote /\ l.ack = local[c].ack
      BY <1>4 DEF Acquires
    <2>2. Consistent(p, command[c], l)
      BY <1>1, <2>1 DEF Consistent, Writing
    <2>3. QED
      BY <1>1, <2>1, <2>2, MovesConsistent
  <1>5. CASE Nudges(c)
    <2>1. Consistent("write", command[c], Snapshot(local[c]))
      BY <1>1, <1>5, LocalFields DEF Nudges, Consistent, Witnessed
    <2>2. QED
      BY <1>1, <1>5, <2>1, MovesConsistent DEF Nudges
  <1>6. CASE Waits(c)
    <2>1. PICK p \in {"ack", "await"} :
              /\ pc[c] \in {"write", "ack"}
              /\ Moves(c, p, command[c], [local[c] EXCEPT !.wrote = TRUE])
      BY <1>6 DEF Waits
    <2>2. Consistent(p, command[c], [local[c] EXCEPT !.wrote = TRUE])
      BY <1>1, <2>1, LocalFields DEF Consistent, Witnessed, Writing
    <2>3. QED
      BY <1>1, <2>1, <2>2, MovesConsistent
  <1>7. CASE Finishes(c)
    <2> DEFINE p == IF command[c].kind = "sync" THEN "settle" ELSE "done"
               l == [Blank EXCEPT !.wrote = TRUE]
    <2>1. Moves(c, p, NoCommand, l)
      BY <1>7 DEF Finishes, Completes, Moves
    <2>2. Consistent(p, NoCommand, l)
      BY DEF Blank, Consistent, Writing
    <2> HIDE DEF p, l
    <2>3. QED
      BY <1>1, <2>1, <2>2, MovesConsistent
  <1>8. CASE Quits(c)
    <2>1. PICK p \in {"failed", "idle"} : Moves(c, p, NoCommand, Blank)
      BY <1>8 DEF Quits
    <2>2. Consistent(p, NoCommand, Blank)
      BY <1>1, LocalFields DEF Consistent, Writing
    <2>3. QED
      BY <1>1, <2>1, <2>2, MovesConsistent
  <1>9. QED
    BY <1>2, <1>3, <1>4, <1>5, <1>6, <1>7, <1>8 DEF CallerMoves

\* Whatever the machine shows is heard by every caller that has begun to write.
LEMMA WorldConsistent ==
  ASSUME TypeOK, OutcomeInv, Environment \/ UNCHANGED vars
  PROVE  OutcomeInv'
  <1>1. UNCHANGED <<pc, command>>
    BY WorldShape DEF WorldMoves
  <1>2. CASE UNCHANGED <<local, monitor>>
    BY <1>1, <1>2 DEF OutcomeInv, Consistent, Witnessed
  <1>3. ASSUME \A c \in Callers :
                   /\ local'[c].wrote = local[c].wrote
                   /\ local'[c].ack = local[c].ack
                   /\ local'[c].heard \/ pc[c] \notin Writing
        PROVE  OutcomeInv'
    BY <1>1, <1>3 DEF OutcomeInv, Consistent, Witnessed
  <1>4. ASSUME NEW reading \in Monitors, MonitorMoves(reading)
        PROVE  OutcomeInv'
    <2>1. \A c \in Callers :
              /\ local'[c].wrote = local[c].wrote
              /\ local'[c].ack = local[c].ack
              /\ local'[c].heard \/ pc[c] \notin Writing
      BY <1>4 DEF MonitorMoves, TypeOK, Locals
    <2>2. QED
      BY <1>3, <2>1
  <1>5. CASE ResponseMoves
    <2>1. \A c \in Callers :
              local'[c] = IF pc[c] \in Writing
                          THEN [local[c] EXCEPT !.responded = TRUE, !.heard = TRUE]
                          ELSE local[c]
      BY <1>5 DEF ResponseMoves
    <2>2. \A c \in Callers :
              /\ local'[c].wrote = local[c].wrote
              /\ local'[c].ack = local[c].ack
              /\ local'[c].heard \/ pc[c] \notin Writing
      BY <2>1 DEF TypeOK, Locals
    <2>3. QED
      BY <1>3, <2>2
  <1>6. ASSUME NEW c \in Callers,
               NEW verdict \in {"accepted", "refused", "unclear"},
               AckArrives(c, verdict)
        PROVE  OutcomeInv'
    <2> DEFINE l == IF verdict = "accepted"
                    THEN [local[c] EXCEPT !.ack = verdict, !.heard = TRUE]
                    ELSE [local[c] EXCEPT !.ack = verdict]
    <2>1. /\ pc[c] \in {"write", "ack"} /\ UNCHANGED monitor
          /\ Moves(c, pc[c], command[c], l)
      BY <1>6, Kept DEF AckArrives, Moves
    <2>2. Consistent(pc[c], command[c], l)
      <3>1. /\ l.wrote = local[c].wrote
            /\ l.before = local[c].before /\ l.responded = local[c].responded
            /\ l.ack = verdict
            /\ local[c].heard \/ verdict = "accepted" => l.heard
        BY DEF TypeOK, Locals
      <3>2. Consistent(pc[c], command[c], local[c])
        BY DEF OutcomeInv
      <3> HIDE DEF l
      <3>3. QED
        BY <2>1, <3>1, <3>2 DEF Consistent, Witnessed
    <2> HIDE DEF l
    <2>3. QED
      BY <2>1, <2>2, MovesConsistent
  <1>7. QED
    BY <1>2, <1>4, <1>5, <1>6
    DEF vars, Environment, HolderMoves, MachineConnects, ConnectAges,
        StreamMoves, OnlineMoves, AppFrame, AppWakeFrame

\* Every step keeps the invariant.
LEMMA StepConsistent == TypeOK /\ OutcomeInv /\ [Next]_vars => OutcomeInv'
  <1> SUFFICES ASSUME TypeOK, OutcomeInv, [Next]_vars PROVE OutcomeInv'
    OBVIOUS
  <1>1. CASE \E c \in Callers : CallerMoves(c)
    BY <1>1, CallerMovesConsistent
  <1>2. CASE Environment \/ UNCHANGED vars
    BY <1>2, WorldConsistent
  <1>3. ASSUME NEW c \in Callers,
               \/ Request(c) \/ Progress(c) \/ SessionTimeout(c) \/ Cancel(c)
        PROVE  CallerMoves(c)
    BY <1>3, CallerShape
  <1>4. QED
    BY <1>1, <1>2, <1>3 DEF Next

\* Where a caller is says whether its write was accepted, and what the machine
\* has shown since then is never overlooked.
THEOREM LocalsConsistent == Spec => []OutcomeInv
  <1>1. Init => OutcomeInv
    BY DEF Init, OutcomeInv, Consistent, Blank, Writing
  <1>2. QED
    BY <1>1, StepConsistent, TypeCorrect, PTL DEF Spec

---------------------------------------------------------------------------
(* What the shapes mean for a caller that changes its place. *)

\* A caller changes its place by a move of its own only.
LEMMA OwnMove ==
  ASSUME TypeOK, OutcomeInv, [Next]_vars, NEW c \in Callers, pc'[c] # pc[c]
  PROVE  CallerMoves(c)
  <1>1. ASSUME NEW d \in Callers \ {c}, CallerMoves(d)
        PROVE  FALSE
    <2>1. CASE \E p, k, l : Moves(d, p, k, l)
      BY <2>1, MovesOnly
    <2>2. CASE \E result : Completes(d, result, TRUE)
      BY <2>2 DEF Completes, TypeOK
    <2>3. QED
      BY <1>1, <2>1, <2>2
      DEF CallerMoves, Arrives, Transmits, Acquires, Nudges, Waits, Finishes,
          Quits
  <1>2. QED
    BY <1>1, StepShapes DEF WorldMoves

\* A command that ends is told "done" with its own result, and every other end
\* is told "failed" or nothing.
LEMMA FinishesAs ==
  ASSUME TypeOK, NEW c \in Callers, Finishes(c)
  PROVE  /\ pc'[c] = IF command[c].kind = "sync" THEN "settle" ELSE "done"
         /\ local'[c].wrote
         /\ command[c].kind # "sync" /\ lastResult' = "acknowledged"
                => local[c].heard
         /\ command[c].kind = "start" => active' = command[c].beverage
  BY DEF Finishes, Completes, Publish, TypeOK, Blank

---------------------------------------------------------------------------
(* Theorems. *)

\* A start whose datapoint the cloud accepted leaves its beverage active,
\* confirmed or timed out: Stop never finds nothing to stop after a drink began.
THEOREM StopKept == Spec => StartKeepsStop
  <1> DEFINE Keeps ==
        \A c \in Callers :
          (/\ Leaves(c, Writing)
           /\ command[c].kind = "start"
           /\ pc'[c] = "done" \/ (pc'[c] = "failed" /\ local[c].wrote)
           /\ local[c].ack # "refused")
          => active' = command[c].beverage
  <1>1. TypeOK /\ OutcomeInv /\ [Next]_vars => Keeps
    <2> SUFFICES ASSUME TypeOK, OutcomeInv, [Next]_vars, NEW c \in Callers,
                        pc[c] \in Writing, pc'[c] \notin Writing,
                        command[c].kind = "start",
                        pc'[c] = "done" \/ (pc'[c] = "failed" /\ local[c].wrote),
                        local[c].ack # "refused"
                 PROVE  active' = command[c].beverage
      BY DEF Leaves
    <2>1. CallerMoves(c)
      BY OwnMove
    <2>2. CASE Finishes(c)
      BY <2>2, FinishesAs
    <2>3. CASE Quits(c)
      BY <2>3, MovesOnly DEF Quits
    <2>4. CASE Transmits(c)
      BY <2>4 DEF Transmits, Writing, Resting
    <2>5. CASE Nudges(c) \/ Waits(c)
      BY <2>5, MovesOnly DEF Nudges, Waits
    <2>6. CASE Arrives(c) \/ Acquires(c)
      BY <2>6, MovesOnly DEF Arrives, Acquires
    <2>7. QED
      BY <2>1, <2>2, <2>3, <2>4, <2>5, <2>6 DEF CallerMoves
  <1>2. QED
    BY <1>1, LocalsConsistent, TypeCorrect, PTL DEF Spec, StartKeepsStop

\* "acknowledged" is never published to a caller for what the machine showed
\* before the POST of the command's own frame was called; from then on
\* everything it shows counts, to whichever frame it answers.
THEOREM AcknowledgedHonest == Spec => AcknowledgedOnEvidence
  <1> DEFINE Honest ==
        \A c \in Callers :
          (Leaves(c, Holding) /\ pc'[c] = "done" /\ lastResult' = "acknowledged")
          => local[c].heard
  <1>1. TypeOK /\ OutcomeInv /\ [Next]_vars => Honest
    <2> SUFFICES ASSUME TypeOK, OutcomeInv, [Next]_vars, NEW c \in Callers,
                        pc[c] \in Holding, pc'[c] = "done",
                        lastResult' = "acknowledged"
                 PROVE  local[c].heard
      BY DEF Leaves
    <2>1. CallerMoves(c)
      BY OwnMove DEF Holding, Writing
    <2>2. CASE Finishes(c)
      BY <2>2, FinishesAs
    <2>3. CASE \/ Arrives(c) \/ Transmits(c) \/ Acquires(c) \/ Nudges(c)
               \/ Waits(c) \/ Quits(c)
      <3>1. PICK p, k, l : Moves(c, p, k, l) /\ p # "done"
        BY <2>3
        DEF Arrives, Transmits, FirstWrite, Acquires, Nudges, Waits, Quits
      <3>2. QED
        BY <3>1, MovesOnly
    <2>4. QED
      BY <2>1, <2>2, <2>3 DEF CallerMoves
  <1>2. QED
    BY <1>1, LocalsConsistent, TypeCorrect, PTL DEF Spec, AcknowledgedOnEvidence

---------------------------------------------------------------------------
(* The refinement.  Every shape is a step of the serial service on the      *)
(* caller's phase, or changes nothing the service knows of.                 *)

PhaseOf(p) == IF p \in Holding THEN "running"
              ELSE IF p = "done" THEN "done" ELSE "resting"

phaseBar    == [c \in Callers |-> PhaseOf(pc[c])]
acceptedBar == [c \in Callers |-> pc[c] # "settle" /\ local[c].wrote]

\* A caller's move changes its own entry of the mapped variables only.
LEMMA BarsMove ==
  ASSUME TypeOK, NEW c \in Callers, NEW p, NEW k, NEW l, Moves(c, p, k, l)
  PROVE  /\ phaseBar' = [phaseBar EXCEPT ![c] = PhaseOf(p)]
         /\ p # "settle" /\ l.wrote
                => acceptedBar' = [acceptedBar EXCEPT ![c] = TRUE]
         /\ p = "settle" \/ ~l.wrote
                => acceptedBar' = [acceptedBar EXCEPT ![c] = FALSE]
  <1>1. /\ pc'[c] = p /\ local'[c] = l
        /\ \A d \in Callers \ {c} : pc'[d] = pc[d] /\ local'[d] = local[d]
    BY MovesOnly
  <1>2. phaseBar' = [phaseBar EXCEPT ![c] = PhaseOf(p)]
    BY <1>1 DEF phaseBar
  <1>3. acceptedBar' = [acceptedBar EXCEPT ![c] = p # "settle" /\ l.wrote]
    BY <1>1 DEF acceptedBar
  <1>4. /\ p # "settle" /\ l.wrote => (p # "settle" /\ l.wrote) = TRUE
        /\ p = "settle" \/ ~l.wrote => (p # "settle" /\ l.wrote) = FALSE
    BY Zenon
  <1>5. QED
    BY <1>2, <1>3, <1>4, Zenon

\* A step of the service on the mapped variables.
SerialStep(c) ==
    \/ /\ \A d \in Callers : phaseBar[d] # "running"
       /\ phaseBar' = [phaseBar EXCEPT ![c] = "running"]
       /\ acceptedBar' = [acceptedBar EXCEPT ![c] = FALSE]
    \/ /\ phaseBar[c] = "running"
       /\ acceptedBar' = [acceptedBar EXCEPT ![c] = TRUE]
       /\ phaseBar' = phaseBar
    \/ /\ phaseBar[c] = "running"
       /\ phaseBar' = [phaseBar EXCEPT ![c] = "done"]
       /\ acceptedBar' = [acceptedBar EXCEPT ![c] = TRUE]
    \/ /\ phaseBar' = [phaseBar EXCEPT ![c] = "resting"]
       /\ acceptedBar' = [acceptedBar EXCEPT ![c] = FALSE]

\* What the bars say of a caller, and when nobody runs.
LEMMA BarsNow ==
  ASSUME TypeOK, OneTransaction, OutcomeInv, NEW c \in Callers
  PROVE  /\ pc[c] \in Holding => phaseBar[c] = "running"
         /\ phaseBar = [phaseBar EXCEPT ![c] = PhaseOf(pc[c])]
         /\ ~local[c].wrote => acceptedBar = [acceptedBar EXCEPT ![c] = FALSE]
         /\ commandLock = NoOne => \A d \in Callers : phaseBar[d] # "running"
  <1>1. pc[c] \in Holding => phaseBar[c] = "running"
    BY DEF phaseBar, PhaseOf
  <1>2. phaseBar = [phaseBar EXCEPT ![c] = PhaseOf(pc[c])]
    BY DEF phaseBar
  <1>3. ~local[c].wrote => acceptedBar = [acceptedBar EXCEPT ![c] = FALSE]
    BY DEF acceptedBar
  <1>4. commandLock = NoOne => \A d \in Callers : phaseBar[d] # "running"
    BY ConstantsAssumption DEF OneTransaction, phaseBar, PhaseOf
  <1>5. QED
    BY <1>1, <1>2, <1>3, <1>4

\* A shape is a step of the serial service, or leaves it alone.
LEMMA CallerMovesSerially ==
  ASSUME TypeOK, OneTransaction, OutcomeInv, NEW c \in Callers, CallerMoves(c)
  PROVE  SerialStep(c) \/ UNCHANGED <<phaseBar, acceptedBar>>
  <1> USE DEF SerialStep
  <1>1. Consistent(pc[c], command[c], local[c]) /\ local[c] \in Locals
    BY DEF OutcomeInv, TypeOK
  <1>2. CASE Arrives(c)
    <2>1. PICK p \in {"fetch", "settle"}, k \in Commands :
              Moves(c, p, k, Blank) /\ (p = "fetch" => commandLock = NoOne)
      BY <1>2 DEF Arrives
    <2>2. /\ phaseBar' = [phaseBar EXCEPT ![c] = PhaseOf(p)]
          /\ acceptedBar' = [acceptedBar EXCEPT ![c] = FALSE]
      BY <2>1, BarsMove DEF Blank
    <2>3. QED
      BY <2>1, <2>2, BarsNow DEF PhaseOf, Holding, Writing
  <1>3. CASE Transmits(c)
    <2>1. PICK k \in Commands \cup {NoCommand} :
              /\ Moves(c, FirstWrite(k), k, Snapshot(local[c]))
              /\ commandLock = NoOne \/ pc[c] \in {"fetch", "confirm"}
      BY <1>3 DEF Transmits
    <2>2. /\ phaseBar' = [phaseBar EXCEPT ![c] = "running"]
          /\ acceptedBar' = [acceptedBar EXCEPT ![c] = FALSE]
      BY <1>1, <2>1, BarsMove, LocalFields
      DEF FirstWrite, PhaseOf, Holding, Writing
    <2>3. CASE commandLock = NoOne
      BY <2>2, <2>3, BarsNow
    <2>4. CASE pc[c] \in {"fetch", "confirm"}
      BY <1>1, <2>2, <2>4, BarsNow DEF Consistent, PhaseOf, Holding
    <2>5. QED
      BY <2>1, <2>3, <2>4
  <1>4. CASE Acquires(c)
    <2>1. PICK p \in {"fetch", "post", "confirm"}, l \in Locals :
              /\ pc[c] \in {"fetch", "post", "confirm"}
              /\ Moves(c, p, command[c], l)
              /\ l.wrote = local[c].wrote
      BY <1>4 DEF Acquires
    <2>2. ~local[c].wrote /\ pc[c] \in Holding /\ p \in Holding
      BY <1>1, <2>1 DEF Consistent, Holding
    <2>3. QED
      BY <2>1, <2>2, BarsMove, BarsNow DEF PhaseOf
  <1>5. CASE Nudges(c)
    <2>1. /\ ~local[c].wrote /\ ~Snapshot(local[c]).wrote
          /\ pc[c] \in Holding /\ "write" \in Holding
      BY <1>1, <1>5, LocalFields DEF Nudges, Consistent, Holding, Writing
    <2>2. QED
      BY <1>5, <2>1, BarsMove, BarsNow DEF Nudges, PhaseOf
  <1>6. CASE Waits(c)
    <2> DEFINE l == [local[c] EXCEPT !.wrote = TRUE]
    <2>1. PICK p \in {"ack", "await"} :
              pc[c] \in {"write", "ack"} /\ Moves(c, p, command[c], l) /\ l.wrote
      BY <1>1, <1>6, LocalFields DEF Waits
    <2> HIDE DEF l
    <2>2. /\ phaseBar' = [phaseBar EXCEPT ![c] = "running"]
          /\ acceptedBar' = [acceptedBar EXCEPT ![c] = TRUE]
      BY <2>1, BarsMove DEF PhaseOf, Holding, Writing
    <2>3. pc[c] \in Holding
      BY <2>1 DEF Holding, Writing
    <2>4. QED
      BY <2>2, <2>3, BarsNow DEF PhaseOf
  <1>7. CASE Finishes(c)
    <2> DEFINE p == IF command[c].kind = "sync" THEN "settle" ELSE "done"
               l == [Blank EXCEPT !.wrote = TRUE]
    <2>1. Moves(c, p, NoCommand, l) /\ l.wrote
      BY <1>7 DEF Finishes, Completes, Moves, Blank
    <2>2. pc[c] \in Holding
      BY <1>7 DEF Finishes, Holding, Writing
    <2>3. p \in {"settle", "done"}
      OBVIOUS
    <2> HIDE DEF p, l
    <2>4. /\ phaseBar' = [phaseBar EXCEPT ![c] = PhaseOf(p)]
          /\ acceptedBar' = [acceptedBar EXCEPT ![c] = (p = "done")]
      BY <2>1, <2>3, BarsMove
    <2>5. QED
      BY <2>2, <2>3, <2>4, BarsNow DEF PhaseOf, Holding, Writing
  <1>8. CASE Quits(c)
    <2>1. PICK p \in {"failed", "idle"} : Moves(c, p, NoCommand, Blank)
      BY <1>8 DEF Quits
    <2>2. QED
      BY <2>1, BarsMove DEF PhaseOf, Holding, Writing, Blank
  <1>9. QED
    BY <1>2, <1>3, <1>4, <1>5, <1>6, <1>7, <1>8 DEF CallerMoves

\* The command path implements the serial command service: requests run one at
\* a time, and a caller told "done" had a write of its own accepted meanwhile.
THEOREM SerialImplemented == Spec => ImplementsSerialCommands
  <1>1. Init => Serial!SInit
    <2> SUFFICES ASSUME Init PROVE Serial!SInit
      OBVIOUS
    <2>1. \A c \in Callers : pc[c] = "idle" /\ local[c].wrote = FALSE
      BY DEF Init, Blank
    <2>2. \A c \in Callers : (pc[c] # "settle" /\ local[c].wrote) = FALSE
      BY <2>1, Zenon
    <2>3. QED
      BY <2>1, <2>2 DEF Serial!SInit, Holding, Writing
  <1>2. ASSUME NEW c \in Callers, SerialStep(c)
        PROVE  Serial!SNext
    BY <1>2 DEF SerialStep, phaseBar, acceptedBar, PhaseOf, Serial!SNext,
                Serial!Begin, Serial!Deliver, Serial!Succeed, Serial!GiveUp
  <1>3. TypeOK /\ OneTransaction /\ OutcomeInv /\ [Next]_vars
        => [Serial!SNext]_(Serial!svars)
    <2> SUFFICES ASSUME TypeOK, OneTransaction, OutcomeInv, [Next]_vars
                 PROVE  [Serial!SNext]_(Serial!svars)
      OBVIOUS
    <2>1. CASE UNCHANGED <<phaseBar, acceptedBar>>
      BY <2>1 DEF phaseBar, acceptedBar, PhaseOf, Serial!svars
    <2>2. CASE WorldMoves
      BY <2>1, <2>2 DEF WorldMoves, phaseBar, acceptedBar
    <2>3. QED
      BY <1>2, <2>1, <2>2, StepShapes, CallerMovesSerially
  <1>4. QED
    BY <1>1, <1>3, LocalsConsistent, MutualExclusion, TypeCorrect, PTL
    DEF Spec, ImplementsSerialCommands, Serial!SSpec
===========================================================================
