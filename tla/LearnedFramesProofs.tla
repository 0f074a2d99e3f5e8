------------------------ MODULE LearnedFramesProofs ------------------------
(***************************************************************************)
(* Theorems about LearnedFrames: every table the coordinator works with     *)
(* holds valid frames of one machine.  The argument is the same for a start  *)
(* (Restored keeps what agrees with the first valid frame) and for a capture *)
(* (a frame is filed only when it agrees with the ones there are).          *)
(***************************************************************************)
EXTENDS LearnedFrames, TLAPS

Clean(table) ==
    \A k \in Keys : table[k] # NoFrame => Valid(table[k], k, NoSignature)

One(table) ==
    \A k, l \in Keys : table[k] # NoFrame /\ table[l] # NoFrame =>
        table[k].signature = table[l].signature

Follows(id, table) == \A s \in Known(table) : s # NoSignature => id = s

---------------------------------------------------------------------------
(* Keys, frames and signatures. *)

\* A key other than the wake key is a start or a stop of a beverage.
LEMMA KeyCases ==
    ASSUME NEW k \in Keys, k # WakeKey
    PROVE  k \in KeysOf("start") \/ k \in KeysOf("stop")
  BY DEF Keys, KeysOf, WakeKey

\* A valid frame is signed, agrees with the expected signature and is valid by
\* itself.
LEMMA ValidFacts ==
    ASSUME NEW f, NEW k, NEW e, Valid(f, k, e)
    PROVE  /\ f.signature # NoSignature
           /\ e \in {NoSignature, f.signature}
           /\ Valid(f, k, NoSignature)
  BY DEF Valid, Waking, Replayable

\* A frame valid by itself is valid for its own signature.
LEMMA ValidForOwn ==
    ASSUME NEW f, NEW k, NEW e, Valid(f, k, NoSignature),
           e \in {NoSignature, f.signature}
    PROVE  Valid(f, k, e)
  BY DEF Valid, Waking, Replayable

\* _learned_device_signature is none, or that of a frame of the table.
LEMMA KnownCases ==
    ASSUME NEW table, NEW s \in Known(table)
    PROVE  \/ /\ s = NoSignature
              /\ \A k \in Keys : table[k] # NoFrame =>
                    table[k].signature = NoSignature
           \/ /\ s # NoSignature
              /\ \E k \in Keys : table[k] # NoFrame /\ table[k].signature = s
  BY DEF Known, OrNone, SignaturesIn

\* There is always one.
LEMMA KnownSome ==
    ASSUME NEW table
    PROVE  Known(table) # {}
  BY DEF Known, OrNone

\* In a table of one machine it is that of every frame.
LEMMA KnownIs ==
    ASSUME NEW table, Clean(table), One(table), NEW s \in Known(table),
           NEW k \in Keys, table[k] # NoFrame
    PROVE  s = table[k].signature /\ s # NoSignature
  <1>1. table[k].signature # NoSignature
    BY ValidFacts DEF Clean
  <1>2. QED
    BY <1>1, KnownCases DEF One

\* Its type.
LEMMA KnownType ==
    ASSUME NEW table \in Tables, NEW s \in Known(table)
    PROVE  s \in Signatures \cup {NoSignature}
  BY KnownCases DEF Tables, Frames

\* The signature a load fixes is none when no beverage frame is valid by itself,
\* and otherwise that of one which is.
LEMMA FirstCases ==
    ASSUME NEW table
    PROVE  LET e == FirstSignature(table)
           IN  \/ /\ e = NoSignature
                  /\ \A k \in Keys : k # WakeKey /\ table[k] # NoFrame =>
                        ~Valid(table[k], k, NoSignature)
               \/ /\ e # NoSignature
                  /\ \E k \in Keys : table[k] # NoFrame /\ table[k].signature = e
  <1> DEFINE Ones(action) ==
            SignaturesIn(table, {k \in KeysOf(action) :
                table[k] # NoFrame /\ Replayable(table[k], k, NoSignature)})
             Choices == IF Ones("start") # {} THEN Ones("start")
                        ELSE OrNone(Ones("stop"))
             e == FirstSignature(table)
  <1>1. Choices # {}
    BY DEF OrNone
  <1>2. e = CHOOSE s \in Choices : TRUE
    BY DEF FirstSignature
  <1>3. e \in Choices
    BY <1>1, <1>2
  <1>4. \A k \in Keys : k # WakeKey =>
            k \in KeysOf("start") \/ k \in KeysOf("stop")
    BY KeyCases
  <1>5. KeysOf("start") \subseteq Keys /\ KeysOf("stop") \subseteq Keys
    BY DEF Keys, KeysOf
  <1>6. CASE e = NoSignature
    <2>1. Ones("start") = {} /\ Ones("stop") = {}
      BY <1>3, <1>6 DEF OrNone, SignaturesIn
    <2>2. ASSUME NEW k \in Keys, k # WakeKey, table[k] # NoFrame,
                 Valid(table[k], k, NoSignature)
          PROVE  FALSE
      <3>1. Replayable(table[k], k, NoSignature)
        BY <2>2 DEF Valid
      <3>2. table[k].signature # NoSignature
        BY <3>1 DEF Replayable
      <3>3. table[k].signature \in Ones("start")
                \/ table[k].signature \in Ones("stop")
        BY <1>4, <2>2, <3>1, <3>2 DEF SignaturesIn
      <3>4. QED
        BY <2>1, <3>3
    <2>3. QED
      BY <1>6, <2>2
  <1>7. CASE e # NoSignature
    <2>1. e \in Ones("start") \/ e \in Ones("stop")
      BY <1>3, <1>7 DEF OrNone
    <2>2. QED
      BY <1>5, <1>7, <2>1 DEF SignaturesIn
  <1>8. QED
    BY <1>6, <1>7

---------------------------------------------------------------------------
(* Tables. *)

\* What a start keeps is a table of valid frames of one machine.
LEMMA RestoredClean ==
    ASSUME NEW table \in Tables, NEW e, e = FirstSignature(table)
    PROVE  /\ Restored(table, e) \in Tables
           /\ Clean(Restored(table, e))
           /\ One(Restored(table, e))
  <1> DEFINE t == Restored(table, e)
  <1>1. \A k \in Keys : t[k] # NoFrame => t[k] = table[k] /\ Valid(table[k], k, e)
    BY DEF Restored, Kept
  <1>2. t \in Tables
    BY DEF Restored, Tables
  <1>3. Clean(t)
    BY <1>1, ValidFacts DEF Clean
  <1>4. One(t)
    <2>1. ASSUME NEW k \in Keys, NEW l \in Keys, t[k] # NoFrame, t[l] # NoFrame
          PROVE  t[k].signature = t[l].signature
      <3>1. CASE e = NoSignature
        <4>1. k = WakeKey
          BY <1>1, <2>1, <3>1, FirstCases
        <4>2. l = WakeKey
          BY <1>1, <2>1, <3>1, FirstCases
        <4>3. QED
          BY <4>1, <4>2
      <3>2. CASE e # NoSignature
        <4>1. e = t[k].signature
          BY <1>1, <2>1, <3>2, ValidFacts
        <4>2. e = t[l].signature
          BY <1>1, <2>1, <3>2, ValidFacts
        <4>3. QED
          BY <4>1, <4>2
      <3>3. QED
        BY <3>1, <3>2
    <2>2. QED
      BY <2>1 DEF One
  <1>5. QED
    BY <1>2, <1>3, <1>4

\* A table of valid frames of one machine survives a restart whole.
LEMMA RestoredWhole ==
    ASSUME NEW table \in Tables, Clean(table), One(table)
    PROVE  Restored(table, FirstSignature(table)) = table
  <1> DEFINE e == FirstSignature(table)
  <1>1. ASSUME NEW k \in Keys, table[k] # NoFrame
        PROVE  Valid(table[k], k, e)
    <2>1. Valid(table[k], k, NoSignature)
      BY <1>1 DEF Clean
    <2>2. e \in {NoSignature, table[k].signature}
      BY <1>1, FirstCases DEF One
    <2>3. QED
      BY <2>1, <2>2, ValidForOwn
  <1>2. \A k \in Keys : Restored(table, e)[k] = table[k]
    BY <1>1 DEF Restored, Kept
  <1>3. QED
    BY <1>2 DEF Restored, Tables

\* Filing a frame that agrees with the known signature keeps one machine.
LEMMA FiledClean ==
    ASSUME NEW table \in Tables, Clean(table), One(table),
           NEW k \in Keys, NEW f \in Frames, NEW e \in Known(table),
           Valid(f, k, e)
    PROVE  LET t == [table EXCEPT ![k] = f]
           IN  t \in Tables /\ Clean(t) /\ One(t)
  <1> DEFINE t == [table EXCEPT ![k] = f]
  <1>1. t \in Tables
    BY DEF Tables
  <1>2. t[k] = f /\ \A l \in Keys : l # k => t[l] = table[l]
    BY DEF Tables
  <1>3. Clean(t)
    BY <1>2, ValidFacts DEF Clean
  <1>4. \A l \in Keys : t[l] # NoFrame => t[l].signature = f.signature
    <2>1. ASSUME NEW l \in Keys, l # k, table[l] # NoFrame
          PROVE  table[l].signature = f.signature
      <3>1. e = table[l].signature /\ e # NoSignature
        BY <2>1, KnownIs
      <3>2. QED
        BY <3>1, ValidFacts
    <2>2. QED
      BY <1>2, <2>1
  <1>5. One(t)
    BY <1>4 DEF One
  <1>6. QED
    BY <1>1, <1>3, <1>5

\* So does dropping one.
LEMMA DroppedClean ==
    ASSUME NEW table \in Tables, Clean(table), One(table), NEW k \in Keys
    PROVE  LET t == [table EXCEPT ![k] = NoFrame]
           IN  t \in Tables /\ Clean(t) /\ One(t)
  <1> DEFINE t == [table EXCEPT ![k] = NoFrame]
  <1>1. t[k] = NoFrame /\ \A l \in Keys : l # k => t[l] = table[l]
    BY DEF Tables
  <1>2. t \in Tables
    BY DEF Tables
  <1>3. QED
    BY <1>1, <1>2 DEF Clean, One

\* _restore_device_app_id makes the identity follow a table of one machine.
LEMMA RestoresFollows ==
    ASSUME NEW table, Clean(table), One(table), NEW s \in Known(table),
           NEW id, s # NoSignature => id = s
    PROVE  Follows(id, table)
  <1>1. ASSUME NEW r \in Known(table), r # NoSignature
        PROVE  r = s
    <2>1. PICK k \in Keys : table[k] # NoFrame /\ table[k].signature = r
      BY <1>1, KnownCases
    <2>2. QED
      BY <2>1, KnownIs
  <1>2. QED
    BY <1>1 DEF Follows

---------------------------------------------------------------------------
(* The invariant. *)

\* The identity properties and what makes them inductive.  Until a reload finds
\* a save pending, a start would load again what is not waiting to be saved, and
\* a coordinator that could read the store has or asks for all that is stored.
IInv ==
    /\ TypeOK
    /\ Clean(learned)
    /\ One(learned)
    /\ Follows(identity, learned)
    /\ IssueAsksForMissing
    /\ ~raced => lateSave = NoTable
    /\ ~raced /\ ~pendingSave =>
           \A k \in Keys : learned[k] # NoFrame =>
               Restored(store, FirstSignature(store))[k] # NoFrame
    /\ ~raced /\ ~unread =>
           \A k \in Keys : store[k] # NoFrame =>
               learned[k] # NoFrame \/ k \in discarded

\* What a load of any stored tables establishes.
LEMMA LoadGood ==
    ASSUME TypeOK, NEW table \in Tables, Loads(table)
    PROVE  /\ learned' = Restored(table, FirstSignature(table))
           /\ learned' \in Tables /\ Clean(learned') /\ One(learned')
           /\ identity' \in Signatures \cup {NoSignature}
           /\ Follows(identity', learned')
           /\ discarded' \subseteq Keys /\ owed' \subseteq Keys
           /\ issue' \in BOOLEAN /\ unread' = FALSE
           /\ IssueAsksForMissing'
           /\ \A k \in Keys : table[k] # NoFrame =>
                  learned'[k] # NoFrame \/ k \in discarded'
  <1> DEFINE e == FirstSignature(table)
  <1>1. learned' = Restored(table, e) /\ learned' \in Tables
            /\ Clean(learned') /\ One(learned')
    BY RestoredClean DEF Loads
  <1>2. PICK s \in Known(learned') : identity' = s
    BY <1>1 DEF Loads
  <1>3. identity' \in Signatures \cup {NoSignature}
    BY <1>1, <1>2, KnownType
  <1>4. Follows(identity', learned')
    BY <1>1, <1>2, RestoresFollows
  <1>5. /\ discarded' = Dropped(table, e)
        /\ issue' = (Dropped(table, e) # {})
        /\ owed' = owed \cup Dropped(table, e)
        /\ unread' = FALSE
    BY DEF Loads
  <1>6. Dropped(table, e) \subseteq Keys
    BY DEF Dropped
  <1>7. \A k \in Dropped(table, e) : learned'[k] = NoFrame
    BY <1>1 DEF Dropped, Restored
  <1>8. \A k \in Keys : table[k] # NoFrame =>
            learned'[k] # NoFrame \/ k \in discarded'
    BY <1>1, <1>5 DEF Dropped, Restored
  <1>9. QED
    BY <1>1, <1>3, <1>4, <1>5, <1>6, <1>7, <1>8 DEF TypeOK, IssueAsksForMissing

\* Empty tables are clean.
LEMMA EmptyClean ==
    /\ EmptyTable \in Tables /\ Clean(EmptyTable) /\ One(EmptyTable)
    /\ \A k \in Keys : EmptyTable[k] = NoFrame
    /\ Follows(NoSignature, EmptyTable)
  <1>1. EmptyTable \in Tables /\ \A k \in Keys : EmptyTable[k] = NoFrame
    BY DEF EmptyTable, Tables
  <1>2. Follows(NoSignature, EmptyTable)
    BY <1>1, KnownCases DEF Follows
  <1>3. QED
    BY <1>1, <1>2 DEF Clean, One

\* What a boot establishes: the tables a load keeps, or none.
LEMMA BootGood ==
    ASSUME TypeOK, NEW table \in Tables, Boot(table)
    PROVE  /\ learned' \in Tables /\ Clean(learned') /\ One(learned')
           /\ identity' \in Signatures \cup {NoSignature}
           /\ Follows(identity', learned')
           /\ discarded' \subseteq Keys /\ owed' \subseteq Keys
           /\ issue' \in BOOLEAN /\ unread' \in BOOLEAN
           /\ active' = NoBeverage /\ pendingSave' = FALSE
           /\ IssueAsksForMissing'
           /\ \/ learned' = Restored(table, FirstSignature(table))
              \/ unread' /\ \A k \in Keys : learned'[k] = NoFrame
           /\ ~unread' => \A k \in Keys : table[k] # NoFrame =>
                  learned'[k] # NoFrame \/ k \in discarded'
  <1>1. active' = NoBeverage /\ pendingSave' = FALSE
    BY DEF Boot
  <1>2. CASE Loads(table)
    BY <1>1, <1>2, LoadGood
  <1>3. CASE LoadFails
    <2>1. /\ learned' = EmptyTable /\ discarded' = {} /\ identity' = NoSignature
          /\ unread' = TRUE /\ UNCHANGED <<issue, owed>>
      BY <1>3 DEF LoadFails
    <2>2. IssueAsksForMissing'
      BY <2>1 DEF IssueAsksForMissing
    <2>3. QED
      BY <1>1, <2>1, <2>2, EmptyClean DEF TypeOK
  <1>4. QED
    BY <1>2, <1>3 DEF Boot

\* A boot from the stored tables keeps what a coordinator needs of them.
LEMMA BootIInv ==
    ASSUME TypeOK, NEW table \in Tables, Boot(table), store' = table,
           preparing' \in BOOLEAN, raced' \in BOOLEAN,
           lateSave' \in Tables \cup {NoTable}, ~raced' => lateSave' = NoTable
    PROVE  IInv'
  <1>1. TypeOK'
    BY BootGood DEF TypeOK
  <1>2. \A k \in Keys : learned'[k] # NoFrame =>
            Restored(table, FirstSignature(table))[k] # NoFrame
    BY BootGood
  <1>3. QED
    BY <1>1, <1>2, BootGood DEF IInv

\* What filing and relearning a valid frame establishes.
LEMMA CaptureGood ==
    ASSUME IInv, NEW k \in Keys, NEW f \in Frames, NEW e \in Known(learned),
           Valid(f, k, e), Files(k, f), Relearns(k), unread' = unread
    PROVE  /\ learned' \in Tables /\ Clean(learned') /\ One(learned')
           /\ identity' \in Signatures \cup {NoSignature}
           /\ Follows(identity', learned')
           /\ discarded' \subseteq Keys /\ owed' \subseteq Keys
           /\ issue' \in BOOLEAN /\ pendingSave' \in BOOLEAN
           /\ IssueAsksForMissing'
           /\ ~pendingSave' => UNCHANGED <<learned, pendingSave>>
           /\ \A l \in Keys : learned[l] # NoFrame \/ l \in discarded =>
                  learned'[l] # NoFrame \/ l \in discarded'
  <1> DEFINE t == [learned EXCEPT ![k] = f]
  <1> USE DEF IInv
  <1>1. learned \in Tables
    BY DEF TypeOK
  <1>2. t \in Tables /\ Clean(t) /\ One(t)
    BY <1>1, FiledClean
  <1>3. t[k] = f /\ \A l \in Keys : l # k => t[l] = learned[l]
    BY <1>1 DEF Tables
  <1>4. CASE learned' = t /\ Restores(t) /\ pendingSave' = TRUE
    <2>1. PICK s \in Known(t) : identity' = IF s = NoSignature THEN identity ELSE s
      BY <1>4 DEF Restores
    <2>2. identity' \in Signatures \cup {NoSignature}
      BY <1>2, <2>1, KnownType DEF TypeOK
    <2>3. Follows(identity', t)
      BY <1>2, <2>1, RestoresFollows
    <2>4. IssueAsksForMissing'
      BY <1>3, <1>4 DEF IssueAsksForMissing, Relearns, TypeOK
    <2>5. \A l \in Keys : learned[l] # NoFrame \/ l \in discarded =>
              learned'[l] # NoFrame \/ l \in discarded'
      BY <1>3, <1>4, FramesAssumption DEF Relearns
    <2>6. QED
      BY <1>2, <1>4, <2>2, <2>3, <2>4, <2>5 DEF Relearns, TypeOK
  <1>5. CASE learned[k] = f /\ UNCHANGED <<learned, identity, pendingSave>>
    <2>1. IssueAsksForMissing'
      BY <1>5 DEF IssueAsksForMissing, Relearns, TypeOK
    <2>2. \A l \in Keys : learned[l] # NoFrame \/ l \in discarded =>
              learned'[l] # NoFrame \/ l \in discarded'
      BY <1>5, FramesAssumption DEF Relearns
    <2>3. QED
      BY <1>1, <1>5, <2>1, <2>2 DEF Relearns, TypeOK, Follows
  <1>6. QED
    BY <1>4, <1>5 DEF Files

\* What dropping a frame or sending one establishes.
LEMMA SendGood ==
    ASSUME IInv, NEW k \in Keys, k # WakeKey, Sent(k) \/ Invalid(k),
           unread' = unread
    PROVE  /\ learned' \in Tables /\ Clean(learned') /\ One(learned')
           /\ active' \in Beverages \cup {NoBeverage}
           /\ identity' \in Signatures \cup {NoSignature}
           /\ Follows(identity', learned')
           /\ discarded' \subseteq Keys /\ owed' \subseteq Keys
           /\ issue' \in BOOLEAN /\ pendingSave' \in BOOLEAN
           /\ IssueAsksForMissing'
           /\ ~pendingSave' => UNCHANGED <<learned, pendingSave>>
           /\ \A l \in Keys : learned[l] # NoFrame \/ l \in discarded =>
                  learned'[l] # NoFrame \/ l \in discarded'
  <1> USE DEF IInv
  <1>1. CASE Sent(k)
    <2>1. k[2] \in Beverages
      BY DEF Keys, WakeKey
    <2>2. QED
      BY <1>1, <2>1 DEF Sent, TypeOK, Follows, IssueAsksForMissing
  <1>2. CASE Invalid(k)
    <2> DEFINE t == [learned EXCEPT ![k] = NoFrame]
    <2>1. learned \in Tables
      BY DEF TypeOK
    <2>2. t \in Tables /\ Clean(t) /\ One(t)
      BY <2>1, DroppedClean
    <2>3. t[k] = NoFrame /\ \A l \in Keys : l # k => t[l] = learned[l]
      BY <2>1 DEF Tables
    <2>4. ASSUME NEW s \in Known(t), s # NoSignature
          PROVE  identity = s
      <3>1. PICK l \in Keys : t[l] # NoFrame /\ t[l].signature = s
        BY <2>4, KnownCases
      <3>2. learned[l] # NoFrame /\ learned[l].signature = s
        BY <2>3, <3>1
      <3>3. PICK r \in Known(learned) : TRUE
        BY KnownSome
      <3>4. r = s
        BY <3>2, <3>3, KnownIs
      <3>5. QED
        BY <2>4, <3>4 DEF Follows
    <2>5. Follows(identity', learned')
      BY <1>2, <2>4 DEF Follows, Invalid
    <2>6. IssueAsksForMissing'
      BY <1>2, <2>3 DEF Invalid, IssueAsksForMissing, TypeOK
    <2>7. \A l \in Keys : learned[l] # NoFrame \/ l \in discarded =>
              learned'[l] # NoFrame \/ l \in discarded'
      BY <1>2, <2>3 DEF Invalid
    <2>8. QED
      BY <1>2, <2>2, <2>5, <2>6, <2>7 DEF Invalid, TypeOK
  <1>3. QED
    BY <1>1, <1>2

\* The invariant holds initially.
LEMMA InitIInv == Init => IInv
  <1> SUFFICES ASSUME Init
               PROVE  IInv
    OBVIOUS
  <1> DEFINE e == FirstSignature(store)
  <1>1. store \in Tables /\ ~raced /\ lateSave = NoTable /\ ~pendingSave
    BY FramesAssumption DEF Init
  <1>2. CASE Loaded
    <2>1. learned = Restored(store, e) /\ learned \in Tables
              /\ Clean(learned) /\ One(learned)
      BY <1>1, <1>2, RestoredClean DEF Loaded
    <2>2. identity \in Known(learned)
      BY <1>2, <2>1 DEF Loaded
    <2>3. identity \in Signatures \cup {NoSignature}
      BY <2>1, <2>2, KnownType
    <2>4. Follows(identity, learned)
      BY <2>1, <2>2, RestoresFollows
    <2>5. IssueAsksForMissing
      BY <1>2, <2>1 DEF Loaded, IssueAsksForMissing, Dropped, Restored
    <2>6. TypeOK
      BY <1>1, <1>2, <2>1, <2>3 DEF Init, Loaded, TypeOK, Dropped
    <2>7. \A k \in Keys : store[k] # NoFrame =>
              learned[k] # NoFrame \/ k \in discarded
      BY <1>2, <2>1 DEF Loaded, Dropped, Restored
    <2>8. QED
      BY <1>1, <2>1, <2>4, <2>5, <2>6, <2>7 DEF IInv
  <1>3. CASE LoadFailed
    <2>1. /\ learned = EmptyTable /\ discarded = {} /\ issue \in BOOLEAN
          /\ owed = {} /\ identity = NoSignature /\ unread = TRUE
      BY <1>3 DEF LoadFailed
    <2>2. TypeOK
      BY <1>1, <2>1, EmptyClean DEF Init, TypeOK
    <2>3. IssueAsksForMissing
      BY <2>1 DEF IssueAsksForMissing
    <2>4. QED
      BY <1>1, <2>1, <2>2, <2>3, EmptyClean DEF IInv
  <1>4. QED
    BY <1>2, <1>3 DEF Init

\* Every step keeps the invariant.
LEMMA NextIInv == IInv /\ [Next]_vars => IInv'
  <1> SUFFICES ASSUME IInv, [Next]_vars
               PROVE  IInv'
    OBVIOUS
  <1> USE DEF IInv
  <1>1. ASSUME NEW f \in Traffic, CaptureBeverage(f)
        PROVE  IInv'
    <2> DEFINE k == <<LogicalAction(f), f.beverage>>
    <2>1. f \in Frames
      BY FramesAssumption
    <2>2. PICK e \in Known(learned) : Replayable(f, k, e)
      BY <1>1 DEF CaptureBeverage
    <2>3. f.beverage \in Beverages
      BY <1>1, FramesAssumption DEF CaptureBeverage
    <2>4. k \in Keys /\ k # WakeKey
      BY <2>3, FramesAssumption DEF Keys, WakeKey, LogicalAction
    <2>5. Valid(f, k, e)
      BY <2>2, <2>4 DEF Valid
    <2>6. Files(k, f) /\ Relearns(k)
      BY <1>1 DEF CaptureBeverage
    <2>7. QED
      BY <1>1, <2>1, <2>3, <2>4, <2>5, <2>6, CaptureGood
         DEF CaptureBeverage, TypeOK
  <1>2. ASSUME NEW f \in Traffic, CapturePower(f)
        PROVE  IInv'
    <2>1. f \in Frames
      BY FramesAssumption
    <2>2. PICK e \in Known(learned) : Waking(f, e)
      BY <1>2 DEF CapturePower
    <2>3. WakeKey \in Keys /\ Valid(f, WakeKey, e)
      BY <2>2 DEF Keys, Valid
    <2>4. Files(WakeKey, f) /\ Relearns(WakeKey)
      BY <1>2 DEF CapturePower
    <2>5. QED
      BY <1>2, <2>1, <2>3, <2>4, CaptureGood DEF CapturePower, TypeOK
  <1>3. ASSUME NEW k \in Keys, SendLearned(k)
        PROVE  IInv'
    <2>1. k # WakeKey /\ (Sent(k) \/ Invalid(k))
      BY <1>3 DEF SendLearned
    <2>2. QED
      BY <1>3, <2>1, SendGood DEF SendLearned, TypeOK
  <1>4. CASE Save
    <2>1. Restored(learned, FirstSignature(learned)) = learned
      BY RestoredWhole DEF TypeOK
    <2>2. /\ store' = learned
          /\ UNCHANGED <<learned, identity, discarded, issue, raced, unread,
                         lateSave>>
      BY <1>4 DEF Save
    <2>3. TypeOK' /\ IssueAsksForMissing' /\ Follows(identity, learned)'
      BY <1>4 DEF Save, TypeOK, Follows, IssueAsksForMissing
    <2>4. QED
      BY <2>1, <2>2, <2>3
  <1>5. CASE LateSave
    <2>1. raced /\ raced'
      BY <1>5 DEF LateSave
    <2>2. QED
      BY <1>5, <2>1 DEF LateSave, TypeOK, Follows, IssueAsksForMissing
  <1>6. CASE Restart
    <2>1. Flushed \in Tables
      BY DEF Flushed, TypeOK
    <2>2. /\ Boot(Flushed) /\ store' = Flushed /\ lateSave' = NoTable
          /\ preparing' \in BOOLEAN /\ raced' \in BOOLEAN
      BY <1>6 DEF Restart, TypeOK
    <2>3. QED
      BY <2>1, <2>2, BootIInv
  <1>7. CASE Crash
    <2>1. /\ store \in Tables /\ Boot(store) /\ store' = store
          /\ lateSave' = NoTable
          /\ preparing' \in BOOLEAN /\ raced' \in BOOLEAN
      BY <1>7 DEF Crash, TypeOK
    <2>2. QED
      BY <2>1, BootIInv
  <1>8. CASE Reload
    <2>1. /\ store \in Tables /\ Boot(store) /\ store' = store
          /\ preparing' \in BOOLEAN /\ raced' \in BOOLEAN
          /\ lateSave' \in Tables \cup {NoTable}
          /\ ~raced' => lateSave' = NoTable
      BY <1>8 DEF Reload, TypeOK
    <2>2. QED
      BY <2>1, BootIInv
  <1>9. CASE MonitorMoves
    BY <1>9 DEF MonitorMoves, TypeOK, Follows, IssueAsksForMissing
  <1>10. CASE UNCHANGED vars
    BY <1>10 DEF vars, TypeOK, Follows, IssueAsksForMissing
  <1>11. QED
    BY <1>1, <1>2, <1>3, <1>4, <1>5, <1>6, <1>7, <1>8, <1>9, <1>10 DEF Next

---------------------------------------------------------------------------
(* Theorems. *)

\* The invariant holds in every state.
LEMMA Invariant == Spec => []IInv
  BY InitIInv, NextIInv, PTL DEF Spec

\* Every variable has its type.
THEOREM LearnedTypes == Spec => []TypeOK
  <1>1. IInv => TypeOK
    BY DEF IInv
  <1>2. QED
    BY <1>1, Invariant, PTL

\* Whatever is stored and captured, the frames in use come from one machine
\* (the signature checks at load and at capture).
THEOREM OneMachine == Spec => []OneSignature
  <1>1. IInv => OneSignature
    BY DEF IInv, One, OneSignature
  <1>2. QED
    BY <1>1, Invariant, PTL

\* Every learned frame passes the check made when it is sent: that check never
\* refuses one (learned_command_invalid is a second line of defence).
THEOREM NeverInvalid == Spec => []ReplaysValid
  <1>1. IInv => ReplaysValid
    <2> SUFFICES ASSUME IInv, NEW k \in Keys, learned[k] # NoFrame,
                        NEW e \in Known(learned)
                 PROVE  Valid(learned[k], k, e)
      BY DEF ReplaysValid
    <2>1. e = learned[k].signature
      BY KnownIs DEF IInv
    <2>2. QED
      BY <2>1, ValidForOwn DEF IInv, Clean
  <1>2. QED
    BY <1>1, Invariant, PTL

\* The identity used for cloud sessions is that of the frames in use, through
\* captures, restarts, crashes and reloads.
THEOREM IdentityKept == Spec => []IdentityFollowsFrames
  <1>1. IInv => IdentityFollowsFrames
    BY DEF IInv, Follows, IdentityFollowsFrames
  <1>2. QED
    BY <1>1, Invariant, PTL

\* The repair issue asks for what was discarded and is missing, and only for
\* that unless the store could not be read.
THEOREM IssueExact == Spec => []IssueAsksForMissing
  <1>1. IInv => IssueAsksForMissing
    BY DEF IInv
  <1>2. QED
    BY <1>1, Invariant, PTL

\* What is saved comes back with the next load that succeeds.
LEMMA StepLoses ==
    IInv /\ IInv' /\ [Next]_vars =>
        [\A k \in Keys : learned[k] # NoFrame /\ learned'[k] = NoFrame =>
            pendingSave \/ raced \/ unread']_vars
  <1> SUFFICES ASSUME IInv, IInv', [Next]_vars, ~pendingSave, ~raced, ~unread',
                      NEW k \in Keys, learned[k] # NoFrame, learned'[k] = NoFrame
               PROVE  FALSE
    OBVIOUS
  <1> USE DEF IInv
  <1>1. ASSUME NEW l \in Keys, NEW f \in Frames, f # NoFrame, Files(l, f)
        PROVE  FALSE
    BY <1>1 DEF Files, TypeOK, Tables
  <1>2. ASSUME NEW f \in Traffic, CaptureBeverage(f)
        PROVE  FALSE
    <2>1. f.beverage \in Beverages /\ f \in Frames
      BY <1>2, FramesAssumption DEF CaptureBeverage
    <2>2. <<LogicalAction(f), f.beverage>> \in Keys
      BY <2>1 DEF Keys, LogicalAction
    <2>3. QED
      BY <1>1, <1>2, <2>1, <2>2, FramesAssumption DEF CaptureBeverage
  <1>3. ASSUME NEW f \in Traffic, CapturePower(f)
        PROVE  FALSE
    BY <1>1, <1>3, FramesAssumption DEF CapturePower, Keys
  <1>4. ASSUME NEW l \in Keys, SendLearned(l)
        PROVE  FALSE
    <2>1. l # WakeKey /\ learned[l] # NoFrame
      BY <1>4 DEF SendLearned
    <2>2. \A e \in Known(learned) : Replayable(learned[l], l, e)
      <3>1. ASSUME NEW e \in Known(learned)
            PROVE  Replayable(learned[l], l, e)
        <4>1. Valid(learned[l], l, e)
          BY <2>1, <3>1, KnownIs, ValidForOwn DEF Clean
        <4>2. QED
          BY <2>1, <4>1 DEF Valid
      <3>2. QED
        BY <3>1
    <2>3. Sent(l)
      BY <1>4, <2>2 DEF SendLearned
    <2>4. QED
      BY <2>3 DEF Sent
  <1>5. CASE Restart \/ Crash \/ Reload
    <2>1. Boot(store)
      BY <1>5 DEF Restart, Flushed, Crash, Reload
    <2>2. learned' = Restored(store, FirstSignature(store))
      BY <2>1, BootGood DEF TypeOK
    <2>3. QED
      BY <2>2
  <1>6. CASE Save \/ LateSave \/ MonitorMoves \/ UNCHANGED vars
    BY <1>6 DEF Save, LateSave, MonitorMoves, vars
  <1>7. QED
    BY <1>2, <1>3, <1>4, <1>5, <1>6 DEF Next

\* A frame goes out of use only while its save is pending, after a reload that
\* raced one, or by a load that fails.
THEOREM SavedIsKept == Spec => LostOnlyUnsaved
  BY Invariant, NextIInv, StepLoses, PTL DEF Spec, LostOnlyUnsaved

\* A coordinator that could read the store writes back all it does not ask for.
LEMMA StepStores ==
    IInv /\ [Next]_vars =>
        [\A k \in Keys : store[k] # NoFrame /\ store'[k] = NoFrame =>
            k \in discarded \/ unread \/ raced]_vars
  <1> SUFFICES ASSUME IInv, [Next]_vars, ~raced, ~unread,
                      NEW k \in Keys, store[k] # NoFrame, store'[k] = NoFrame
               PROVE  k \in discarded
    OBVIOUS
  <1>1. lateSave = NoTable /\ (learned[k] # NoFrame \/ k \in discarded)
    BY DEF IInv
  <1>2. store' = learned \/ store' = store
    <2>1. CASE Save \/ LateSave
      BY <1>1, <2>1 DEF Save, LateSave
    <2>2. CASE Restart
      BY <1>1, <2>2 DEF Restart, Flushed
    <2>3. CASE Crash \/ Reload
      BY <2>3 DEF Crash, Reload
    <2>4. CASE MonitorMoves \/ UNCHANGED vars
      BY <2>4 DEF MonitorMoves, vars
    <2>5. ASSUME NEW f \in Traffic, CaptureBeverage(f) \/ CapturePower(f)
          PROVE  store' = store
      BY <2>5 DEF CaptureBeverage, CapturePower
    <2>6. ASSUME NEW l \in Keys, SendLearned(l)
          PROVE  store' = store
      BY <2>6 DEF SendLearned
    <2>7. QED
      BY <2>1, <2>2, <2>3, <2>4, <2>5, <2>6 DEF Next
  <1>3. QED
    BY <1>1, <1>2

\* What is stored is overwritten only by a table that has it too, or that comes
\* from a coordinator that asks for it, did not read it or raced a reload.
THEOREM StoreKept == Spec => StoredFramesKept
  BY Invariant, StepStores, PTL DEF Spec, StoredFramesKept
===========================================================================
