--------------------------- MODULE TumblingProofs ---------------------------
(***************************************************************************)
(* What holds of Tumbling for every value of its constants.  The           *)
(* properties of the store are not inductive: IInv adds where the Manager  *)
(* is, why a bucket is closed, and what becomes of the event in hand.      *)
(***************************************************************************)
EXTENDS Tumbling, TLAPS

\* cur and flush are set exactly where the goroutine holds an event or a key.
ControlInv ==
  /\ pc \in {"append", "emit", "ack"} <=> cur # None
  /\ pc = "save" <=> flush # None
  /\ tickAt <= now

\* The keys that closeExpired and gcClosed have still to handle are those of open
\* and closed buckets, and the reason to handle them still holds.
TodoInv ==
  /\ pc \in {"closing", "save"} =>
       \A k \in todo : windows[k] # {} /\ Expired(k, tickAt, Watermark(maxTS))
  /\ pc = "gc" =>
       \A k \in todo : closed[k] # {} /\ PastHorizon(k, tickAt, Watermark(maxTS))

\* The event in hand is new; on its way to its Ack it is persisted, and sent first
\* if its bucket is closed.
PendingInv ==
  /\ \A e \in acked : e.id \in received
  /\ cur # None => cur.id \in received /\ cur \notin acked
  /\ pc = "emit" => cur \in closed[KeyOf(cur)]
  /\ pc = "ack" => /\ cur \in disk[KeyOf(cur)]
                   /\ KeyOf(cur) \in diskClosed => cur \in sent

\* A bucket is closed for a reason that persists: the watermark or the clock.
FlushReason(k) ==
  EndUnix(k) <= Watermark(checkpoint) \/ now >= End(k) + Lateness

ClosedInv ==
  /\ \A k \in diskClosed : FlushReason(k)
  /\ flush # None => FlushReason(flush) /\ closed[flush] \subseteq sent

\* What the store holds when its writes succeed.
Durable ==
  /\ TodoInv
  /\ PendingInv
  /\ ClosedInv
  /\ RestartTransparent
  /\ AckedNeverLost
  /\ RetainedForHorizon

TypeInv == TypeOK /\ ControlInv

IInv ==
  /\ TypeInv
  /\ ~StoreMayFail => Durable

-----------------------------------------------------------------------------
(***************************************************************************)
(* Type correctness.                                                       *)
(***************************************************************************)

LEMMA StartOfType == \A ts \in Timestamps : StartOf(ts) \in Int
  BY TumblingAssumption DEF StartOf

LEMMA NoBucketsType == NoBuckets \in [Key -> SUBSET Event]
  BY DEF NoBuckets

LEMMA KeyOfType == \A e \in Event : KeyOf(e) \in Key
  BY DEF KeyOf, Event, Key

LEMMA SaveCheckpointType ==
  ASSUME TypeOK, NEW ts \in Int, SaveCheckpoint(ts)
  PROVE  /\ checkpoint' \in Int
         /\ UNCHANGED <<disk, diskClosed>>
  BY DEF TypeOK, SaveCheckpoint

LEMMA SaveType ==
  ASSUME TypeOK, NEW k \in Key, NEW b \in SUBSET Event, NEW c \in BOOLEAN,
         Save(k, b, c)
  PROVE  /\ disk' \in [Key -> SUBSET Event]
         /\ diskClosed' \subseteq Key
         /\ checkpoint' = checkpoint
  BY DEF TypeOK, Save

LEMMA DeleteType ==
  ASSUME TypeOK, NEW k \in Key, Delete(k)
  PROVE  /\ disk' \in [Key -> SUBSET Event]
         /\ diskClosed' \subseteq Key
         /\ checkpoint' = checkpoint
  BY DEF TypeOK, Delete

LEMMA SendType ==
  ASSUME TypeOK, NEW k \in Key, NEW b \in SUBSET Event, NEW c \in BOOLEAN,
         Send(k, b, c)
  PROVE  /\ out' \in Seq(Batch)
         /\ Len(out') <= OutCap
         /\ sent' \subseteq Event
  <1>1. [key |-> k, events |-> b, corrected |-> c] \in Batch
    BY DEF Batch
  <1>2. QED
    BY <1>1, TumblingAssumption DEF TypeOK, Send, HasRoom

LEMMA RestoredType ==
  ASSUME TypeOK
  PROVE  /\ RestoredWindows \in [Key -> SUBSET Event]
         /\ RestoredClosed \in [Key -> SUBSET Event]
  BY DEF TypeOK, RestoredWindows, RestoredClosed

LEMMA InitTyped == Init => TypeInv
  <1> SUFFICES ASSUME Init PROVE TypeInv
    OBVIOUS
  <1>0. cancelled \in BOOLEAN
    BY DEF Init
  <1>1. out \in Seq(Batch) /\ Len(out) <= OutCap
    BY TumblingAssumption DEF Init
  <1>2. QED
    <2>1. TypeOK
      BY <1>0, <1>1, NoBucketsType DEF Init, TypeOK
    <2>2. ControlInv
      BY DEF Init, ControlInv
    <2>3. QED
      BY <2>1, <2>2 DEF TypeInv

LEMMA NextTyped == TypeInv /\ [Next]_vars => TypeInv'
  <1> USE NoneAssumption DEF memory, store, control, world, history
  <1> SUFFICES ASSUME TypeInv, [Next]_vars
               PROVE  TypeInv'
    OBVIOUS
  <1>0. TypeOK
    BY DEF TypeInv
  <1>1. ASSUME NEW e \in Event, Receive(e) PROVE TypeInv'
    <2>1. e.ts \in Int /\ e.id \in Ids
      BY TumblingAssumption DEF Event
    <2>2. CASE e.ts > maxTS
      <3>1. SaveCheckpoint(e.ts) /\ maxTS' = e.ts
        BY <1>1, <2>2 DEF Receive
      <3>2. checkpoint' \in Int /\ UNCHANGED <<disk, diskClosed>>
        BY <2>1, <3>1, <1>0, SaveCheckpointType
      <3>3. QED
        BY <1>1, <2>1, <3>1, <3>2 DEF Receive, TypeInv, TypeOK, ControlInv
    <2>3. CASE ~(e.ts > maxTS)
      BY <1>1, <2>1, <2>3 DEF Receive, TypeInv, TypeOK, ControlInv
    <2>4. QED
      BY <2>2, <2>3
  <1>2. ASSUME AppendOpen PROVE TypeInv'
    <2>1. cur \in Event /\ KeyOf(cur) \in Key
      BY <1>2, KeyOfType DEF AppendOpen, TypeInv, TypeOK, ControlInv
    <2>2. windows' \in [Key -> SUBSET Event] /\ windows'[KeyOf(cur)] \in SUBSET Event
      BY <1>2, <2>1 DEF AppendOpen, TypeInv, TypeOK, ControlInv
    <2>3. Save(KeyOf(cur), windows'[KeyOf(cur)], FALSE)
      BY <1>2 DEF AppendOpen
    <2>4. /\ disk' \in [Key -> SUBSET Event]
          /\ diskClosed' \subseteq Key
          /\ checkpoint' = checkpoint
      BY <2>1, <2>2, <2>3, <1>0, SaveType
    <2>5. QED
      BY <1>2, <2>2, <2>4 DEF AppendOpen, TypeInv, TypeOK, ControlInv
  <1>3. ASSUME AppendLate PROVE TypeInv'
    <2>1. cur \in Event /\ KeyOf(cur) \in Key
      BY <1>3, KeyOfType DEF AppendLate, TypeInv, TypeOK, ControlInv
    <2>2. closed' \in [Key -> SUBSET Event] /\ closed'[KeyOf(cur)] \in SUBSET Event
      BY <1>3, <2>1 DEF AppendLate, TypeInv, TypeOK, ControlInv
    <2>3. Save(KeyOf(cur), closed'[KeyOf(cur)], TRUE)
      BY <1>3 DEF AppendLate
    <2>4. /\ disk' \in [Key -> SUBSET Event]
          /\ diskClosed' \subseteq Key
          /\ checkpoint' = checkpoint
      BY <2>1, <2>2, <2>3, <1>0, SaveType
    <2>5. QED
      BY <1>3, <2>2, <2>4 DEF AppendLate, TypeInv, TypeOK, ControlInv
  <1>4. ASSUME EmitCorrection PROVE TypeInv'
    <2>1. KeyOf(cur) \in Key /\ closed[KeyOf(cur)] \in SUBSET Event
      BY <1>4, KeyOfType DEF EmitCorrection, TypeInv, TypeOK, ControlInv
    <2>2. Send(KeyOf(cur), closed[KeyOf(cur)], TRUE)
      BY <1>4 DEF EmitCorrection
    <2>3. out' \in Seq(Batch) /\ Len(out') <= OutCap /\ sent' \subseteq Event
      BY <2>1, <2>2, <1>0, SendType
    <2>4. QED
      BY <1>4, <2>3 DEF EmitCorrection, TypeInv, TypeOK, ControlInv
  <1>5. ASSUME Ack PROVE TypeInv'
    BY <1>5 DEF Ack, TypeInv, TypeOK, ControlInv
  <1>6. ASSUME Tick PROVE TypeInv'
    BY <1>6 DEF Tick, TypeInv, TypeOK, ControlInv
  <1>7. ASSUME NEW k \in Key, CloseWindow(k) PROVE TypeInv'
    <2>1. Send(k, windows[k], FALSE) /\ windows[k] \in SUBSET Event
      BY <1>7 DEF CloseWindow, TypeInv, TypeOK, ControlInv
    <2>2. out' \in Seq(Batch) /\ Len(out') <= OutCap /\ sent' \subseteq Event
      BY <2>1, <1>0, SendType
    <2>3. QED
      BY <1>7, <2>2 DEF CloseWindow, TypeInv, TypeOK, ControlInv
  <1>8. ASSUME SaveClosed PROVE TypeInv'
    <2>1. flush \in Key /\ closed[flush] \in SUBSET Event
      BY <1>8 DEF SaveClosed, TypeInv, TypeOK, ControlInv
    <2>2. Save(flush, closed[flush], TRUE)
      BY <1>8 DEF SaveClosed
    <2>3. /\ disk' \in [Key -> SUBSET Event]
          /\ diskClosed' \subseteq Key
          /\ checkpoint' = checkpoint
      BY <2>1, <2>2, <1>0, SaveType
    <2>4. QED
      BY <1>8, <2>3 DEF SaveClosed, TypeInv, TypeOK, ControlInv
  <1>9. ASSUME AbortClose PROVE TypeInv'
    BY <1>9 DEF AbortClose, TypeInv, TypeOK, ControlInv
  <1>10. ASSUME StartGc PROVE TypeInv'
    BY <1>10 DEF StartGc, TypeInv, TypeOK, ControlInv
  <1>11. ASSUME NEW k \in Key, DropClosed(k) PROVE TypeInv'
    <2>1. /\ disk' \in [Key -> SUBSET Event]
          /\ diskClosed' \subseteq Key
          /\ checkpoint' = checkpoint
      BY <1>11, <1>0, DeleteType DEF DropClosed
    <2>2. QED
      BY <1>11, <2>1 DEF DropClosed, TypeInv, TypeOK, ControlInv
  <1>12. ASSUME EndTick PROVE TypeInv'
    BY <1>12 DEF EndTick, TypeInv, TypeOK, ControlInv
  <1>13. ASSUME Forward PROVE TypeInv'
    BY <1>13, TumblingAssumption DEF Forward, TypeInv, TypeOK, ControlInv
  <1>14. ASSUME AdvanceClock PROVE TypeInv'
    BY <1>14 DEF AdvanceClock, TypeInv, TypeOK, ControlInv
  <1>15. ASSUME Cancel PROVE TypeInv'
    BY <1>15 DEF Cancel, TypeInv, TypeOK, ControlInv
  <1>16. ASSUME Exit PROVE TypeInv'
    <2>1. out' \in Seq(Batch) /\ Len(out') <= OutCap
      BY <1>16, TumblingAssumption DEF Exit, Stop
    <2>2. QED
      <3>0. cancelled' \in BOOLEAN
        BY <1>16 DEF Exit
      <3>1. TypeOK'
        BY <1>16, <2>1, <3>0, NoBucketsType DEF Exit, Stop, TypeInv, TypeOK
      <3>2. ControlInv'
        BY <1>16 DEF Exit, Stop, TypeInv, TypeOK, ControlInv
      <3>3. QED
        BY <3>1, <3>2 DEF TypeInv
  <1>17. ASSUME Crash PROVE TypeInv'
    <2>1. out' \in Seq(Batch) /\ Len(out') <= OutCap
      BY <1>17, TumblingAssumption DEF Crash, Stop
    <2>2. QED
      <3>0. cancelled' \in BOOLEAN
        BY <1>17 DEF Crash
      <3>1. TypeOK'
        BY <1>17, <2>1, <3>0, NoBucketsType DEF Crash, Stop, TypeInv, TypeOK
      <3>2. ControlInv'
        BY <1>17 DEF Crash, Stop, TypeInv, TypeOK, ControlInv
      <3>3. QED
        BY <3>1, <3>2 DEF TypeInv
  <1>18. ASSUME Restart PROVE TypeInv'
    BY <1>18, <1>0, RestoredType DEF Restart, TypeInv, TypeOK, ControlInv
  <1>19. ASSUME UNCHANGED vars PROVE TypeInv'
    BY <1>19 DEF vars, TypeInv, TypeOK, ControlInv
  <1>20. QED
    BY <1>1, <1>2, <1>3, <1>4, <1>5, <1>6, <1>7, <1>8, <1>9, <1>10, <1>11, <1>12,
       <1>13, <1>14, <1>15, <1>16, <1>17, <1>18, <1>19
       DEF Next, HandleEvent, HandleTick

\* The variables keep their types, and the out channel its capacity.
THEOREM TypeCorrect == Spec => []TypeOK
  <1>1. Spec => []TypeInv
    BY InitTyped, NextTyped, PTL DEF Spec
  <1>2. QED
    BY <1>1, PTL DEF TypeInv

-----------------------------------------------------------------------------
(***************************************************************************)
(* The inductive invariant.                                                *)
(***************************************************************************)

LEMMA InstantTypes ==
  /\ LatenessSec \in Nat
  /\ \A k \in Key : End(k) \in Int /\ EndUnix(k) \in Int
  <1>1. LatenessSec \in Nat
    BY TumblingAssumption DEF LatenessSec
  <1>2. ASSUME NEW k \in Key PROVE End(k) \in Int
    BY StartOfType, TumblingAssumption DEF End, Key
  <1>3. ASSUME NEW k \in Key PROVE EndUnix(k) \in Int
    BY <1>2, <1>3, TumblingAssumption DEF EndUnix
  <1>4. QED
    BY <1>1, <1>2, <1>3

\* What gcClosed sees at the start of its tick still holds: the clock does not go back.
LEMMA HorizonIsPassed ==
  ASSUME NEW k \in Key,
         tickAt \in Nat, now \in Nat, checkpoint \in Int, tickAt <= now,
         PastHorizon(k, tickAt, Watermark(checkpoint))
  PROVE  HorizonPassed(k)
  <1>1. Lateness \in Nat /\ LatenessSec \in Nat /\ End(k) \in Int /\ EndUnix(k) \in Int
    BY InstantTypes, TumblingAssumption
  <1>2. CASE checkpoint - LatenessSec >= EndUnix(k) + LatenessSec
    <2>1. checkpoint >= EndUnix(k) + 2 * LatenessSec
      BY <1>1, <1>2
    <2>2. QED
      BY <2>1 DEF HorizonPassed
  <1>3. CASE tickAt >= End(k) + 2 * Lateness
    <2>1. now >= End(k) + 2 * Lateness
      BY <1>1, <1>3
    <2>2. QED
      BY <2>1 DEF HorizonPassed
  <1>4. QED
    BY <1>2, <1>3 DEF PastHorizon, Watermark

\* A write of a store that does not fail.
LEMMA ReliableWrites ==
  ASSUME ~StoreMayFail
  PROVE  /\ \A ts : SaveCheckpoint(ts) => checkpoint' = ts /\ UNCHANGED <<disk, diskClosed>>
         /\ \A k, b, c : Save(k, b, c) =>
              /\ disk' = [disk EXCEPT ![k] = b]
              /\ diskClosed' = IF c THEN diskClosed \cup {k} ELSE diskClosed \ {k}
              /\ checkpoint' = checkpoint
         /\ \A k : Delete(k) =>
              /\ disk' = [disk EXCEPT ![k] = {}]
              /\ diskClosed' = diskClosed \ {k}
              /\ checkpoint' = checkpoint
  BY DEF WriteOutcomes, SaveCheckpoint, Save, Delete

LEMMA DurableInit == Init /\ TypeInv => Durable
  BY NoneAssumption DEF Init, NoBuckets, TypeInv, TypeOK, Durable, TodoInv, PendingInv, ClosedInv, RestartTransparent, AckedNeverLost, RetainedForHorizon,
     RestoredWindows, RestoredClosed

\* A reason to flush a window or to drop it stays one.
LEMMA ReasonsPersist ==
  ASSUME TypeOK, TypeOK', checkpoint' >= checkpoint, now' >= now
  PROVE  \A k \in Key : /\ FlushReason(k) => FlushReason(k)'
                        /\ HorizonPassed(k) => HorizonPassed(k)'
  <1>1. checkpoint \in Int /\ checkpoint' \in Int /\ now \in Nat /\ now' \in Nat
    BY DEF TypeOK
  <1>2. ASSUME NEW k \in Key
        PROVE  Lateness \in Nat /\ LatenessSec \in Nat /\ End(k) \in Int /\ EndUnix(k) \in Int
    BY <1>2, InstantTypes, TumblingAssumption
  <1>3. ASSUME NEW k \in Key, FlushReason(k) PROVE FlushReason(k)'
    <2>1. CASE EndUnix(k) <= checkpoint - LatenessSec
      <3>1. EndUnix(k) <= checkpoint' - LatenessSec
        BY <1>1, <1>2, <2>1
      <3>2. QED
        BY <3>1 DEF FlushReason, Watermark
    <2>2. CASE now >= End(k) + Lateness
      <3>1. now' >= End(k) + Lateness
        BY <1>1, <1>2, <2>2
      <3>2. QED
        BY <3>1 DEF FlushReason
    <2>3. QED
      BY <1>3, <2>1, <2>2 DEF FlushReason, Watermark
  <1>4. ASSUME NEW k \in Key, HorizonPassed(k) PROVE HorizonPassed(k)'
    <2>1. CASE checkpoint >= EndUnix(k) + 2 * LatenessSec
      <3>1. checkpoint' >= EndUnix(k) + 2 * LatenessSec
        BY <1>1, <1>2, <2>1
      <3>2. QED
        BY <3>1 DEF HorizonPassed
    <2>2. CASE now >= End(k) + 2 * Lateness
      <3>1. now' >= End(k) + 2 * Lateness
        BY <1>1, <1>2, <2>2
      <3>2. QED
        BY <3>1 DEF HorizonPassed
    <2>3. QED
      BY <1>4, <2>1, <2>2 DEF HorizonPassed
  <1>5. QED
    BY <1>3, <1>4

\* What memory says of the store, key by key.
LEMMA Mirrored ==
  ASSUME ~StoreMayFail, TypeOK, pc # "down", RestartTransparent
  PROVE  /\ maxTS = checkpoint
         /\ \A k \in Key \ {flush} :
              /\ k \in diskClosed => windows[k] = {} /\ closed[k] = disk[k]
              /\ k \notin diskClosed => windows[k] = disk[k] /\ closed[k] = {}
         /\ flush \in Key => /\ windows[flush] = {}
                             /\ closed[flush] # {}
                             /\ disk[flush] = closed[flush]
                             /\ flush \notin diskClosed
  BY DEF RestartTransparent, RestoredWindows, RestoredClosed

\* A step that leaves the persisted buckets alone keeps what they hold, and why they
\* are closed.
LEMMA StoreKept ==
  ASSUME TypeOK, TypeOK', AckedNeverLost, RetainedForHorizon, ClosedInv,
         UNCHANGED <<disk, diskClosed, acked>>,
         sent \subseteq sent', checkpoint' >= checkpoint, now' >= now
  PROVE  /\ AckedNeverLost'
         /\ ~StoreMayFail => RetainedForHorizon'
         /\ \A k \in diskClosed' : FlushReason(k)'
  <1>1. AckedNeverLost'
    BY DEF AckedNeverLost
  <1>2. ASSUME ~StoreMayFail PROVE RetainedForHorizon'
    BY <1>2, ReasonsPersist, KeyOfType DEF RetainedForHorizon, TypeOK
  <1>3. ASSUME NEW k \in diskClosed PROVE FlushReason(k)'
    BY <1>3, ReasonsPersist DEF ClosedInv, TypeOK
  <1>4. QED
    BY <1>1, <1>2, <1>3

LEMMA DurableStep ==
  ASSUME ~StoreMayFail, TypeInv, TypeInv', Durable, [Next]_vars
  PROVE  Durable'
  <1> USE NoneAssumption DEF memory, store, control, world, history
  <1> TypeOK /\ ControlInv /\ TypeOK' /\ ControlInv'
    BY DEF TypeInv
  <1> /\ TodoInv /\ PendingInv /\ ClosedInv
      /\ RestartTransparent /\ AckedNeverLost /\ RetainedForHorizon
    BY DEF Durable
  <1>1. ASSUME NEW e \in Event, Receive(e) PROVE Durable'
    <2>1. /\ maxTS = checkpoint /\ maxTS' = checkpoint' /\ checkpoint' >= checkpoint
          /\ UNCHANGED <<disk, diskClosed>>
      <3>1. maxTS = checkpoint /\ e.ts \in Int
        BY <1>1, Mirrored, TumblingAssumption DEF Receive, Event
      <3>2. CASE e.ts > maxTS
        BY <1>1, <3>1, <3>2, ReliableWrites DEF Receive, TypeOK
      <3>3. CASE ~(e.ts > maxTS)
        BY <1>1, <3>1, <3>3 DEF Receive, TypeOK
      <3>4. QED
        BY <3>2, <3>3
    <2>2. AckedNeverLost' /\ RetainedForHorizon' /\ \A k \in diskClosed' : FlushReason(k)'
      BY <1>1, <2>1, StoreKept DEF Receive, TypeOK
    <2>3. TodoInv'
      BY <1>1 DEF Receive, TodoInv
    <2>4. PendingInv'
      BY <1>1 DEF Receive, PendingInv
    <2>5. ClosedInv'
      BY <1>1, <2>2 DEF Receive, ClosedInv, ControlInv
    <2>6. RestartTransparent'
      BY <1>1, <2>1 DEF Receive, RestartTransparent, RestoredWindows, RestoredClosed
    <2>7. QED
      BY <2>2, <2>3, <2>4, <2>5, <2>6 DEF Durable
  <1>2. ASSUME AppendOpen PROVE Durable'
    <2> DEFINE k == KeyOf(cur)
    <2>1. cur \in Event /\ k \in Key /\ flush = None
      BY <1>2, KeyOfType DEF AppendOpen, TypeOK, ControlInv
    <2>2. /\ closed[k] = {}
          /\ k \in diskClosed => disk[k] = {}
          /\ k \notin diskClosed => disk[k] = windows[k]
      BY <1>2, <2>1, Mirrored DEF AppendOpen
    <2>3. /\ windows' = [windows EXCEPT ![k] = windows[k] \cup {cur}]
          /\ disk' = [disk EXCEPT ![k] = windows[k] \cup {cur}]
          /\ diskClosed' = diskClosed \ {k}
          /\ checkpoint' = checkpoint
      <3>1. windows'[k] = windows[k] \cup {cur}
        BY <1>2, <2>1 DEF AppendOpen, TypeOK
      <3>2. QED
        BY <1>2, <3>1, ReliableWrites DEF AppendOpen
    <2>4. TodoInv'
      BY <1>2 DEF AppendOpen, TodoInv
    <2>5. PendingInv'
      BY <1>2, <2>1, <2>3 DEF AppendOpen, PendingInv, TypeOK
    <2>6. ClosedInv'
      BY <1>2, <2>1, <2>3 DEF AppendOpen, ClosedInv, FlushReason
    <2>7. RestartTransparent'
      <3>1. \A j \in Key \ {k} :
              /\ windows'[j] = windows[j] /\ closed'[j] = closed[j] /\ disk'[j] = disk[j]
              /\ j \in diskClosed' <=> j \in diskClosed
        BY <1>2, <2>3 DEF AppendOpen, TypeOK
      <3>2. windows'[k] = disk'[k] /\ closed'[k] = {} /\ k \notin diskClosed'
        BY <1>2, <2>1, <2>2, <2>3 DEF AppendOpen, TypeOK
      <3>3. /\ maxTS' = checkpoint' /\ flush' = None
            /\ \A j \in Key :
                 /\ j \in diskClosed => windows[j] = {} /\ closed[j] = disk[j]
                 /\ j \notin diskClosed => windows[j] = disk[j] /\ closed[j] = {}
        BY <1>2, <2>1, <2>3, Mirrored DEF AppendOpen
      <3> HIDE DEF k
      <3>4. \A j \in Key :
              /\ j \in diskClosed' => windows'[j] = {} /\ closed'[j] = disk'[j]
              /\ j \notin diskClosed' => windows'[j] = disk'[j] /\ closed'[j] = {}
        BY <3>1, <3>2, <3>3
      <3>5. \A j \in Key : j # flush'
        BY <3>3, NoneAssumption
      <3>6. QED
        BY <3>3, <3>4, <3>5 DEF RestartTransparent, RestoredWindows, RestoredClosed
    <2>8. AckedNeverLost'
      BY <1>2, <2>1, <2>2, <2>3, KeyOfType DEF AppendOpen, AckedNeverLost, TypeOK
    <2>9. RetainedForHorizon'
      BY <1>2, <2>1, <2>2, <2>3, KeyOfType
      DEF AppendOpen, RetainedForHorizon, HorizonPassed, TypeOK
    <2>10. QED
      BY <2>4, <2>5, <2>6, <2>7, <2>8, <2>9 DEF Durable
  <1>3. ASSUME AppendLate PROVE Durable'
    <2> DEFINE k == KeyOf(cur)
    <2>1. cur \in Event /\ k \in Key /\ flush = None
      BY <1>3, KeyOfType DEF AppendLate, TypeOK, ControlInv
    <2>2. /\ windows[k] = {}
          /\ closed[k] = disk[k]
          /\ k \notin diskClosed => disk[k] = {} /\ PastWatermark(k)
      BY <1>3, <2>1, Mirrored DEF AppendLate
    <2>3. /\ closed' = [closed EXCEPT ![k] = closed[k] \cup {cur}]
          /\ disk' = [disk EXCEPT ![k] = closed[k] \cup {cur}]
          /\ diskClosed' = diskClosed \cup {k}
          /\ checkpoint' = checkpoint
      <3>1. closed'[k] = closed[k] \cup {cur}
        BY <1>3, <2>1 DEF AppendLate, TypeOK
      <3>2. QED
        BY <1>3, <3>1, ReliableWrites DEF AppendLate
    <2>4. TodoInv'
      BY <1>3 DEF AppendLate, TodoInv
    <2>5. PendingInv'
      BY <1>3, <2>1, <2>3 DEF AppendLate, PendingInv, TypeOK
    <2>6. ClosedInv'
      <3>1. FlushReason(k)
        BY <1>3, <2>1, <2>2, Mirrored DEF AppendLate, ClosedInv, FlushReason, PastWatermark
      <3>2. QED
        BY <1>3, <2>1, <2>3, <3>1 DEF AppendLate, ClosedInv, FlushReason
    <2>7. RestartTransparent'
      <3>1. \A j \in Key \ {k} :
              /\ windows'[j] = windows[j] /\ closed'[j] = closed[j] /\ disk'[j] = disk[j]
              /\ j \in diskClosed' <=> j \in diskClosed
        BY <1>3, <2>3 DEF AppendLate, TypeOK
      <3>2. windows'[k] = {} /\ closed'[k] = disk'[k] /\ k \in diskClosed'
        BY <1>3, <2>1, <2>2, <2>3 DEF AppendLate, TypeOK
      <3>3. /\ maxTS' = checkpoint' /\ flush' = None
            /\ \A j \in Key :
                 /\ j \in diskClosed => windows[j] = {} /\ closed[j] = disk[j]
                 /\ j \notin diskClosed => windows[j] = disk[j] /\ closed[j] = {}
        BY <1>3, <2>1, <2>3, Mirrored DEF AppendLate
      <3> HIDE DEF k
      <3>4. \A j \in Key :
              /\ j \in diskClosed' => windows'[j] = {} /\ closed'[j] = disk'[j]
              /\ j \notin diskClosed' => windows'[j] = disk'[j] /\ closed'[j] = {}
        BY <3>1, <3>2, <3>3
      <3>5. \A j \in Key : j # flush'
        BY <3>3, NoneAssumption
      <3>6. QED
        BY <3>3, <3>4, <3>5 DEF RestartTransparent, RestoredWindows, RestoredClosed
    <2>8. AckedNeverLost'
      BY <1>3, <2>1, <2>2, <2>3, KeyOfType DEF AppendLate, AckedNeverLost, TypeOK
    <2>9. RetainedForHorizon'
      BY <1>3, <2>1, <2>2, <2>3, KeyOfType
      DEF AppendLate, RetainedForHorizon, HorizonPassed, TypeOK
    <2>10. QED
      BY <2>4, <2>5, <2>6, <2>7, <2>8, <2>9 DEF Durable
  <1>4. ASSUME EmitCorrection PROVE Durable'
    <2>1. AckedNeverLost' /\ RetainedForHorizon' /\ \A k \in diskClosed' : FlushReason(k)'
      BY <1>4, StoreKept DEF EmitCorrection, Send, TypeOK
    <2>2. TodoInv'
      BY <1>4, <2>1 DEF EmitCorrection, TodoInv
    <2>3. PendingInv'
      BY <1>4, KeyOfType, Mirrored DEF EmitCorrection, Send, PendingInv, ControlInv, TypeOK
    <2>4. ClosedInv'
      BY <1>4, <2>1 DEF EmitCorrection, ClosedInv, ControlInv
    <2>5. RestartTransparent'
      BY <1>4, Mirrored DEF EmitCorrection, RestartTransparent, RestoredWindows, RestoredClosed
    <2>6. QED
      BY <2>1, <2>2, <2>3, <2>4, <2>5 DEF Durable
  <1>5. ASSUME Ack PROVE Durable'
    <2>1. TodoInv' /\ PendingInv'
      BY <1>5 DEF Ack, TodoInv, PendingInv, ControlInv
    <2>2. ClosedInv' /\ RestartTransparent'
      BY <1>5 DEF Ack, ClosedInv, FlushReason, RestartTransparent, RestoredWindows,
                  RestoredClosed
    <2>3. AckedNeverLost'
      BY <1>5 DEF Ack, AckedNeverLost, PendingInv
    <2>4. RetainedForHorizon'
      BY <1>5 DEF Ack, RetainedForHorizon, HorizonPassed, PendingInv
    <2>5. QED
      BY <2>1, <2>2, <2>3, <2>4 DEF Durable
  <1>6. ASSUME Tick PROVE Durable'
    <2>1. AckedNeverLost' /\ RetainedForHorizon' /\ \A k \in diskClosed' : FlushReason(k)'
      BY <1>6, StoreKept DEF Tick, TypeOK
    <2>2. TodoInv'
      BY <1>6, <2>1 DEF Tick, TodoInv
    <2>3. PendingInv'
      BY <1>6, <2>1 DEF Tick, PendingInv
    <2>4. ClosedInv'
      BY <1>6, <2>1, ReasonsPersist DEF Tick, ClosedInv, FlushReason, TypeOK
    <2>5. RestartTransparent'
      BY <1>6, Mirrored DEF Tick, RestartTransparent, RestoredWindows, RestoredClosed
    <2>6. QED
      BY <2>1, <2>2, <2>3, <2>4, <2>5 DEF Durable
  <1>7. ASSUME NEW q \in Key, CloseWindow(q) PROVE Durable'
    <2>0. /\ flush = None /\ flush' = q /\ q \in todo /\ windows[q] # {}
          /\ q \notin diskClosed /\ disk[q] = windows[q] /\ FlushReason(q)
      <3>1. flush = None /\ flush' = q /\ pc = "closing" /\ q \in todo
        BY <1>7 DEF CloseWindow, ControlInv
      <3>2. windows[q] # {} /\ Expired(q, tickAt, Watermark(maxTS))
        BY <3>1 DEF TodoInv
      <3>3. maxTS = checkpoint /\ q \notin diskClosed /\ disk[q] = windows[q]
        BY <3>1, <3>2, Mirrored
      <3>4. FlushReason(q)
        BY <3>2, <3>3, InstantTypes, TumblingAssumption
        DEF Expired, FlushReason, TypeOK, ControlInv
      <3>5. QED
        BY <3>1, <3>2, <3>3, <3>4
    <2>1. AckedNeverLost' /\ RetainedForHorizon' /\ \A k \in diskClosed' : FlushReason(k)'
      BY <1>7, StoreKept DEF CloseWindow, Send, TypeOK
    <2>2. TodoInv'
      BY <1>7, <2>1 DEF CloseWindow, TodoInv, TypeOK
    <2>3. PendingInv'
      BY <1>7, <2>1 DEF CloseWindow, PendingInv, ControlInv
    <2>4. ClosedInv'
      BY <1>7, <2>0, <2>1 DEF CloseWindow, Send, ClosedInv, TypeOK, FlushReason
    <2>5. RestartTransparent'
      BY <1>7, <2>0, Mirrored DEF CloseWindow, RestartTransparent, RestoredWindows, RestoredClosed, TypeOK
    <2>6. QED
      BY <2>1, <2>2, <2>3, <2>4, <2>5 DEF Durable
  <1>8. ASSUME SaveClosed PROVE Durable'
    <2>1. /\ flush \in Key /\ pc # "down" /\ pc' = "closing" /\ flush' = None
          /\ disk' = [disk EXCEPT ![flush] = closed[flush]]
          /\ diskClosed' = diskClosed \cup {flush}
          /\ checkpoint' = checkpoint
      BY <1>8, ReliableWrites DEF SaveClosed, TypeOK, ControlInv
    <2>2. disk' = disk /\ disk[flush] = closed[flush] /\ windows[flush] = {}
      BY <2>1, Mirrored DEF TypeOK
    <2>3. TodoInv'
      BY <1>8 DEF SaveClosed, TodoInv
    <2>4. PendingInv'
      BY <1>8, <2>1 DEF SaveClosed, PendingInv, ControlInv
    <2>5. ClosedInv'
      BY <1>8, <2>1 DEF SaveClosed, ClosedInv, FlushReason
    <2>6. RestartTransparent'
      BY <1>8, <2>1, <2>2, Mirrored
      DEF SaveClosed, RestartTransparent, RestoredWindows, RestoredClosed, TypeOK
    <2>7. AckedNeverLost'
      BY <1>8, <2>1, <2>2 DEF SaveClosed, AckedNeverLost, ClosedInv
    <2>8. RetainedForHorizon'
      BY <1>8, <2>1, <2>2 DEF SaveClosed, RetainedForHorizon, HorizonPassed
    <2>9. QED
      BY <2>3, <2>4, <2>5, <2>6, <2>7, <2>8 DEF Durable
  <1>9. ASSUME AbortClose PROVE Durable'
    <2>1. AckedNeverLost' /\ RetainedForHorizon' /\ \A k \in diskClosed' : FlushReason(k)'
      BY <1>9, StoreKept DEF AbortClose, TypeOK
    <2>2. TodoInv'
      BY <1>9, <2>1 DEF AbortClose, TodoInv
    <2>3. PendingInv'
      BY <1>9, <2>1 DEF AbortClose, PendingInv
    <2>4. ClosedInv'
      BY <1>9, <2>1, ReasonsPersist DEF AbortClose, ClosedInv, FlushReason, TypeOK
    <2>5. RestartTransparent'
      BY <1>9, Mirrored DEF AbortClose, RestartTransparent, RestoredWindows, RestoredClosed
    <2>6. QED
      BY <2>1, <2>2, <2>3, <2>4, <2>5 DEF Durable
  <1>10. ASSUME StartGc PROVE Durable'
    <2>1. AckedNeverLost' /\ RetainedForHorizon' /\ \A k \in diskClosed' : FlushReason(k)'
      BY <1>10, StoreKept DEF StartGc, TypeOK
    <2>2. TodoInv'
      BY <1>10, <2>1 DEF StartGc, TodoInv
    <2>3. PendingInv'
      BY <1>10, <2>1 DEF StartGc, PendingInv
    <2>4. ClosedInv'
      BY <1>10, <2>1, ReasonsPersist DEF StartGc, ClosedInv, FlushReason, TypeOK
    <2>5. RestartTransparent'
      BY <1>10, Mirrored DEF StartGc, RestartTransparent, RestoredWindows, RestoredClosed
    <2>6. QED
      BY <2>1, <2>2, <2>3, <2>4, <2>5 DEF Durable
  <1>11. ASSUME NEW k \in Key, DropClosed(k) PROVE Durable'
    <2>1. /\ flush = None /\ pc = "gc" /\ pc' = "gc"
          /\ closed' = [closed EXCEPT ![k] = {}]
          /\ disk' = [disk EXCEPT ![k] = {}]
          /\ diskClosed' = diskClosed \ {k}
          /\ checkpoint' = checkpoint
      BY <1>11, ReliableWrites DEF DropClosed, ControlInv
    <2>2. k \in diskClosed /\ PastHorizon(k, tickAt, Watermark(checkpoint))
      BY <1>11, <2>1, Mirrored DEF DropClosed, TodoInv
    <2>3. HorizonPassed(k)
      <3>1. tickAt \in Nat /\ now \in Nat /\ checkpoint \in Int /\ tickAt <= now
        BY DEF TypeOK, ControlInv
      <3>2. QED
        BY <2>2, <3>1, HorizonIsPassed
    <2>4. TodoInv'
      BY <1>11, <2>1 DEF DropClosed, TodoInv, TypeOK
    <2>5. PendingInv'
      BY <1>11, <2>1 DEF DropClosed, PendingInv, ControlInv
    <2>6. ClosedInv'
      BY <1>11, <2>1 DEF DropClosed, ClosedInv, FlushReason
    <2>7. RestartTransparent'
      <3>1. /\ flush' = None /\ windows' = windows /\ maxTS' = checkpoint'
            /\ windows[k] = {} /\ closed \in [Key -> SUBSET Event]
            /\ disk \in [Key -> SUBSET Event]
        BY <1>11, <2>1, <2>2, Mirrored, NoneAssumption DEF DropClosed, TypeOK
      <3>2. ASSUME NEW j \in Key
            PROVE  windows'[j] = RestoredWindows'[j] /\ closed'[j] = RestoredClosed'[j]
        <4>1. CASE j = k
          BY <2>1, <3>1, <4>1 DEF RestoredWindows, RestoredClosed
        <4>2. CASE j # k
          BY <2>1, <3>1, <4>2, Mirrored, NoneAssumption DEF RestoredWindows, RestoredClosed
        <4>3. QED
          BY <4>1, <4>2
      <3>3. QED
        BY <3>1, <3>2, NoneAssumption DEF RestartTransparent
    <2>8. AckedNeverLost'
      BY <1>11, <2>1, <2>2, KeyOfType DEF DropClosed, AckedNeverLost, TypeOK
    <2>9. RetainedForHorizon'
      BY <1>11, <2>1, <2>3, KeyOfType
      DEF DropClosed, RetainedForHorizon, HorizonPassed, TypeOK
    <2>10. QED
      BY <2>4, <2>5, <2>6, <2>7, <2>8, <2>9 DEF Durable
  <1>12. ASSUME EndTick PROVE Durable'
    <2>1. AckedNeverLost' /\ RetainedForHorizon' /\ \A k \in diskClosed' : FlushReason(k)'
      BY <1>12, StoreKept DEF EndTick, TypeOK
    <2>2. TodoInv'
      BY <1>12, <2>1 DEF EndTick, TodoInv
    <2>3. PendingInv'
      BY <1>12, <2>1 DEF EndTick, PendingInv
    <2>4. ClosedInv'
      BY <1>12, <2>1, ReasonsPersist DEF EndTick, ClosedInv, FlushReason, TypeOK
    <2>5. RestartTransparent'
      BY <1>12, Mirrored DEF EndTick, RestartTransparent, RestoredWindows, RestoredClosed
    <2>6. QED
      BY <2>1, <2>2, <2>3, <2>4, <2>5 DEF Durable
  <1>13. ASSUME Forward PROVE Durable'
    <2>1. AckedNeverLost' /\ RetainedForHorizon' /\ \A k \in diskClosed' : FlushReason(k)'
      BY <1>13, StoreKept DEF Forward, TypeOK
    <2>2. TodoInv'
      BY <1>13, <2>1 DEF Forward, TodoInv
    <2>3. PendingInv'
      BY <1>13, <2>1 DEF Forward, PendingInv
    <2>4. ClosedInv'
      BY <1>13, <2>1, ReasonsPersist DEF Forward, ClosedInv, FlushReason, TypeOK
    <2>5. RestartTransparent'
      BY <1>13, Mirrored DEF Forward, RestartTransparent, RestoredWindows, RestoredClosed
    <2>6. QED
      BY <2>1, <2>2, <2>3, <2>4, <2>5 DEF Durable
  <1>14. ASSUME AdvanceClock PROVE Durable'
    <2>1. AckedNeverLost' /\ RetainedForHorizon' /\ \A k \in diskClosed' : FlushReason(k)'
      BY <1>14, StoreKept DEF AdvanceClock, TypeOK
    <2>2. TodoInv'
      BY <1>14, InstantTypes DEF AdvanceClock, TodoInv
    <2>3. PendingInv'
      BY <1>14, <2>1 DEF AdvanceClock, PendingInv
    <2>4. ClosedInv'
      BY <1>14, <2>1, ReasonsPersist DEF AdvanceClock, ClosedInv, FlushReason, TypeOK
    <2>5. RestartTransparent'
      BY <1>14, Mirrored DEF AdvanceClock, RestartTransparent, RestoredWindows, RestoredClosed
    <2>6. QED
      BY <2>1, <2>2, <2>3, <2>4, <2>5 DEF Durable
  <1>15. ASSUME Cancel PROVE Durable'
    <2>1. AckedNeverLost' /\ RetainedForHorizon' /\ \A k \in diskClosed' : FlushReason(k)'
      BY <1>15, StoreKept DEF Cancel, TypeOK
    <2>2. TodoInv'
      BY <1>15, <2>1 DEF Cancel, TodoInv
    <2>3. PendingInv'
      BY <1>15, <2>1 DEF Cancel, PendingInv
    <2>4. ClosedInv'
      BY <1>15, <2>1, ReasonsPersist DEF Cancel, ClosedInv, FlushReason, TypeOK
    <2>5. RestartTransparent'
      BY <1>15, Mirrored DEF Cancel, RestartTransparent, RestoredWindows, RestoredClosed
    <2>6. QED
      BY <2>1, <2>2, <2>3, <2>4, <2>5 DEF Durable
  <1>16. ASSUME Exit PROVE Durable'
    <2>1. AckedNeverLost' /\ RetainedForHorizon' /\ \A k \in diskClosed' : FlushReason(k)'
      BY <1>16, StoreKept DEF Exit, Stop, TypeOK
    <2>2. TodoInv'
      BY <1>16, <2>1 DEF Exit, Stop, TodoInv
    <2>3. PendingInv'
      BY <1>16, <2>1 DEF Exit, Stop, PendingInv
    <2>4. ClosedInv'
      BY <1>16, <2>1, ReasonsPersist DEF Exit, Stop, ClosedInv, FlushReason, TypeOK
    <2>5. RestartTransparent'
      BY <1>16, Mirrored DEF Exit, Stop, RestartTransparent, RestoredWindows, RestoredClosed
    <2>6. QED
      BY <2>1, <2>2, <2>3, <2>4, <2>5 DEF Durable
  <1>17. ASSUME Crash PROVE Durable'
    <2>1. AckedNeverLost' /\ RetainedForHorizon' /\ \A k \in diskClosed' : FlushReason(k)'
      BY <1>17, StoreKept DEF Crash, Stop, TypeOK
    <2>2. TodoInv'
      BY <1>17, <2>1 DEF Crash, Stop, TodoInv
    <2>3. PendingInv'
      BY <1>17, <2>1 DEF Crash, Stop, PendingInv
    <2>4. ClosedInv'
      BY <1>17, <2>1, ReasonsPersist DEF Crash, Stop, ClosedInv, FlushReason, TypeOK
    <2>5. RestartTransparent'
      BY <1>17, Mirrored DEF Crash, Stop, RestartTransparent, RestoredWindows, RestoredClosed
    <2>6. QED
      BY <2>1, <2>2, <2>3, <2>4, <2>5 DEF Durable
  <1>18. ASSUME Restart PROVE Durable'
    <2>1. AckedNeverLost' /\ RetainedForHorizon' /\ \A k \in diskClosed' : FlushReason(k)'
      BY <1>18, StoreKept DEF Restart, TypeOK
    <2>2. TodoInv'
      BY <1>18, <2>1 DEF Restart, TodoInv
    <2>3. PendingInv'
      BY <1>18, <2>1 DEF Restart, PendingInv
    <2>4. ClosedInv'
      BY <1>18, <2>1 DEF Restart, ClosedInv, ControlInv
    <2>5. RestartTransparent'
      BY <1>18 DEF Restart, RestartTransparent, RestoredWindows, RestoredClosed,
                   ControlInv
    <2>6. QED
      BY <2>1, <2>2, <2>3, <2>4, <2>5 DEF Durable
  <1>19. ASSUME UNCHANGED vars PROVE Durable'
    <2>1. AckedNeverLost' /\ RetainedForHorizon' /\ \A k \in diskClosed' : FlushReason(k)'
      BY <1>19, StoreKept DEF vars, TypeOK
    <2>2. TodoInv'
      BY <1>19, <2>1 DEF vars, TodoInv
    <2>3. PendingInv'
      BY <1>19, <2>1 DEF vars, PendingInv
    <2>4. ClosedInv'
      BY <1>19, <2>1, ReasonsPersist DEF vars, ClosedInv, FlushReason, TypeOK
    <2>5. RestartTransparent'
      BY <1>19, Mirrored DEF vars, RestartTransparent, RestoredWindows, RestoredClosed
    <2>6. QED
      BY <2>1, <2>2, <2>3, <2>4, <2>5 DEF Durable
  <1>20. QED
    BY <1>1, <1>2, <1>3, <1>4, <1>5, <1>6, <1>7, <1>8, <1>9, <1>10, <1>11, <1>12,
       <1>13, <1>14, <1>15, <1>16, <1>17, <1>18, <1>19
       DEF Next, HandleEvent, HandleTick

\* The inductive invariant holds: Init implies it, and every step keeps it.
THEOREM Invariance == Spec => []IInv
  <1>1. Init => IInv
    <2>1. SUFFICES ASSUME Init PROVE IInv
      OBVIOUS
    <2>2. TypeInv
      BY <2>1, InitTyped
    <2>3. QED
      BY <2>1, <2>2, DurableInit DEF IInv
  <1>2. IInv /\ [Next]_vars => IInv'
    <2>1. SUFFICES ASSUME IInv, [Next]_vars PROVE IInv'
      OBVIOUS
    <2>2. TypeInv'
      BY <2>1, NextTyped DEF IInv
    <2>3. QED
      BY <2>1, <2>2, DurableStep DEF IInv
  <1>3. QED
    BY <1>1, <1>2, PTL DEF Spec

-----------------------------------------------------------------------------
(***************************************************************************)
(* The persisted buckets.  Only three things happen to them; and up to the *)
(* horizon of a window they hold what was sent of it.                      *)
(***************************************************************************)

\* Every persisted bucket holds events of its own window only.
Filed == \A k \in Key : \A e \in disk[k] : KeyOf(e) = k

\* The three things that happen to the persisted buckets: the event in hand is added
\* to its own, a closed bucket past its horizon is deleted, or nothing.
Recorded ==
  /\ cur \in Event /\ cur \notin acked
  /\ disk' = [disk EXCEPT ![KeyOf(cur)] = disk[KeyOf(cur)] \cup {cur}]
  /\ UNCHANGED <<checkpoint, now, acked, sent>>

Dropped(k) ==
  /\ HorizonPassed(k)
  /\ k \in diskClosed
  /\ disk' = [disk EXCEPT ![k] = {}]
  /\ UNCHANGED <<checkpoint, now, acked, sent>>

\* IInv as the proofs below need it.
Facts ==
  /\ TypeOK /\ ControlInv
  /\ TodoInv /\ PendingInv /\ ClosedInv
  /\ RestartTransparent /\ AckedNeverLost /\ RetainedForHorizon

LEMMA IInvFacts ==
  ASSUME ~StoreMayFail, IInv
  PROVE  Facts
  BY DEF IInv, Facts, Durable, TypeInv

LEMMA AppendRecords ==
  ASSUME ~StoreMayFail, Facts, AppendOpen \/ AppendLate
  PROVE  Recorded
  <1> USE NoneAssumption DEF Facts, memory, store, control, world, history
  <1> DEFINE k == KeyOf(cur)
  <1>1. pc = "append" /\ cur \in Event /\ k \in Key /\ flush = None /\ cur \notin acked
    BY KeyOfType DEF AppendOpen, AppendLate, TypeOK, ControlInv, PendingInv
  <1>2. /\ maxTS = checkpoint
        /\ k \in diskClosed => windows[k] = {} /\ closed[k] = disk[k]
        /\ k \notin diskClosed => windows[k] = disk[k] /\ closed[k] = {}
    BY <1>1, Mirrored
  <1>3. CASE AppendOpen
    <2>1. windows'[k] = windows[k] \cup {cur} /\ disk[k] = windows[k]
      BY <1>1, <1>2, <1>3 DEF AppendOpen, TypeOK
    <2>2. Save(k, windows'[k], FALSE)
      BY <1>3 DEF AppendOpen
    <2>3. disk' = [disk EXCEPT ![k] = windows'[k]] /\ checkpoint' = checkpoint
      BY <2>2, ReliableWrites
    <2>4. QED
      BY <1>1, <1>3, <2>1, <2>3 DEF AppendOpen, Recorded
  <1>4. CASE AppendLate
    <2>1. closed'[k] = closed[k] \cup {cur} /\ disk[k] = closed[k]
      BY <1>1, <1>2, <1>4 DEF AppendLate, TypeOK
    <2>2. Save(k, closed'[k], TRUE)
      BY <1>4 DEF AppendLate
    <2>3. disk' = [disk EXCEPT ![k] = closed'[k]] /\ checkpoint' = checkpoint
      BY <2>2, ReliableWrites
    <2>4. QED
      BY <1>1, <1>4, <2>1, <2>3 DEF AppendLate, Recorded
  <1>5. QED
    BY <1>3, <1>4

LEMMA DropForgets ==
  ASSUME ~StoreMayFail, Facts, NEW k \in Key, DropClosed(k)
  PROVE  Dropped(k)
  <1> USE NoneAssumption DEF Facts, memory, store, control, world, history
  <1>1. /\ pc = "gc" /\ flush = None
        /\ closed[k] # {} /\ PastHorizon(k, tickAt, Watermark(maxTS))
    BY DEF DropClosed, ControlInv, TodoInv
  <1>2. maxTS = checkpoint /\ k \in diskClosed
    BY <1>1, Mirrored
  <1>3. HorizonPassed(k)
    BY <1>1, <1>2, HorizonIsPassed DEF TypeOK, ControlInv
  <1>4. disk' = [disk EXCEPT ![k] = {}] /\ checkpoint' = checkpoint
    BY ReliableWrites DEF DropClosed
  <1>5. QED
    BY <1>2, <1>3, <1>4 DEF DropClosed, Dropped

\* The Closed flag is saved with the events the bucket already has.
LEMMA SaveClosedKeeps ==
  ASSUME ~StoreMayFail, Facts, SaveClosed
  PROVE  UNCHANGED <<disk, checkpoint, now, acked, sent>>
  <1> USE NoneAssumption DEF Facts, memory, store, control, world, history
  <1>1. pc = "save" /\ flush \in Key
    BY DEF SaveClosed, ControlInv, TypeOK
  <1>2. disk[flush] = closed[flush]
    BY <1>1, Mirrored
  <1>3. disk' = [disk EXCEPT ![flush] = closed[flush]] /\ checkpoint' = checkpoint
    BY ReliableWrites DEF SaveClosed
  <1>4. disk' = disk
    BY <1>1, <1>2, <1>3 DEF TypeOK
  <1>5. QED
    BY <1>3, <1>4 DEF SaveClosed

\* Every other step leaves the buckets alone.
LEMMA StoreSteps ==
  ASSUME ~StoreMayFail, Facts, [Next]_vars
  PROVE  \/ disk' = disk
         \/ Recorded
         \/ \E k \in Key : Dropped(k)
  <1> USE NoneAssumption DEF memory, store, control, world, history
  <1>1. CASE AppendOpen \/ AppendLate
    BY <1>1, AppendRecords
  <1>2. CASE \E k \in Key : DropClosed(k)
    BY <1>2, DropForgets
  <1>3. CASE SaveClosed
    BY <1>3, SaveClosedKeeps
  <1>4. ASSUME NEW e \in Event, Receive(e) PROVE disk' = disk
    BY <1>4, ReliableWrites DEF Receive
  <1>5. CASE EmitCorrection \/ Ack \/ Tick \/ AbortClose \/ StartGc \/ EndTick
    BY <1>5 DEF EmitCorrection, Ack, Tick, AbortClose, StartGc, EndTick
  <1>6. ASSUME NEW k \in Key, CloseWindow(k) PROVE disk' = disk
    BY <1>6 DEF CloseWindow
  <1>7. CASE Forward \/ AdvanceClock \/ Cancel \/ Exit \/ Crash \/ Restart
    BY <1>7 DEF Forward, AdvanceClock, Cancel, Exit, Crash, Stop, Restart
  <1>8. CASE UNCHANGED vars
    BY <1>8 DEF vars
  <1>9. QED
    BY <1>1, <1>2, <1>3, <1>4, <1>5, <1>6, <1>7, <1>8 DEF Next, HandleEvent, HandleTick

LEMMA FiledStep ==
  ASSUME ~StoreMayFail, Facts, Filed, [Next]_vars
  PROVE  Filed'
  <1>1. disk \in [Key -> SUBSET Event]
    BY DEF Facts, TypeOK
  <1>2. CASE disk' = disk
    BY <1>2 DEF Filed
  <1>3. CASE Recorded
    BY <1>1, <1>3, KeyOfType DEF Recorded, Filed
  <1>4. ASSUME NEW k \in Key, Dropped(k) PROVE Filed'
    BY <1>1, <1>4 DEF Dropped, Filed
  <1>5. QED
    BY <1>2, <1>3, <1>4, StoreSteps

LEMMA FiledAlways ==
  ASSUME ~StoreMayFail
  PROVE  Spec => []Filed
  <1>1. Init => Filed
    BY DEF Init, NoBuckets, Filed
  <1>2. IInv /\ Filed /\ [Next]_vars => Filed'
    BY IInvFacts, FiledStep
  <1>3. QED
    BY <1>1, <1>2, Invariance, PTL DEF Spec

\* A batch is the persisted bucket of its window.
Publishes(k, c) == Send(k, disk[k], c) /\ UNCHANGED <<store, now, acked>>

LEMMA BucketIsSent ==
  ASSUME ~StoreMayFail, Facts, EmitCorrection \/ \E k \in Key : CloseWindow(k)
  PROVE  \E k \in Key : \E c \in BOOLEAN : Publishes(k, c)
  <1> USE NoneAssumption DEF Facts, memory, store, control, world, history
  <1>1. CASE EmitCorrection
    <2>1. PICK k \in Key : k = KeyOf(cur)
      BY <1>1, KeyOfType DEF EmitCorrection, ControlInv, TypeOK
    <2>2. pc = "emit" /\ flush = None
      BY <1>1 DEF EmitCorrection, ControlInv
    <2>3. closed[k] = disk[k]
      BY <2>1, <2>2, Mirrored DEF PendingInv
    <2>4. Publishes(k, TRUE)
      BY <1>1, <2>1, <2>3 DEF EmitCorrection, Publishes
    <2>5. QED
      BY <2>4
  <1>2. ASSUME NEW k \in Key, CloseWindow(k) PROVE Publishes(k, FALSE)
    <2>1. pc = "closing" /\ flush = None /\ windows[k] # {}
      BY <1>2 DEF CloseWindow, ControlInv, TodoInv
    <2>2. windows[k] = disk[k]
      BY <2>1, Mirrored
    <2>3. QED
      BY <1>2, <2>2 DEF CloseWindow, Publishes
  <1>3. QED
    BY <1>1, <1>2

LEMMA SendSteps ==
  ASSUME Facts, [Next]_vars
  PROVE  \/ UNCHANGED sent /\ ~Sends
         \/ EmitCorrection
         \/ \E k \in Key : CloseWindow(k)
  <1> USE DEF memory, store, control, world, history
  <1>1. Len(out) \in Nat /\ Len(<<>>) = 0 /\ (out # <<>> => Len(Tail(out)) < Len(out))
    BY DEF Facts, TypeOK
  <1>2. CASE UNCHANGED <<out, sent>>
    BY <1>1, <1>2 DEF Sends
  <1>3. CASE Forward \/ Exit \/ Crash
    BY <1>1, <1>3 DEF Forward, Exit, Crash, Stop, Sends
  <1>4. ASSUME NEW e \in Event, Receive(e) PROVE UNCHANGED <<out, sent>>
    BY <1>4 DEF Receive
  <1>5. CASE AppendOpen \/ AppendLate \/ Ack \/ Tick \/ SaveClosed \/ AbortClose \/ StartGc
             \/ EndTick \/ AdvanceClock \/ Cancel \/ Restart
    <2>1. UNCHANGED <<out, sent>>
      BY <1>5 DEF AppendOpen, AppendLate, Ack, Tick, SaveClosed, AbortClose, StartGc, EndTick,
         AdvanceClock, Cancel, Restart
    <2>2. QED
      BY <1>2, <2>1
  <1>6. ASSUME NEW k \in Key, DropClosed(k) PROVE UNCHANGED <<out, sent>>
    BY <1>6 DEF DropClosed
  <1>7. CASE UNCHANGED vars
    <2>1. UNCHANGED <<out, sent>>
      BY <1>7 DEF vars
    <2>2. QED
      BY <1>2, <2>1
  <1>8. QED
    BY <1>2, <1>3, <1>4, <1>5, <1>6, <1>7 DEF Next, HandleEvent, HandleTick

\* Neither the watermark nor the clock goes back, a restart included.
LEMMA TimeGoesOn ==
  ASSUME ~StoreMayFail, Facts, [Next]_vars
  PROVE  checkpoint' >= checkpoint /\ now' >= now
  <1> USE NoneAssumption DEF memory, store, control, world, history
  <1>1. checkpoint \in Int /\ now \in Nat
    BY DEF Facts, TypeOK
  <1>2. CASE AppendOpen \/ AppendLate
    BY <1>1, <1>2, AppendRecords DEF Recorded
  <1>3. CASE \E k \in Key : DropClosed(k)
    BY <1>1, <1>3, DropForgets DEF Dropped
  <1>4. CASE SaveClosed
    BY <1>1, <1>4, SaveClosedKeeps
  <1>5. ASSUME NEW e \in Event, Receive(e) PROVE checkpoint' >= checkpoint /\ now' >= now
    <2>1. maxTS = checkpoint /\ e.ts \in Int
      BY <1>5, Mirrored, TumblingAssumption DEF Facts, Receive, Event
    <2>2. now' = now /\ (checkpoint' = checkpoint \/ (e.ts > maxTS /\ checkpoint' = e.ts))
      BY <1>5, ReliableWrites DEF Receive
    <2>3. QED
      BY <1>1, <2>1, <2>2
  <1>6. CASE EmitCorrection \/ Ack \/ Tick \/ AbortClose \/ StartGc \/ EndTick
    <2>1. checkpoint' = checkpoint /\ now' = now
      BY <1>6 DEF EmitCorrection, Ack, Tick, AbortClose, StartGc, EndTick
    <2>2. QED
      BY <1>1, <2>1
  <1>7. ASSUME NEW k \in Key, CloseWindow(k) PROVE checkpoint' >= checkpoint /\ now' >= now
    BY <1>1, <1>7 DEF CloseWindow
  <1>8. CASE Forward \/ AdvanceClock \/ Cancel \/ Exit \/ Crash \/ Restart
    BY <1>1, <1>8 DEF Forward, AdvanceClock, Cancel, Exit, Crash, Stop, Restart
  <1>9. CASE UNCHANGED vars
    BY <1>1, <1>9 DEF vars
  <1>10. QED
    BY <1>2, <1>3, <1>4, <1>5, <1>6, <1>7, <1>8, <1>9 DEF Next, HandleEvent, HandleTick

\* What was sent of a window stays in its bucket up to the horizon.
SentInv == \A e \in sent : e \in disk[KeyOf(e)] \/ HorizonPassed(KeyOf(e))

LEMMA SentStep ==
  ASSUME ~StoreMayFail, Facts, TypeOK', Filed, SentInv, [Next]_vars
  PROVE  SentInv'
  <1>1. TypeOK /\ disk \in [Key -> SUBSET Event] /\ sent \subseteq Event
    BY DEF Facts, TypeOK
  <1>2. \A k \in Key : HorizonPassed(k) => HorizonPassed(k)'
    BY <1>1, TimeGoesOn, ReasonsPersist
  <1>3. CASE EmitCorrection \/ \E k \in Key : CloseWindow(k)
    <2>1. PICK k \in Key : \E c \in BOOLEAN : Publishes(k, c)
      BY <1>3, BucketIsSent
    <2>2. sent' = sent \cup disk[k] /\ disk' = disk
      BY <2>1 DEF Publishes, Send, store
    <2>3. \A e \in disk[k] : e \in disk[KeyOf(e)]
      BY DEF Filed
    <2>4. QED
      BY <1>1, <1>2, <2>2, <2>3, KeyOfType DEF SentInv
  <1>4. CASE UNCHANGED sent
    <2>1. CASE disk' = disk
      BY <1>1, <1>2, <1>4, <2>1, KeyOfType DEF SentInv
    <2>2. CASE Recorded
      BY <1>1, <1>2, <1>4, <2>2, KeyOfType DEF SentInv, Recorded
    <2>3. ASSUME NEW k \in Key, Dropped(k) PROVE SentInv'
      BY <1>1, <1>2, <1>4, <2>3, KeyOfType DEF SentInv, Dropped
    <2>4. QED
      BY <2>1, <2>2, <2>3, StoreSteps
  <1>5. QED
    BY <1>3, <1>4, SendSteps

LEMMA SentAlways ==
  ASSUME ~StoreMayFail
  PROVE  Spec => []SentInv
  <1>1. Init => SentInv
    BY DEF Init, SentInv
  <1>2. IInv /\ IInv' /\ Filed /\ SentInv /\ [Next]_vars => SentInv'
    BY IInvFacts, SentStep DEF IInv, TypeInv
  <1>3. QED
    BY <1>1, <1>2, Invariance, FiledAlways, PTL DEF Spec

-----------------------------------------------------------------------------
(***************************************************************************)
(* What follows from it.                                                   *)
(***************************************************************************)

\* Wherever the Manager is killed, Restore rebuilds what it held in memory.
THEOREM RestartIsTransparent == Spec => []RestartTransparent
  <1>1. IInv => RestartTransparent
    BY DEF IInv, Durable, RestartTransparent
  <1>2. QED
    BY <1>1, Invariance, PTL

\* An acknowledged event is in an open persisted bucket, or was sent in a batch.
THEOREM AckedIsNeverLost == Spec => []AckedNeverLost
  <1>1. IInv => AckedNeverLost
    BY DEF IInv, Durable, AckedNeverLost
  <1>2. QED
    BY <1>1, Invariance, PTL

\* gcClosed drops no acknowledged event before its window's correction horizon.
THEOREM AckedIsRetained == Spec => []RetainedForHorizon
  <1>1. IInv => RetainedForHorizon
    BY DEF IInv, Durable, RetainedForHorizon
  <1>2. QED
    BY <1>1, Invariance, PTL

\* When windows and lateness are whole seconds, which a Second of one clock unit
\* says, add takes no event for late that the watermark has not passed, unless the
\* clock has flushed its window.
THEOREM CorrectionsAreForLateEvents ==
  ASSUME Second = 1
  PROVE  Spec => []OnlyLateEventsCorrect
  <1>1. ASSUME NEW e \in Event PROVE e.ts < EndUnix(KeyOf(e))
    <2>1. e.ts \in Int
      BY TumblingAssumption DEF Event
    <2>2. e.ts % Size < Size
      BY <2>1, TumblingAssumption
    <2>3. End(KeyOf(e)) = e.ts - (e.ts % Size) + Size
      BY <2>1 DEF End, KeyOf, StartOf
    <2>4. e.ts < End(KeyOf(e)) /\ End(KeyOf(e)) \in Int
      BY <2>1, <2>2, <2>3, TumblingAssumption
    <2>5. QED
      BY <2>4 DEF EndUnix
  <1>2. IInv => OnlyLateEventsCorrect
    <2>1. SUFFICES ASSUME IInv, ~StoreMayFail, pc = "emit"
                   PROVE  cur.ts < Watermark(maxTS) \/ now >= End(KeyOf(cur)) + Lateness
      BY DEF OnlyLateEventsCorrect
    <2>2. /\ cur \in Event /\ KeyOf(cur) \in Key /\ flush = None
          /\ cur \in closed[KeyOf(cur)]
      BY <2>1, KeyOfType, NoneAssumption
      DEF IInv, Durable, TypeInv, TypeOK, ControlInv, PendingInv
    <2>3. maxTS = checkpoint /\ KeyOf(cur) \in diskClosed
      BY <2>1, <2>2, Mirrored, NoneAssumption DEF IInv, Durable, TypeInv
    <2>4. EndUnix(KeyOf(cur)) <= Watermark(maxTS) \/ now >= End(KeyOf(cur)) + Lateness
      BY <2>1, <2>3 DEF IInv, Durable, ClosedInv, FlushReason
    <2>5. cur.ts \in Int /\ Watermark(maxTS) \in Int /\ EndUnix(KeyOf(cur)) \in Int
      <3>1. cur.ts \in Int
        BY <2>2, TumblingAssumption DEF Event
      <3>2. Watermark(maxTS) \in Int
        BY <2>1, InstantTypes DEF IInv, TypeInv, TypeOK, Watermark
      <3>3. QED
        BY <2>2, <3>1, <3>2, InstantTypes
    <2>6. QED
      BY <1>1, <2>2, <2>4, <2>5
  <1>3. QED
    BY <1>2, Invariance, PTL

\* Before its window's horizon has passed, every batch holds all events of the window that
\* were acknowledged, and all that an earlier batch of the window had.
THEOREM BatchesHoldAllAcked == Spec => BatchesAreComplete
  <1> DEFINE Complete == ~StoreMayFail /\ Sends /\ ~HorizonPassed(NewBatch.key) =>
              {e \in acked \cup sent : KeyOf(e) = NewBatch.key} \subseteq NewBatch.events
  <1>1. ASSUME ~StoreMayFail
        PROVE  IInv /\ SentInv /\ [Next]_vars => [Complete]_vars
    <2> SUFFICES ASSUME IInv, SentInv, Next, Sends, ~HorizonPassed(NewBatch.key)
                 PROVE  {e \in acked \cup sent : KeyOf(e) = NewBatch.key}
                          \subseteq NewBatch.events
      OBVIOUS
    <2>1. Facts
      BY <1>1, IInvFacts
    <2>2. EmitCorrection \/ \E k \in Key : CloseWindow(k)
      BY <2>1, SendSteps
    <2>3. PICK k \in Key, c \in BOOLEAN : Publishes(k, c)
      BY <1>1, <2>1, <2>2, BucketIsSent
    <2>4. NewBatch = [key |-> k, events |-> disk[k], corrected |-> c]
      BY <2>1, <2>3 DEF Publishes, Send, NewBatch, Facts, TypeOK
    <2>5. \A e \in acked \cup sent : KeyOf(e) = k => e \in disk[k]
      BY <1>1, <2>1, <2>4 DEF Facts, RetainedForHorizon, SentInv
    <2>6. QED
      BY <2>4, <2>5
  <1>2. ASSUME StoreMayFail PROVE [Complete]_vars
    BY <1>2
  <1>3. CASE ~StoreMayFail
    <2>1. Spec => []SentInv
      BY <1>3, SentAlways
    <2>2. IInv /\ SentInv /\ [Next]_vars => [Complete]_vars
      BY <1>1, <1>3
    <2>3. QED
      BY <2>1, <2>2, Invariance, PTL DEF Spec, BatchesAreComplete
  <1>4. CASE StoreMayFail
    <2>1. [Complete]_vars
      BY <1>2, <1>4
    <2>2. QED
      BY <2>1, PTL DEF BatchesAreComplete
  <1>5. QED
    BY <1>3, <1>4

=============================================================================
