--------------------------- MODULE PromiseProofs ---------------------------
(***************************************************************************)
(* Tumbling implements WindowPromise, for every value of its constants, if *)
(* the writes to the store succeed.                                        *)
(***************************************************************************)
EXTENDS TumblingProofs

-----------------------------------------------------------------------------
(***************************************************************************)
(* Each step of Tumbling is one of the promise, or none.                   *)
(***************************************************************************)

Held    == UNION {disk[k] : k \in Key}
Settled == {k \in Key : HorizonPassed(k)}

LEMMA MembersAre == \A k : Promise!Members(k) = {e \in Event : KeyOf(e) = k}
  BY DEF Promise!Members

\* A step of the clock or of the watermark: horizons pass, and stay passed.
LEMMA HorizonsPass ==
  ASSUME TypeOK, TypeOK', checkpoint' >= checkpoint, now' >= now,
         UNCHANGED <<disk, sent, acked>>
  PROVE  Promise!Settle
  BY ReasonsPersist DEF Promise!Settle

\* A step that leaves the watermark and the clock alone.
LEMMA SameHorizons ==
  ASSUME UNCHANGED <<checkpoint, now>>
  PROVE  Settled' = Settled
  BY DEF HorizonPassed, Settled

LEMMA RecordStep ==
  ASSUME Facts, Recorded
  PROVE  Promise!Next
  <1>1. disk \in [Key -> SUBSET Event] /\ KeyOf(cur) \in Key /\ cur \in Event
    BY KeyOfType DEF Facts, TypeOK, Recorded
  <1>2. PICK e \in Event : e = cur
    BY <1>1
  <1>3. Held' = Held \cup {e}
    BY <1>1, <1>2 DEF Recorded, Held
  <1>4. Promise!Record(e)
    BY <1>2, <1>3, SameHorizons DEF Recorded, Held, Settled, Promise!Record
  <1>5. QED
    BY <1>4 DEF Promise!Next

LEMMA ForgetStep ==
  ASSUME ~StoreMayFail, Facts, Filed, NEW k \in Key, Dropped(k)
  PROVE  Promise!Next
  <1>1. disk \in [Key -> SUBSET Event] /\ acked \subseteq Event
    BY DEF Facts, TypeOK
  <1>2. Held' = Held \ Promise!Members(k)
    BY <1>1, MembersAre DEF Dropped, Held, Filed
  <1>3. acked \cap Promise!Members(k) \subseteq sent
    BY <1>1, MembersAre DEF Facts, AckedNeverLost, Dropped
  <1>4. Promise!Forget(k)
    BY <1>2, <1>3, SameHorizons DEF Dropped, Held, Settled, Promise!Forget
  <1>5. QED
    BY <1>4 DEF Promise!Next

\* A send: the batch is the persisted bucket.
LEMMA PublishStep ==
  ASSUME ~StoreMayFail, Facts, Filed, NEW k \in Key, NEW c,
         Send(k, disk[k], c), UNCHANGED <<store, now, acked>>
  PROVE  Promise!Next
  <1>1. disk \in [Key -> SUBSET Event] /\ acked \subseteq Event
    BY DEF Facts, TypeOK
  <1>2. disk[k] \subseteq Held /\ disk[k] \subseteq Promise!Members(k)
    BY <1>1, MembersAre DEF Held, Filed
  <1>3. k \in Settled \/ acked \cap Promise!Members(k) \subseteq disk[k]
    BY <1>1, MembersAre DEF Facts, RetainedForHorizon, Settled
  <1>4. sent' = sent \cup disk[k]
    BY DEF Send
  <1>5. Promise!Publish(k)
    BY <1>2, <1>3, <1>4, SameHorizons DEF store, Held, Settled, Promise!Publish
  <1>6. QED
    BY <1>5 DEF Promise!Next

LEMMA AckStep ==
  ASSUME ~StoreMayFail, Facts, Ack
  PROVE  Promise!Next
  <1> USE NoneAssumption DEF memory, store, control, world, history
  <1>1. pc = "ack" /\ cur \in Event /\ KeyOf(cur) \in Key
    BY KeyOfType DEF Facts, Ack, ControlInv, TypeOK
  <1>2. PICK e \in Event : e = cur
    BY <1>1
  <1>3. e \in Held
    BY <1>1, <1>2 DEF Facts, PendingInv, Held
  <1>4. Promise!Ack(e)
    BY <1>2, <1>3, SameHorizons DEF Ack, Held, Settled, Promise!Ack
  <1>5. QED
    BY <1>4 DEF Promise!Next

LEMMA Stutters ==
  ASSUME UNCHANGED <<disk, sent, acked, checkpoint, now>>
  PROVE  UNCHANGED Promise!vars
  BY SameHorizons DEF Settled, Promise!vars

LEMMA PromiseStep ==
  ASSUME ~StoreMayFail, Facts, Filed, TypeOK', [Next]_vars
  PROVE  Promise!Next \/ UNCHANGED Promise!vars
  <1> USE NoneAssumption DEF memory, store, control, world, history
  <1>1. CASE AppendOpen \/ AppendLate
    BY <1>1, AppendRecords, RecordStep
  <1>2. ASSUME NEW k \in Key, DropClosed(k) PROVE Promise!Next
    BY <1>2, DropForgets, ForgetStep
  <1>3. CASE SaveClosed
    BY <1>3, SaveClosedKeeps, Stutters
  <1>4. CASE Ack
    BY <1>4, AckStep
  <1>5. CASE EmitCorrection \/ \E k \in Key : CloseWindow(k)
    <2>1. PICK k \in Key, c \in BOOLEAN : Publishes(k, c)
      BY <1>5, BucketIsSent
    <2>2. QED
      BY <2>1, PublishStep DEF Publishes
  <1>6. ASSUME NEW e \in Event, Receive(e) PROVE Promise!Next
    <2>1. UNCHANGED <<disk, sent, acked>>
      BY <1>6, ReliableWrites DEF Receive
    <2>2. QED
      BY <2>1, TimeGoesOn, HorizonsPass DEF Facts, Promise!Next
  <1>7. CASE AdvanceClock
    BY <1>7, TimeGoesOn, HorizonsPass DEF Facts, AdvanceClock, Promise!Next
  <1>8. CASE Tick \/ AbortClose \/ StartGc \/ EndTick
    BY <1>8, Stutters DEF Tick, AbortClose, StartGc, EndTick
  <1>9. CASE Forward \/ Cancel \/ Exit \/ Crash \/ Restart
    BY <1>9, Stutters DEF Forward, Cancel, Exit, Crash, Stop, Restart
  <1>10. CASE UNCHANGED vars
    BY <1>10, Stutters DEF vars
  <1>11. QED
    BY <1>1, <1>2, <1>3, <1>4, <1>5, <1>6, <1>7, <1>8, <1>9, <1>10
       DEF Next, HandleEvent, HandleTick

LEMMA PromiseInit == Init => Promise!Init
  <1>1. SUFFICES ASSUME Init PROVE Promise!Init
    OBVIOUS
  <1>2. UNION {disk[k] : k \in Key} = {}
    BY <1>1 DEF Init, NoBuckets
  <1>3. QED
    BY <1>1, <1>2 DEF Init, Promise!Init

\* Tumbling implements WindowPromise when the writes to its store succeed: whatever the
\* crashes, restarts and interleavings of clock, watermark and forwarder, the engine sees
\* nothing but events that are held, batches that are complete, acks of what is
\* held, and windows forgotten when nothing is owed to them (add, closeExpired,
\* gcClosed, Restore, Run).
THEOREM PromiseIsKept ==
  ASSUME ~StoreMayFail
  PROVE  Spec => KeepsPromise
  <1>1. IInv /\ IInv' /\ Filed /\ [Next]_vars => [Promise!Next]_(Promise!vars)
    BY IInvFacts, PromiseStep DEF IInv, TypeInv
  <1>2. QED
    BY <1>1, PromiseInit, Invariance, FiledAlways, PTL DEF Spec, KeepsPromise, Promise!Spec

=============================================================================
