--------------------------- MODULE DeliveryProofs ---------------------------
(***************************************************************************)
(* What holds of Delivery for every number of messages, posts and streams, *)
(* every capacity and every bound on the faults.                           *)
(*                                                                         *)
(* The barrier counts, and does not look at who it counts.  That the count *)
(* is right rests on the way of a receipt: it is on at most one place of   *)
(* the way to each Manager (OnceInv), and a new one is on none (IssuedInv),*)
(* so that each Manager counts down once, and after its add.  IInv adds to *)
(* this how far each barrier still has to count (BarrierInv), that nobody  *)
(* is waited for once a message is marked (AckInv), and that a message the *)
(* dedupe store was right about has a single receipt beyond the handler    *)
(* (CountedInv).                                                           *)
(***************************************************************************)
EXTENDS Delivery, SequenceTheorems, FiniteSetTheorems, TLAPS

The(x) == {x} \ {None}

\* The receipts before fanOut.
Coming == Range(sub) \cup The(handler) \cup Range(eventCh)

\* The envelope that fanOut has still to copy to the stream.
Unsent(s) == {e \in The(fan) : \E i \in fanNext..Len(StreamOrder) : StreamOrder[i] = s}

\* The receipts the stream's Manager has taken.
Reached(s) == The(work[s]) \cup recorded[s]

\* The receipts beyond the subscription.
Beyond(s) ==
  The(handler) \cup Range(eventCh) \cup Unsent(s) \cup Range(streamIn[s]) \cup Reached(s)

Path(s) == Coming \cup Unsent(s) \cup Range(streamIn[s]) \cup Reached(s)

\* No receipt is twice on the way to a Manager.
OnceInv ==
  /\ IsInjective(sub) /\ IsInjective(eventCh)
  /\ Range(sub) \cap Range(eventCh) = {}
  /\ handler \notin Range(sub) \cup Range(eventCh)
  /\ \A s \in Streams :
       /\ IsInjective(streamIn[s])
       /\ Coming \cap (Unsent(s) \cup Range(streamIn[s]) \cup Reached(s)) = {}
       /\ Unsent(s) \cap (Range(streamIn[s]) \cup Reached(s)) = {}
       /\ Range(streamIn[s]) \cap Reached(s) = {}

Issued(e) == IF e.msg \in Msgs THEN e.n <= delivered[e.msg] ELSE e.msg \in accepted

\* Every receipt is one that JetStream has delivered or a post that was accepted; the
\* subscription's are the former.
IssuedInv ==
  /\ \A s \in Streams : \A e \in Path(s) : Issued(e)
  /\ \A e \in Range(sub) \cup The(handler) : e.msg \in Msgs

\* What a Manager works on; while the database is open it is recorded.
WorkInv ==
  \A s \in Streams :
    /\ at[s] = "idle" <=> work[s] = None
    /\ at[s] \in {"mark", "ack"} => work[s].msg \in Msgs
    /\ DbIsOpen => The(work[s]) \subseteq recorded[s]

\* A process that is down holds nothing.
DownInv ==
  phase = "down" =>
    /\ Coming = {} /\ fan = None
    /\ \A s \in Streams : streamIn[s] = <<>> /\ work[s] = None

\* The streams whose copy of the envelope is on its way and not counted down.
Pending(e) ==
  {s \in Streams : \/ e \in Unsent(s) \cup Range(streamIn[s])
                   \/ at[s] = "added" /\ work[s] = e}

\* The streams that the barrier of the envelope must still wait for.
Waiting(e) == Pending(e) \cup {s \in Streams : DbIsOpen /\ e \notin recorded[s]}

\* The barrier has no fewer to count than it must wait for.
BarrierInv ==
  \A e \in Envelope :
    e.msg \in Msgs /\ Pending(e) # {} => Cardinality(Waiting(e)) <= remaining[e]

\* Who runs the Ack callback waits for nobody.
AckInv ==
  /\ AckAfterAllStreams
  /\ DbIsOpen => \A s \in Streams : at[s] \in {"mark", "ack"} => Waiting(work[s]) = {}

\* A message that is not excused is marked once it is done, delivered no second time
\* before, and its only receipt beyond the handler is the first.
Counted(m) ==
  /\ m \in done => m \in seen
  /\ m \notin done => delivered[m] <= 1
  /\ m \notin done /\ delivered[m] = 1 => m \in outstanding \/ m \notin owed
  /\ \A s \in Streams : \A e \in Beyond(s) : e.msg = m => e.n = 1

CountedInv == Dedupe => \A m \in Msgs \ excused : Counted(m)

IInv ==
  /\ TypeOK
  /\ OnceInv
  /\ IssuedInv
  /\ WorkInv
  /\ DownInv
  /\ BarrierInv
  /\ AckInv
  /\ SettledIsRecorded
  /\ CountedInv

-----------------------------------------------------------------------------
(***************************************************************************)
(* Streams and channels.                                                   *)
(***************************************************************************)

LEMMA StreamsFinite ==
  /\ IsFiniteSet(Streams)
  /\ Cardinality(Streams) = Len(StreamOrder)
  /\ Streams # {}
  /\ Len(StreamOrder) \in Nat \ {0}
  /\ StreamOrder \in [1..Len(StreamOrder) -> Streams]
  /\ \A i, j \in 1..Len(StreamOrder) : StreamOrder[i] = StreamOrder[j] => i = j
  <1>1. Len(StreamOrder) \in Nat /\ StreamOrder \in [1..Len(StreamOrder) -> Streams]
    BY DeliveryAssumption
  <1> DEFINE I == 1..Len(StreamOrder)
  <1>2. IsFiniteSet(I) /\ Cardinality(I) = Len(StreamOrder)
    BY <1>1, FS_Interval
  <1>3. StreamOrder \in Surjection(I, Streams)
    BY <1>1 DEF Surjection, Streams
  <1>4. IsFiniteSet(Streams)
    BY <1>2, <1>3, FS_Surjection
  <1>5. Cardinality(Streams) = Len(StreamOrder) /\ Len(StreamOrder) >= 1
    BY DeliveryAssumption
  <1>6. StreamOrder \in Injection(I, Streams)
    BY <1>2, <1>3, <1>4, <1>5, FS_SurjSameCardinalityImpliesInj
  <1>7. 1 \in I /\ StreamOrder[1] \in Streams
    BY <1>1, <1>5
  <1>8. QED
    BY <1>1, <1>4, <1>5, <1>6, <1>7 DEF Injection, IsInjective

LEMMA AppendOnce ==
  ASSUME NEW S, NEW q \in Seq(S), NEW x \in S
  PROVE  /\ Append(q, x) \in Seq(S)
         /\ Len(Append(q, x)) = Len(q) + 1
         /\ Range(Append(q, x)) = Range(q) \cup {x}
         /\ IsInjective(q) /\ x \notin Range(q) => IsInjective(Append(q, x))
  BY AppendProperties, LenProperties DEF Range, IsInjective

LEMMA TailOnce ==
  ASSUME NEW S, NEW q \in Seq(S), q # <<>>
  PROVE  /\ Head(q) \in S
         /\ Head(q) \in Range(q)
         /\ Tail(q) \in Seq(S)
         /\ Len(Tail(q)) = Len(q) - 1
         /\ Range(Tail(q)) \subseteq Range(q)
         /\ IsInjective(q) => /\ IsInjective(Tail(q))
                              /\ Head(q) \notin Range(Tail(q))
  BY HeadTailProperties, LenProperties DEF Range, IsInjective

LEMMA EmptyOnce == Range(<<>>) = {} /\ IsInjective(<<>>)
  BY DEF Range, IsInjective

LEMMA RangeType ==
  ASSUME NEW S, NEW q \in Seq(S)
  PROVE  Range(q) \subseteq S
  BY LenProperties DEF Range

LEMMA EnvelopeType ==
  ASSUME NEW e \in Envelope
  PROVE  /\ e.msg \in Msgs \cup Posts
         /\ e.n \in Nat \ {0}
         /\ e = [msg |-> e.msg, n |-> e.n]
         /\ e # None
  BY NoneIsNoEnvelope DEF Envelope

LEMMA FirstDelivery ==
  /\ MaxDeliveries \in Nat \ {0}
  /\ \A p \in Posts : [msg |-> p, n |-> 1] \in Envelope
  /\ \A m \in Msgs, n \in 1..MaxDeliveries : [msg |-> m, n |-> n] \in Envelope
  <1>1. MaxDeliveries \in Nat \ {0}
    BY DeliveryAssumption DEF MaxDeliveries
  <1>2. QED
    BY <1>1 DEF Envelope

-----------------------------------------------------------------------------
(***************************************************************************)
(* The initial states.                                                     *)
(***************************************************************************)

LEMMA InitHolds == Init => IInv
  <1> SUFFICES ASSUME Init PROVE IInv
    OBVIOUS
  <1> USE StreamsFinite, EmptyOnce, NoneIsNoEnvelope DEF Init, The
  <1>1. TypeOK
    BY DeliveryAssumption, FirstDelivery DEF TypeOK
  <1>2. \A s \in Streams : Path(s) = {}
    BY DEF Path, Coming, Unsent, Reached
  <1>3. OnceInv
    BY <1>2 DEF OnceInv, Path, Coming
  <1>4. IssuedInv
    BY <1>2 DEF IssuedInv, Path, Coming
  <1>5. WorkInv /\ DownInv /\ ~DbIsOpen
    BY DEF WorkInv, DownInv, DbIsOpen, Coming
  <1>6. BarrierInv
    BY <1>2 DEF BarrierInv, Pending, Path
  <1>7. AckInv
    BY <1>5 DEF AckInv, AckAfterAllStreams
  <1>8. SettledIsRecorded
    BY DEF SettledIsRecorded
  <1>9. CountedInv
    BY <1>2 DEF CountedInv, Counted, Beyond, Path, Coming
  <1>10. QED
    BY <1>1, <1>3, <1>4, <1>5, <1>6, <1>7, <1>8, <1>9 DEF IInv

-----------------------------------------------------------------------------
(***************************************************************************)
(* Type correctness.  That a barrier never goes below zero is BarrierInv.  *)
(***************************************************************************)

LEMMA WaitingFinite ==
  ASSUME NEW e
  PROVE  /\ IsFiniteSet(Waiting(e))
         /\ Cardinality(Waiting(e)) \in 0..Len(StreamOrder)
  <1>1. Waiting(e) \in SUBSET Streams
    BY DEF Waiting, Pending
  <1>2. QED
    BY <1>1, StreamsFinite, FS_Subset, FS_CardinalityType

LEMMA AddedIsCounted ==
  ASSUME TypeOK, BarrierInv, NEW s \in Streams,
         at[s] = "added", work[s] \in Envelope, work[s].msg \in Msgs
  PROVE  /\ s \in Waiting(work[s])
         /\ Cardinality(Waiting(work[s])) <= remaining[work[s]]
         /\ remaining[work[s]] \in 1..Len(StreamOrder)
  <1>1. s \in Pending(work[s]) /\ s \in Waiting(work[s])
    BY DEF Pending, Waiting
  <1>2. Cardinality(Waiting(work[s])) <= remaining[work[s]]
    BY <1>1 DEF BarrierInv
  <1>3. Cardinality(Waiting(work[s])) # 0
    BY <1>1, WaitingFinite, FS_EmptySet
  <1>4. remaining[work[s]] \in 0..Len(StreamOrder)
    BY DEF TypeOK
  <1>5. QED
    BY <1>1, <1>2, <1>3, <1>4, WaitingFinite, StreamsFinite

LEMMA DbErrorType ==
  ASSUME TypeOK, DbError
  PROVE  faults' \in 0..MaxFaults
  <1>1. faults \in 0..MaxFaults /\ MaxFaults \in Nat
    BY DeliveryAssumption DEF TypeOK
  <1>2. CASE DbIsOpen
    BY <1>1, <1>2 DEF DbError
  <1>3. CASE ~DbIsOpen
    BY <1>1, <1>3 DEF DbError
  <1>4. QED
    BY <1>2, <1>3

LEMMA SettleType ==
  ASSUME TypeOK, NEW m \in Msgs, Settle(m)
  PROVE  /\ owed' \subseteq Msgs
         /\ outstanding' \subseteq owed'
         /\ faults' \in 0..MaxFaults
  <1>1. faults \in 0..MaxFaults /\ MaxFaults \in Nat /\ owed \subseteq Msgs /\ outstanding \subseteq owed
    BY DeliveryAssumption DEF TypeOK
  <1>2. CASE Connected /\ owed' = owed \ {m} /\ outstanding' = outstanding \ {m} /\ UNCHANGED faults
    BY <1>1, <1>2
  <1>3. CASE faults < MaxFaults /\ faults' = faults + 1 /\ UNCHANGED <<owed, outstanding>>
    BY <1>1, <1>3
  <1>4. CASE UNCHANGED <<owed, outstanding, faults>>
    BY <1>1, <1>4
  <1>5. QED
    BY <1>2, <1>3, <1>4 DEF Settle

\* The subscription holds receipts of messages only.
LEMMA SubHead ==
  ASSUME TypeOK, IssuedInv, Handling
  PROVE  /\ Head(sub) \in Envelope
         /\ Head(sub) \in Range(sub)
         /\ Head(sub).msg \in Msgs
         /\ Tail(sub) \in Seq(Envelope)
  <1>1. sub \in Seq(Envelope) /\ sub # <<>>
    BY DEF TypeOK, Handling
  <1>2. QED
    BY <1>1, TailOnce DEF IssuedInv

LEMMA EndsType ==
  ASSUME TypeOK, Ends, stops' \in 0..MaxStops
  PROVE  TypeOK'
  <1>1. recorded' \in [Streams -> SUBSET Envelope]
    BY DEF TypeOK, Ends
  <1>2. /\ sub' \in Seq(Envelope) /\ eventCh' \in Seq(Envelope) /\ Len(eventCh') <= EventCap
        /\ streamIn' \in [Streams -> Seq(Envelope)]
        /\ \A s \in Streams : Len(streamIn'[s]) <= StreamCap
    BY DeliveryAssumption DEF Ends
  <1>3. /\ fanNext' \in 1..Len(StreamOrder)
        /\ remaining' \in [Envelope -> 0..Len(StreamOrder)]
    BY StreamsFinite DEF Ends
  <1>4. QED
    BY <1>1, <1>2, <1>3 DEF TypeOK, Ends

LEMMA NextTyped == IInv /\ [Next]_vars => TypeOK'
  <1> USE DEF jetstream, ingest, fanning, managers, process, history
  <1> SUFFICES ASSUME TypeOK, IssuedInv, WorkInv, BarrierInv, [Next]_vars
               PROVE  TypeOK'
    BY DEF IInv
  <1> USE DEF TypeOK
  <1>1. ASSUME NEW m \in Msgs, Deliver(m) PROVE TypeOK'
    <2>1. delivered'[m] \in 1..MaxDeliveries /\ delivered' \in [Msgs -> 0..MaxDeliveries]
      BY <1>1, FirstDelivery DEF Deliver
    <2>2. sub' \in Seq(Envelope)
      BY <1>1, <2>1, FirstDelivery, AppendOnce DEF Deliver
    <2>3. outstanding' \subseteq owed'
      BY <1>1 DEF Deliver
    <2>4. QED
      BY <1>1, <2>1, <2>2, <2>3 DEF Deliver
  <1>2. ASSUME NEW m \in Msgs, AckWaitExpires(m) PROVE TypeOK'
    <2>1. faults' = faults \/ (faults < MaxFaults /\ faults' = faults + 1)
      BY <1>2 DEF AckWaitExpires
    <2>2. faults \in 0..MaxFaults /\ MaxFaults \in Nat
      BY DeliveryAssumption
    <2>3. faults' \in 0..MaxFaults
      BY <2>1, <2>2
    <2>4. QED
      BY <1>2, <2>3 DEF AckWaitExpires
  <1>3. ASSUME NEW m \in Msgs, Expire(m) PROVE TypeOK'
    BY <1>3 DEF Expire
  <1>4. ASSUME HandleSeen PROVE TypeOK'
    <2>1. Handling /\ Settle(Head(sub).msg) /\ sub' = Tail(sub)
      BY <1>4 DEF HandleSeen
    <2>2. QED
      BY <1>4, <2>1, SubHead, SettleType DEF HandleSeen
  <1>5. ASSUME HandleMalformed PROVE TypeOK'
    <2>1. Handling /\ Settle(Head(sub).msg) /\ sub' = Tail(sub)
      BY <1>5 DEF HandleMalformed
    <2>2. QED
      BY <1>5, <2>1, SubHead, SettleType DEF HandleMalformed
  <1>6. ASSUME HandleEvent PROVE TypeOK'
    <2>1. Handling /\ SeenSaysNo(Head(sub).msg) /\ sub' = Tail(sub) /\ handler' = Head(sub)
      BY <1>6 DEF HandleEvent
    <2>2. faults' \in 0..MaxFaults /\ excused' \subseteq Msgs
      BY <2>1, SubHead, DbErrorType DEF SeenSaysNo
    <2>3. QED
      BY <1>6, <2>1, <2>2, SubHead DEF HandleEvent
  <1>7. ASSUME Enqueue PROVE TypeOK'
    <2>1. handler \in Envelope /\ Len(eventCh) < EventCap
      BY <1>7 DEF Enqueue, HasRoom
    <2>2. eventCh' \in Seq(Envelope) /\ Len(eventCh') <= EventCap
      BY <1>7, <2>1, AppendOnce, LenProperties, DeliveryAssumption DEF Enqueue
    <2>3. QED
      BY <1>7, <2>2 DEF Enqueue
  <1>8. ASSUME Nak PROVE TypeOK'
    <2>1. handler # None
      BY <1>8 DEF Nak
    <2>2. handler.msg \in Msgs
      BY <2>1 DEF IssuedInv, The
    <2>3. excused' \subseteq Msgs /\ outstanding' \subseteq owed'
      BY <1>8, <2>2 DEF Nak
    <2>4. QED
      BY <1>8, <2>3 DEF Nak
  <1>9. ASSUME NEW p \in Posts, Post(p) PROVE TypeOK'
    <2>1. [msg |-> p, n |-> 1] \in Envelope /\ Len(eventCh) < EventCap
      BY <1>9, FirstDelivery DEF Post, HasRoom
    <2>2. eventCh' \in Seq(Envelope) /\ Len(eventCh') <= EventCap
      BY <1>9, <2>1, AppendOnce, LenProperties, DeliveryAssumption DEF Post
    <2>3. QED
      BY <1>9, <2>2 DEF Post
  <1>10. ASSUME FanTake PROVE TypeOK'
    <2>1. Head(eventCh) \in Envelope /\ Tail(eventCh) \in Seq(Envelope)
          /\ Len(Tail(eventCh)) <= EventCap
      BY <1>10, TailOnce, LenProperties, DeliveryAssumption DEF FanTake
    <2>2. BarrierSize \in 0..Len(StreamOrder) /\ FirstStream \in 1..Len(StreamOrder)
      BY StreamsFinite DEF BarrierSize, FirstStream
    <2>3. QED
      BY <1>10, <2>1, <2>2 DEF FanTake
  <1>11. ASSUME FanSend PROVE TypeOK'
    <2> DEFINE s == StreamOrder[fanNext]
    <2>1. s \in Streams /\ fan \in Envelope /\ Len(streamIn[s]) < StreamCap
      BY <1>11, StreamsFinite DEF FanSend, HasRoom
    <2>2. Append(streamIn[s], fan) \in Seq(Envelope) /\ Len(Append(streamIn[s], fan)) <= StreamCap
      BY <2>1, AppendOnce, LenProperties, DeliveryAssumption
    <2>3. streamIn' = [streamIn EXCEPT ![s] = Append(streamIn[s], fan)]
      BY <1>11 DEF FanSend
    <2>4. /\ streamIn' \in [Streams -> Seq(Envelope)]
          /\ \A t \in Streams : Len(streamIn'[t]) <= StreamCap
      BY <2>1, <2>2, <2>3
    <2>5. fan' \in Envelope \cup {None} /\ fanNext' \in 1..Len(StreamOrder)
      <3>1. CASE fanNext = Len(StreamOrder)
        BY <1>11, <3>1, StreamsFinite DEF FanSend
      <3>2. CASE fanNext # Len(StreamOrder)
        <4>1. fan' = fan /\ fanNext' = fanNext + 1
          BY <1>11, <3>2 DEF FanSend
        <4>2. fan \in Envelope \cup {None} /\ fanNext \in 1..Len(StreamOrder)
          OBVIOUS
        <4>3. Len(StreamOrder) \in Nat
          BY StreamsFinite
        <4>4. fanNext' \in 1..Len(StreamOrder)
          BY <3>2, <4>1, <4>2, <4>3
        <4>5. QED
          BY <4>1, <4>2, <4>4
      <3>3. QED
        BY <3>1, <3>2
    <2>6. QED
      BY <1>11, <2>4, <2>5 DEF FanSend
  <1>12. ASSUME FanQuit PROVE TypeOK'
    BY <1>12, StreamsFinite DEF FanQuit
  <1>13. ASSUME NEW s \in Streams, Add(s) PROVE TypeOK'
    <2>1. /\ Head(streamIn[s]) \in Envelope /\ Tail(streamIn[s]) \in Seq(Envelope)
          /\ Len(Tail(streamIn[s])) <= StreamCap
      BY <1>13, TailOnce, LenProperties, DeliveryAssumption DEF Add
    <2>2. /\ streamIn' \in [Streams -> Seq(Envelope)]
          /\ \A t \in Streams : Len(streamIn'[t]) <= StreamCap
      BY <1>13, <2>1 DEF Add
    <2>3. recorded' \in [Streams -> SUBSET Envelope]
      BY <1>13, <2>1 DEF Add
    <2>4. QED
      BY <1>13, <2>1, <2>2, <2>3 DEF Add
  <1>14. ASSUME NEW s \in Streams, CountDown(s) PROVE TypeOK'
    <2>1. at[s] = "added" /\ work[s] \in Envelope /\ work[s].msg \in Msgs \cup Posts
      BY <1>14, EnvelopeType DEF CountDown, WorkInv
    <2>2. remaining' \in [Envelope -> 0..Len(StreamOrder)]
      <3>1. CASE work[s].msg \in Posts
        BY <1>14, <3>1 DEF CountDown
      <3>2. CASE work[s].msg \in Msgs /\ work[s].msg \notin Posts
        <4>1. remaining[work[s]] - 1 \in 0..Len(StreamOrder)
          BY <2>1, <3>2, AddedIsCounted, StreamsFinite
        <4>2. QED
          BY <1>14, <2>1, <3>2, <4>1 DEF CountDown
      <3>3. QED
        BY <2>1, <3>1, <3>2
    <2>3. at' \in [Streams -> {"idle", "added", "mark", "ack"}]
          /\ work' \in [Streams -> Envelope \cup {None}]
      BY <1>14 DEF CountDown
    <2>4. QED
      BY <1>14, <2>2, <2>3 DEF CountDown
  <1>15. ASSUME NEW s \in Streams, Mark(s) PROVE TypeOK'
    <2>1. work[s].msg \in Msgs /\ MarkSeen(work[s].msg)
      BY <1>15 DEF Mark, WorkInv
    <2>2. seen' \subseteq Msgs /\ excused' \subseteq Msgs /\ faults' \in 0..MaxFaults
      BY <2>1, DbErrorType DEF MarkSeen
    <2>3. QED
      BY <1>15, <2>1, <2>2 DEF Mark
  <1>16. ASSUME NEW s \in Streams, MsgAck(s) PROVE TypeOK'
    <2>1. work[s].msg \in Msgs /\ Settle(work[s].msg)
      BY <1>16 DEF MsgAck, WorkInv
    <2>2. QED
      BY <1>16, <2>1, SettleType DEF MsgAck
  <1>17. ASSUME NEW s \in Streams, ManagerQuit(s) PROVE TypeOK'
    BY <1>17 DEF ManagerQuit
  <1>18. ASSUME Cancel \/ ServeFails PROVE TypeOK'
    <2>1. stops' \in 0..MaxStops
      BY <1>18, DeliveryAssumption DEF Cancel, ServeFails
    <2>2. QED
      BY <1>18, <2>1 DEF Cancel, ServeFails
  <1>19. ASSUME Unwind PROVE TypeOK'
    BY <1>19 DEF Unwind, Deferred
  <1>20. ASSUME Exit PROVE TypeOK'
    <2>1. Ends /\ stops' \in 0..MaxStops
      BY <1>20 DEF Exit
    <2>2. QED
      BY <2>1, EndsType
  <1>21. ASSUME Crash PROVE TypeOK'
    <2>1. Ends /\ stops' \in 0..MaxStops
      BY <1>21, DeliveryAssumption DEF Crash
    <2>2. QED
      BY <2>1, EndsType
  <1>22. ASSUME Start PROVE TypeOK'
    <2>1. quit' \subseteq Streams \cup {"fanOut"} /\ faults' \in 0..MaxFaults
      BY <1>22, DeliveryAssumption DEF Start
    <2>2. QED
      BY <1>22, <2>1 DEF Start
  <1>23. ASSUME UNCHANGED vars PROVE TypeOK'
    BY <1>23 DEF vars
  <1>24. QED
    BY <1>1, <1>2, <1>3, <1>4, <1>5, <1>6, <1>7, <1>8, <1>9, <1>10, <1>11, <1>12, <1>13,
       <1>14, <1>15, <1>16, <1>17, <1>18, <1>19, <1>20, <1>21, <1>22, <1>23
       DEF Next, Handle, FanOut, Manager

-----------------------------------------------------------------------------
(***************************************************************************)
(* The way of the receipts.                                                *)
(***************************************************************************)

LEMMA ComingType ==
  ASSUME TypeOK
  PROVE  /\ Range(sub) \subseteq Envelope /\ Range(eventCh) \subseteq Envelope
         /\ Coming \subseteq Envelope
         /\ \A s \in Streams : Range(streamIn[s]) \subseteq Envelope
         /\ \A s \in Streams : Path(s) \subseteq Envelope
         /\ \A s \in Streams : None \notin recorded[s]
  <1>1. Range(sub) \subseteq Envelope /\ Range(eventCh) \subseteq Envelope
    BY RangeType DEF TypeOK
  <1>2. \A s \in Streams : Range(streamIn[s]) \subseteq Envelope
    BY RangeType DEF TypeOK
  <1>3. The(handler) \subseteq Envelope
    BY DEF The, TypeOK
  <1>4. \A s \in Streams : Unsent(s) \subseteq Envelope
    BY DEF The, Unsent, TypeOK
  <1>5. \A s \in Streams : Reached(s) \subseteq Envelope
    BY DEF The, Reached, TypeOK
  <1>6. \A s \in Streams : None \notin recorded[s]
    BY NoneIsNoEnvelope DEF TypeOK
  <1>7. Coming \subseteq Envelope
    BY <1>1, <1>3 DEF Coming
  <1>8. \A s \in Streams : Path(s) \subseteq Envelope
    BY <1>2, <1>4, <1>5, <1>7 DEF Path
  <1>9. QED
    BY <1>1, <1>2, <1>6, <1>7, <1>8

\* A step in which nothing moves on: receipts stay where they are, or leave.
Leaves ==
  /\ IsInjective(sub) => IsInjective(sub)'
  /\ IsInjective(eventCh) => IsInjective(eventCh)'
  /\ Range(sub)' \subseteq Range(sub)
  /\ Range(eventCh)' \subseteq Range(eventCh)
  /\ handler' \in {handler, None}
  /\ \A s \in Streams :
       /\ IsInjective(streamIn[s]) => IsInjective(streamIn[s])'
       /\ Unsent(s)' \subseteq Unsent(s)
       /\ Range(streamIn[s])' \subseteq Range(streamIn[s])
       /\ Reached(s)' \subseteq Reached(s)
  /\ delivered' = delivered
  /\ accepted \subseteq accepted'

RouteInv == OnceInv /\ IssuedInv

LEMMA LeavesRoute ==
  ASSUME TypeOK, RouteInv, Leaves
  PROVE  RouteInv'
  <1>1. The(handler)' \subseteq The(handler)
    BY DEF Leaves, The
  <1>2. Coming' \subseteq Coming
    BY <1>1 DEF Leaves, Coming
  <1>3. \A s \in Streams : Path(s)' \subseteq Path(s)
    BY <1>2 DEF Leaves, Path
  <1>4. handler' \notin Range(sub)' \cup Range(eventCh)'
    <2>1. CASE handler' = handler
      BY <2>1 DEF Leaves, RouteInv, OnceInv
    <2>2. CASE handler' = None
      BY <2>2, ComingType, NoneIsNoEnvelope DEF Leaves
    <2>3. QED
      BY <2>1, <2>2 DEF Leaves
  <1>5. OnceInv'
    <2>1. /\ IsInjective(sub)' /\ IsInjective(eventCh)'
          /\ Range(sub)' \cap Range(eventCh)' = {}
      BY DEF RouteInv, OnceInv, Leaves
    <2>2. ASSUME NEW s \in Streams
          PROVE  /\ IsInjective(streamIn[s])'
                 /\ Coming' \cap (Unsent(s) \cup Range(streamIn[s]) \cup Reached(s))' = {}
                 /\ Unsent(s)' \cap (Range(streamIn[s]) \cup Reached(s))' = {}
                 /\ Range(streamIn[s])' \cap Reached(s)' = {}
      BY <1>2 DEF RouteInv, OnceInv, Leaves
    <2>3. QED
      BY <1>4, <2>1, <2>2 DEF OnceInv
  <1>6. IssuedInv'
    <2>1. \A s \in Streams : \A e \in Path(s)' : Issued(e)'
      BY <1>3 DEF RouteInv, IssuedInv, Issued, Leaves
    <2>2. \A e \in Range(sub)' \cup The(handler)' : e.msg \in Msgs
      BY <1>1 DEF RouteInv, IssuedInv, Leaves
    <2>3. QED
      BY <2>1, <2>2 DEF IssuedInv
  <1>7. QED
    BY <1>5, <1>6 DEF RouteInv

\* Receipts move on before fanOut, or a new one comes.
LEMMA ComingRoute ==
  ASSUME TypeOK, RouteInv,
         NEW new, \A s \in Streams : new \cap Path(s) = {},
         Coming' \subseteq Coming \cup new,
         IsInjective(sub)', IsInjective(eventCh)',
         Range(sub)' \cap Range(eventCh)' = {},
         handler' \notin Range(sub)' \cup Range(eventCh)',
         \A e \in Range(sub)' \cup The(handler)' : e.msg \in Msgs,
         \A e \in new : Issued(e)',
         \A e \in Envelope : Issued(e) => Issued(e)',
         UNCHANGED <<fan, fanNext, streamIn, work, recorded>>
  PROVE  RouteInv'
  <1>1. \A s \in Streams : Unsent(s)' = Unsent(s) /\ Reached(s)' = Reached(s)
    BY DEF Unsent, Reached, The
  <1>2. OnceInv'
    <2>1. ASSUME NEW s \in Streams
          PROVE  /\ IsInjective(streamIn[s])'
                 /\ Coming' \cap (Unsent(s) \cup Range(streamIn[s]) \cup Reached(s))' = {}
                 /\ Unsent(s)' \cap (Range(streamIn[s]) \cup Reached(s))' = {}
                 /\ Range(streamIn[s])' \cap Reached(s)' = {}
      <3>1. new \cap (Unsent(s) \cup Range(streamIn[s]) \cup Reached(s)) = {}
        BY DEF Path
      <3>2. Coming \cap (Unsent(s) \cup Range(streamIn[s]) \cup Reached(s)) = {}
        BY DEF RouteInv, OnceInv
      <3>3. Coming' \cap (Unsent(s) \cup Range(streamIn[s]) \cup Reached(s))' = {}
        BY <1>1, <3>1, <3>2
      <3>4. QED
        BY <1>1, <3>3 DEF RouteInv, OnceInv
    <2>2. QED
      BY <2>1 DEF OnceInv
  <1>3. IssuedInv'
    <2>1. ASSUME NEW s \in Streams, NEW e \in Path(s)' PROVE Issued(e)'
      <3>1. Path(s)' \subseteq Path(s) \cup new
        BY <1>1 DEF Path
      <3>2. CASE e \in new
        BY <3>2
      <3>3. CASE e \in Path(s)
        BY <3>3, ComingType DEF RouteInv, IssuedInv
      <3>4. QED
        BY <3>1, <3>2, <3>3
    <2>2. QED
      BY <2>1 DEF IssuedInv
  <1>4. QED
    BY <1>2, <1>3 DEF RouteInv

LEMMA DeliverRoute ==
  ASSUME TypeOK, RouteInv, NEW m \in Msgs, Deliver(m)
  PROVE  RouteInv'
  <1> DEFINE e == [msg |-> m, n |-> delivered[m] + 1]
  <1>1. /\ delivered[m] \in Nat
        /\ delivered' = [delivered EXCEPT ![m] = delivered[m] + 1]
        /\ sub' = Append(sub, e)
        /\ e \in Envelope
    <2>1. delivered[m] \in Nat /\ delivered[m] < MaxDeliveries
      BY FirstDelivery DEF Deliver, TypeOK
    <2>2. delivered' = [delivered EXCEPT ![m] = delivered[m] + 1]
      BY DEF Deliver
    <2>3. delivered'[m] = delivered[m] + 1
      BY <2>2 DEF TypeOK
    <2>4. sub' = Append(sub, e)
      BY <2>3 DEF Deliver
    <2>5. delivered[m] + 1 \in 1..MaxDeliveries
      BY <2>1, FirstDelivery
    <2>6. QED
      BY <2>1, <2>2, <2>4, <2>5, FirstDelivery
  <1>2. /\ UNCHANGED <<handler, eventCh, fan, fanNext, streamIn, work, recorded, accepted>>
    BY DEF Deliver, fanning, managers, history
  <1>3. e.msg = m /\ e.n = delivered[m] + 1 /\ m \in Msgs
    OBVIOUS
  <1>4. ~Issued(e)
    BY <1>1, <1>3 DEF Issued
  <1>5. \A s \in Streams : {e} \cap Path(s) = {}
    BY <1>4 DEF RouteInv, IssuedInv
  <1>6. e \notin Range(sub) \cup Range(eventCh) \cup The(handler)
    BY <1>5, StreamsFinite DEF Path, Coming
  <1>7. /\ Range(sub') = Range(sub) \cup {e}
        /\ IsInjective(sub')
    BY <1>1, <1>6, AppendOnce DEF TypeOK, RouteInv, OnceInv
  <1>8. Coming' \subseteq Coming \cup {e}
    BY <1>2, <1>7 DEF Coming, The
  <1>9. /\ Range(sub)' \cap Range(eventCh)' = {}
        /\ handler' \notin Range(sub)' \cup Range(eventCh)'
        /\ IsInjective(eventCh)'
    <2>1. handler # e
      BY <1>1, <1>6, NoneIsNoEnvelope DEF The
    <2>2. QED
      BY <1>2, <1>6, <1>7, <2>1 DEF RouteInv, OnceInv
  <1>10. \A x \in Range(sub)' \cup The(handler)' : x.msg \in Msgs
    BY <1>2, <1>3, <1>7 DEF RouteInv, IssuedInv, The
  <1>11. \A x \in {e} : Issued(x)'
    BY <1>1, <1>3 DEF Issued, TypeOK
  <1>12. ASSUME NEW x \in Envelope, Issued(x) PROVE Issued(x)'
    <2>1. x.n \in Nat
      BY EnvelopeType
    <2>2. CASE x.msg \in Msgs
      BY <1>1, <1>12, <2>1, <2>2 DEF Issued, TypeOK
    <2>3. CASE x.msg \notin Msgs
      BY <1>2, <1>12, <2>3 DEF Issued
    <2>4. QED
      BY <2>2, <2>3
  <1>13. QED
    <2> HIDE DEF e
    <2>1. QED
      BY <1>2, <1>5, <1>7, <1>8, <1>9, <1>10, <1>11, <1>12, ComingRoute

LEMMA PostRoute ==
  ASSUME TypeOK, RouteInv, NEW p \in Posts, Post(p)
  PROVE  RouteInv'
  <1> DEFINE e == [msg |-> p, n |-> 1]
  <1>1. eventCh' = Append(eventCh, e) /\ e \in Envelope
    BY FirstDelivery DEF Post
  <1>2. /\ UNCHANGED <<sub, handler, fan, fanNext, streamIn, work, recorded, delivered>>
        /\ p \notin accepted
        /\ accepted' = accepted \cup {p}
    BY DEF Post, jetstream, fanning, managers
  <1>3. e.msg = p /\ p \notin Msgs
    BY DeliveryAssumption
  <1>4. ~Issued(e) /\ Issued(e)'
    BY <1>2, <1>3 DEF Issued
  <1>5. \A s \in Streams : {e} \cap Path(s) = {}
    BY <1>4 DEF RouteInv, IssuedInv
  <1>6. e \notin Range(sub) \cup Range(eventCh) \cup The(handler)
    BY <1>5, StreamsFinite DEF Path, Coming
  <1>7. /\ Range(eventCh') = Range(eventCh) \cup {e}
        /\ IsInjective(eventCh')
    BY <1>1, <1>6, AppendOnce DEF TypeOK, RouteInv, OnceInv
  <1>8. Coming' \subseteq Coming \cup {e}
    BY <1>2, <1>7 DEF Coming, The
  <1>9. /\ Range(sub)' \cap Range(eventCh)' = {}
        /\ handler' \notin Range(sub)' \cup Range(eventCh)'
        /\ IsInjective(sub)'
    <2>1. handler # e
      BY <1>1, <1>6, NoneIsNoEnvelope DEF The
    <2>2. QED
      BY <1>2, <1>6, <1>7, <2>1 DEF RouteInv, OnceInv
  <1>10. \A x \in Range(sub)' \cup The(handler)' : x.msg \in Msgs
    BY <1>2 DEF RouteInv, IssuedInv, The
  <1>11. \A x \in Envelope : Issued(x) => Issued(x)'
    BY <1>2 DEF Issued
  <1>12. QED
    <2> HIDE DEF e
    <2>1. QED
      BY <1>2, <1>4, <1>5, <1>7, <1>8, <1>9, <1>10, <1>11, ComingRoute

LEMMA HandleEventRoute ==
  ASSUME TypeOK, RouteInv, HandleEvent
  PROVE  RouteInv'
  <1>1. /\ sub \in Seq(Envelope) /\ sub # <<>> /\ handler = None
        /\ sub' = Tail(sub) /\ handler' = Head(sub)
        /\ UNCHANGED <<eventCh, fan, fanNext, streamIn, work, recorded, delivered, accepted>>
    BY DEF TypeOK, HandleEvent, Handling, jetstream, fanning, managers
  <1>2. /\ Head(sub) \in Range(sub) /\ Range(Tail(sub)) \subseteq Range(sub)
        /\ IsInjective(Tail(sub)) /\ Head(sub) \notin Range(Tail(sub))
    BY <1>1, TailOnce DEF RouteInv, OnceInv
  <1>3. Coming' \subseteq Coming
    BY <1>1, <1>2 DEF Coming, The
  <1>4. /\ IsInjective(sub)' /\ IsInjective(eventCh)'
        /\ Range(sub)' \cap Range(eventCh)' = {}
        /\ handler' \notin Range(sub)' \cup Range(eventCh)'
    BY <1>1, <1>2 DEF RouteInv, OnceInv
  <1>5. \A x \in Range(sub)' \cup The(handler)' : x.msg \in Msgs
    BY <1>1, <1>2 DEF RouteInv, IssuedInv, The
  <1>6. \A x \in Envelope : Issued(x) => Issued(x)'
    BY <1>1 DEF Issued
  <1>7. QED
    BY <1>1, <1>3, <1>4, <1>5, <1>6, ComingRoute

LEMMA EnqueueRoute ==
  ASSUME TypeOK, RouteInv, Enqueue
  PROVE  RouteInv'
  <1>1. /\ handler \in Envelope /\ handler' = None
        /\ eventCh \in Seq(Envelope) /\ eventCh' = Append(eventCh, handler)
        /\ UNCHANGED <<sub, fan, fanNext, streamIn, work, recorded, delivered, accepted>>
    BY DEF TypeOK, Enqueue, jetstream, fanning, managers, history
  <1>2. /\ Range(eventCh') = Range(eventCh) \cup {handler}
        /\ IsInjective(eventCh')
    BY <1>1, AppendOnce DEF RouteInv, OnceInv
  <1>3. handler \in The(handler) /\ The(handler)' = {}
    BY <1>1, NoneIsNoEnvelope DEF The
  <1>4. Coming' \subseteq Coming
    BY <1>1, <1>2, <1>3 DEF Coming
  <1>5. /\ IsInjective(sub)'
        /\ Range(sub)' \cap Range(eventCh)' = {}
    BY <1>1, <1>2 DEF RouteInv, OnceInv
  <1>6. handler' \notin Range(sub)' \cup Range(eventCh)'
    BY <1>1, <1>2, ComingType, NoneIsNoEnvelope
  <1>7. \A x \in Range(sub)' \cup The(handler)' : x.msg \in Msgs
    BY <1>1, <1>3 DEF RouteInv, IssuedInv
  <1>8. \A x \in Envelope : Issued(x) => Issued(x)'
    BY <1>1 DEF Issued
  <1>9. QED
    BY <1>1, <1>2, <1>4, <1>5, <1>6, <1>7, <1>8, ComingRoute

\* fanOut takes the head of the event channel.
LEMMA FanTakeRoute ==
  ASSUME TypeOK, RouteInv, FanTake
  PROVE  RouteInv'
  <1> DEFINE e == Head(eventCh)
  <1>1. /\ eventCh \in Seq(Envelope) /\ eventCh # <<>> /\ fan = None
        /\ fan' = e /\ eventCh' = Tail(eventCh)
        /\ UNCHANGED <<sub, handler, streamIn, work, recorded, delivered, accepted>>
    BY DEF TypeOK, FanTake, jetstream, managers, history
  <1>2. /\ e \in Range(eventCh) /\ Range(Tail(eventCh)) \subseteq Range(eventCh)
        /\ IsInjective(Tail(eventCh)) /\ e \notin Range(Tail(eventCh)) /\ e \in Envelope
    BY <1>1, TailOnce DEF RouteInv, OnceInv
  <1> HIDE DEF e
  <1>3. Coming' \subseteq Coming /\ e \in Coming
    BY <1>1, <1>2 DEF Coming, The
  <1>4. e \notin Coming'
    <2>1. handler # e
      BY <1>2 DEF RouteInv, OnceInv
    <2>2. QED
      BY <1>1, <1>2, <2>1 DEF Coming, The, RouteInv, OnceInv
  <1>5. \A s \in Streams : Unsent(s)' \subseteq {e} /\ Reached(s)' = Reached(s)
    BY <1>1 DEF Unsent, Reached, The
  <1>6. OnceInv'
    <2>1. /\ IsInjective(sub)' /\ IsInjective(eventCh)'
          /\ Range(sub)' \cap Range(eventCh)' = {}
          /\ handler' \notin Range(sub)' \cup Range(eventCh)'
      BY <1>1, <1>2 DEF RouteInv, OnceInv
    <2>2. ASSUME NEW s \in Streams
          PROVE  /\ IsInjective(streamIn[s])'
                 /\ Coming' \cap (Unsent(s) \cup Range(streamIn[s]) \cup Reached(s))' = {}
                 /\ Unsent(s)' \cap (Range(streamIn[s]) \cup Reached(s))' = {}
                 /\ Range(streamIn[s])' \cap Reached(s)' = {}
      <3>1. Coming \cap (Range(streamIn[s]) \cup Reached(s)) = {}
        BY DEF RouteInv, OnceInv
      <3>2. IsInjective(streamIn[s]) /\ Range(streamIn[s]) \cap Reached(s) = {}
        BY DEF RouteInv, OnceInv
      <3>3. QED
        BY <1>1, <1>3, <1>4, <1>5, <3>1, <3>2
    <2>3. QED
      BY <2>1, <2>2 DEF OnceInv
  <1>7. IssuedInv'
    <2>1. \A s \in Streams : Path(s)' \subseteq Path(s)
      BY <1>1, <1>3, <1>5 DEF Path
    <2>2. \A x : Issued(x)' <=> Issued(x)
      BY <1>1 DEF Issued
    <2>3. \A x \in Range(sub)' \cup The(handler)' : x.msg \in Msgs
      BY <1>1 DEF RouteInv, IssuedInv, The
    <2>4. QED
      BY <2>1, <2>2, <2>3 DEF RouteInv, IssuedInv
  <1>8. QED
    BY <1>6, <1>7 DEF RouteInv

\* What a copy changes: the stream has it, and the others are as near to theirs as before.
LEMMA FanSendEffect ==
  ASSUME TypeOK, FanSend, NEW s, s = StreamOrder[fanNext]
  PROVE  /\ s \in Streams /\ fan \in Envelope /\ fan \in Unsent(s)
         /\ streamIn' = [streamIn EXCEPT ![s] = Append(streamIn[s], fan)]
         /\ Unsent(s)' = {}
         /\ \A t \in Streams \ {s} : Unsent(t)' = Unsent(t)
         /\ UNCHANGED <<sub, handler, eventCh, work, recorded, at, delivered, accepted,
                        remaining, phase>>
  <1>1. /\ s \in Streams /\ fan \in Envelope
        /\ fanNext \in 1..Len(StreamOrder)
        /\ streamIn' = [streamIn EXCEPT ![s] = Append(streamIn[s], fan)]
    BY StreamsFinite DEF TypeOK, FanSend
  <1>2. UNCHANGED <<sub, handler, eventCh, work, recorded, at, delivered, accepted,
                    remaining, phase>>
    BY DEF FanSend, jetstream, ingest, managers, process, history
  <1>3. fan \in The(fan) /\ The(fan) = {fan} /\ The(None) = {}
    BY <1>1, NoneIsNoEnvelope DEF The
  <1>4. fan \in Unsent(s)
    BY <1>1, <1>3, StreamsFinite DEF Unsent
  <1>5. CASE fanNext = Len(StreamOrder)
    <2>1. fan' = None
      BY <1>5 DEF FanSend
    <2>2. \A t : Unsent(t)' = {}
      BY <2>1, <1>3 DEF Unsent, The
    <2>3. ASSUME NEW t \in Streams \ {s} PROVE Unsent(t) = {}
      <3>1. \A i \in fanNext..Len(StreamOrder) : i = fanNext
        BY <1>1, <1>5, StreamsFinite
      <3>2. QED
        BY <3>1 DEF Unsent
    <2>4. QED
      BY <1>1, <1>2, <1>4, <2>2, <2>3
  <1>6. CASE fanNext # Len(StreamOrder)
    <2>1. fan' = fan /\ fanNext' = fanNext + 1
      BY <1>6 DEF FanSend
    <2>2. \A i \in fanNext..Len(StreamOrder) :
            i = fanNext \/ i \in (fanNext + 1)..Len(StreamOrder)
      BY <1>1, StreamsFinite
    <2>3. \A i \in (fanNext + 1)..Len(StreamOrder) :
            /\ i \in fanNext..Len(StreamOrder) /\ i \in 1..Len(StreamOrder) /\ i # fanNext
      BY <1>1, StreamsFinite
    <2>4. \A i \in (fanNext + 1)..Len(StreamOrder) : StreamOrder[i] # s
      BY <1>1, <2>3, StreamsFinite
    <2>5. Unsent(s)' = {}
      BY <2>1, <2>4 DEF Unsent
    <2>6. ASSUME NEW t \in Streams \ {s} PROVE Unsent(t)' = Unsent(t)
      <3>1. (\E i \in fanNext..Len(StreamOrder) : StreamOrder[i] = t)
            <=> \E i \in (fanNext + 1)..Len(StreamOrder) : StreamOrder[i] = t
        BY <2>2, <2>3
      <3>2. QED
        BY <2>1, <3>1 DEF Unsent, The
    <2>7. QED
      BY <1>1, <1>2, <1>4, <2>5, <2>6
  <1>7. QED
    BY <1>5, <1>6

LEMMA FanSendRoute ==
  ASSUME TypeOK, RouteInv, FanSend
  PROVE  RouteInv'
  <1>0. PICK s : s = StreamOrder[fanNext]
    OBVIOUS
  <1>1. /\ s \in Streams /\ fan \in Envelope /\ fan \in Unsent(s)
        /\ streamIn' = [streamIn EXCEPT ![s] = Append(streamIn[s], fan)]
        /\ Unsent(s)' = {}
        /\ \A t \in Streams \ {s} : Unsent(t)' = Unsent(t)
        /\ UNCHANGED <<sub, handler, eventCh, work, recorded, at, delivered, accepted,
                       remaining, phase>>
    BY <1>0, FanSendEffect
  <1>2. /\ Coming' = Coming /\ The(handler)' = The(handler)
        /\ \A t \in Streams : Reached(t)' = Reached(t)
    BY <1>1 DEF Coming, The, Reached
  <1>3. fan \notin Coming \cup Range(streamIn[s]) \cup Reached(s)
    BY <1>1 DEF RouteInv, OnceInv
  <1>4. /\ streamIn'[s] = Append(streamIn[s], fan)
        /\ \A t \in Streams \ {s} : streamIn'[t] = streamIn[t]
    BY <1>1 DEF TypeOK
  <1>5. Range(streamIn'[s]) = Range(streamIn[s]) \cup {fan} /\ IsInjective(streamIn'[s])
    BY <1>1, <1>3, <1>4, AppendOnce DEF TypeOK, RouteInv, OnceInv
  <1>6. OnceInv'
    <2>1. /\ IsInjective(sub)' /\ IsInjective(eventCh)'
          /\ Range(sub)' \cap Range(eventCh)' = {}
          /\ handler' \notin Range(sub)' \cup Range(eventCh)'
      BY <1>1 DEF RouteInv, OnceInv
    <2>2. ASSUME NEW t \in Streams
          PROVE  /\ IsInjective(streamIn[t])'
                 /\ Coming' \cap (Unsent(t) \cup Range(streamIn[t]) \cup Reached(t))' = {}
                 /\ Unsent(t)' \cap (Range(streamIn[t]) \cup Reached(t))' = {}
                 /\ Range(streamIn[t])' \cap Reached(t)' = {}
      <3>1. CASE t = s
        <4>1. Coming \cap (Range(streamIn[s]) \cup Reached(s)) = {}
              /\ Range(streamIn[s]) \cap Reached(s) = {}
          BY <1>1 DEF RouteInv, OnceInv
        <4>2. QED
          BY <1>1, <1>2, <1>3, <1>5, <3>1, <4>1
      <3>2. CASE t # s
        <4>1. Unsent(t)' = Unsent(t) /\ streamIn'[t] = streamIn[t] /\ Reached(t)' = Reached(t)
          BY <1>1, <1>2, <1>4, <3>2
        <4>2. QED
          BY <1>2, <4>1 DEF RouteInv, OnceInv
      <3>3. QED
        BY <3>1, <3>2
    <2>3. QED
      BY <2>1, <2>2 DEF OnceInv
  <1>7. IssuedInv'
    <2>1. ASSUME NEW t \in Streams PROVE Path(t)' \subseteq Path(t)
      <3>1. CASE t = s
        BY <1>1, <1>2, <1>5, <3>1 DEF Path
      <3>2. CASE t # s
        <4>1. Unsent(t)' = Unsent(t) /\ streamIn'[t] = streamIn[t] /\ Reached(t)' = Reached(t)
          BY <1>1, <1>2, <1>4, <3>2
        <4>2. QED
          BY <1>2, <4>1 DEF Path
      <3>3. QED
        BY <3>1, <3>2
    <2>2. \A x : Issued(x)' <=> Issued(x)
      BY <1>1 DEF Issued
    <2>3. QED
      BY <1>1, <1>2, <2>1, <2>2 DEF RouteInv, IssuedInv
  <1>8. QED
    BY <1>6, <1>7 DEF RouteInv

\* What Add changes for its stream.
LEMMA AddEffect ==
  ASSUME TypeOK, WorkInv, NEW s \in Streams, Add(s), NEW e, e = Head(streamIn[s])
  PROVE  /\ e \in Envelope /\ e \in Range(streamIn[s])
         /\ work[s] = None
         /\ streamIn' = [streamIn EXCEPT ![s] = Tail(streamIn[s])]
         /\ work' = [work EXCEPT ![s] = e]
         /\ at' = [at EXCEPT ![s] = "added"]
         /\ \A t \in Streams : recorded[t] \subseteq recorded'[t]
         /\ \A t \in Streams \ {s} : recorded'[t] = recorded[t]
         /\ recorded'[s] \subseteq recorded[s] \cup {e}
         /\ DbIsOpen => e \in recorded'[s]
         /\ Range(Tail(streamIn[s])) \subseteq Range(streamIn[s])
         /\ IsInjective(streamIn[s]) => /\ IsInjective(Tail(streamIn[s]))
                                        /\ e \notin Range(Tail(streamIn[s]))
         /\ UNCHANGED <<sub, handler, eventCh, fan, fanNext, delivered, accepted,
                        remaining, phase>>
  <1>1. streamIn[s] \in Seq(Envelope) /\ streamIn[s] # <<>> /\ work[s] = None
    BY DEF TypeOK, WorkInv, Add
  <1>2. /\ e \in Envelope /\ e \in Range(streamIn[s])
        /\ Range(Tail(streamIn[s])) \subseteq Range(streamIn[s])
        /\ IsInjective(streamIn[s]) => /\ IsInjective(Tail(streamIn[s]))
                                       /\ e \notin Range(Tail(streamIn[s]))
    BY <1>1, TailOnce
  <1>3. /\ streamIn' = [streamIn EXCEPT ![s] = Tail(streamIn[s])]
        /\ work' = [work EXCEPT ![s] = e]
        /\ at' = [at EXCEPT ![s] = "added"]
        /\ UNCHANGED <<sub, handler, eventCh, fan, fanNext, delivered, accepted, remaining, phase>>
    BY DEF Add, jetstream, ingest, process, history
  <1>4. recorded' = recorded \/ recorded' = [recorded EXCEPT ![s] = recorded[s] \cup {e}]
    BY DEF Add
  <1>5. DbIsOpen => recorded' = [recorded EXCEPT ![s] = recorded[s] \cup {e}]
    BY DEF Add
  <1>6. recorded \in [Streams -> SUBSET Envelope]
    BY DEF TypeOK
  <1>7. QED
    BY <1>1, <1>2, <1>3, <1>4, <1>5, <1>6

LEMMA AddRoute ==
  ASSUME TypeOK, RouteInv, WorkInv, NEW s \in Streams, Add(s)
  PROVE  RouteInv'
  <1> DEFINE e == Head(streamIn[s])
  <1>1. /\ e \in Envelope /\ e \in Range(streamIn[s])
        /\ work[s] = None
        /\ streamIn' = [streamIn EXCEPT ![s] = Tail(streamIn[s])]
        /\ work' = [work EXCEPT ![s] = e]
        /\ \A t \in Streams \ {s} : recorded'[t] = recorded[t]
        /\ recorded'[s] \subseteq recorded[s] \cup {e}
        /\ Range(Tail(streamIn[s])) \subseteq Range(streamIn[s])
        /\ IsInjective(streamIn[s]) => /\ IsInjective(Tail(streamIn[s]))
                                       /\ e \notin Range(Tail(streamIn[s]))
        /\ UNCHANGED <<sub, handler, eventCh, fan, fanNext, delivered, accepted>>
    BY AddEffect
  <1> HIDE DEF e
  <1>2. /\ streamIn'[s] = Tail(streamIn[s]) /\ work'[s] = e
        /\ \A t \in Streams \ {s} : streamIn'[t] = streamIn[t] /\ work'[t] = work[t]
    BY <1>1 DEF TypeOK
  <1>3. /\ Coming' = Coming /\ The(handler)' = The(handler)
        /\ \A t \in Streams : Unsent(t)' = Unsent(t)
    BY <1>1 DEF Coming, The, Unsent
  <1>4. Reached(s)' \subseteq Reached(s) \cup {e}
    BY <1>1, <1>2 DEF Reached, The
  <1>5. \A t \in Streams \ {s} : Reached(t)' = Reached(t)
    BY <1>1, <1>2 DEF Reached, The
  <1>6. OnceInv'
    <2>1. /\ IsInjective(sub)' /\ IsInjective(eventCh)'
          /\ Range(sub)' \cap Range(eventCh)' = {}
          /\ handler' \notin Range(sub)' \cup Range(eventCh)'
      BY <1>1 DEF RouteInv, OnceInv
    <2>2. ASSUME NEW t \in Streams
          PROVE  /\ IsInjective(streamIn[t])'
                 /\ Coming' \cap (Unsent(t) \cup Range(streamIn[t]) \cup Reached(t))' = {}
                 /\ Unsent(t)' \cap (Range(streamIn[t]) \cup Reached(t))' = {}
                 /\ Range(streamIn[t])' \cap Reached(t)' = {}
      <3>1. CASE t = s
        <4>1. IsInjective(streamIn[s]) /\ Coming \cap Range(streamIn[s]) = {}
              /\ Unsent(s) \cap Range(streamIn[s]) = {}
          BY DEF RouteInv, OnceInv
        <4>2. QED
          BY <1>1, <1>2, <1>3, <1>4, <3>1, <4>1 DEF RouteInv, OnceInv
      <3>2. CASE t # s
        BY <1>2, <1>3, <1>5, <3>2 DEF RouteInv, OnceInv
      <3>3. QED
        BY <3>1, <3>2
    <2>3. QED
      BY <2>1, <2>2 DEF OnceInv
  <1>7. IssuedInv'
    <2>1. ASSUME NEW t \in Streams PROVE Path(t)' \subseteq Path(t)
      <3>1. CASE t = s
        BY <1>1, <1>2, <1>3, <1>4, <3>1 DEF Path
      <3>2. CASE t # s
        BY <1>2, <1>3, <1>5, <3>2 DEF Path
      <3>3. QED
        BY <3>1, <3>2
    <2>2. \A x : Issued(x)' <=> Issued(x)
      BY <1>1 DEF Issued
    <2>3. QED
      BY <1>1, <1>3, <2>1, <2>2 DEF RouteInv, IssuedInv
  <1>8. QED
    BY <1>6, <1>7 DEF RouteInv

\* Steps that leave every receipt where it is.
Stays ==
  UNCHANGED <<sub, handler, eventCh, fan, fanNext, streamIn, work, recorded, delivered, accepted>>

LEMMA StaysLeaves == Stays => Leaves
  BY DEF Stays, Leaves, Unsent, Reached, The

\* The copy, or the work, of a Manager that is done with it is dropped.
LEMMA WorkLeaves ==
  ASSUME TypeOK, NEW s \in Streams,
         work' = [work EXCEPT ![s] = None],
         UNCHANGED <<sub, handler, eventCh, fan, fanNext, streamIn, recorded, delivered, accepted>>
  PROVE  Leaves
  <1>1. \A t \in Streams : work'[t] \in {work[t], None}
    BY DEF TypeOK
  <1>2. \A t \in Streams : Reached(t)' \subseteq Reached(t)
    BY <1>1 DEF Reached, The
  <1>3. QED
    BY <1>2 DEF Leaves, Unsent, The

LEMMA EndsLeaves ==
  ASSUME TypeOK, Ends
  PROVE  Leaves
  <1>1. /\ sub' = <<>> /\ handler' = None /\ eventCh' = <<>> /\ fan' = None
        /\ \A s \in Streams : streamIn'[s] = <<>> /\ work'[s] = None
        /\ UNCHANGED <<delivered, accepted>>
    BY DEF Ends
  <1>2. \A s \in Streams : recorded'[s] \subseteq recorded[s]
    BY DEF Ends
  <1>3. \A s \in Streams : Unsent(s)' = {} /\ Reached(s)' \subseteq Reached(s)
    BY <1>1, <1>2 DEF Unsent, Reached, The
  <1>4. QED
    BY <1>1, <1>3, EmptyOnce DEF Leaves

\* All other steps move no receipt on.
LEMMA LeavingSteps ==
  ASSUME TypeOK, [Next]_vars
  PROVE  \/ Leaves
         \/ \E m \in Msgs : Deliver(m)
         \/ \E p \in Posts : Post(p)
         \/ HandleEvent \/ Enqueue \/ FanTake \/ FanSend
         \/ \E s \in Streams : Add(s)
  <1> USE DEF jetstream, ingest, fanning, managers, process, history
  <1>1. ASSUME Stays PROVE Leaves
    BY <1>1, StaysLeaves
  <1>2. ASSUME NEW m \in Msgs, AckWaitExpires(m) \/ Expire(m) PROVE Stays
    BY <1>2 DEF AckWaitExpires, Expire, Stays
  <1>3. ASSUME HandleSeen \/ HandleMalformed PROVE Leaves
    <2>1. /\ sub \in Seq(Envelope) /\ sub # <<>> /\ sub' = Tail(sub)
          /\ UNCHANGED <<handler, eventCh, fan, fanNext, streamIn, work, recorded, delivered,
                         accepted>>
      BY <1>3 DEF HandleSeen, HandleMalformed, Handling, TypeOK
    <2>2. /\ Range(sub)' \subseteq Range(sub)
          /\ IsInjective(sub) => IsInjective(sub)'
      BY <2>1, TailOnce
    <2>3. QED
      BY <2>1, <2>2 DEF Leaves, Unsent, Reached, The
  <1>4. ASSUME Nak PROVE Leaves
    BY <1>4 DEF Nak, Leaves, Unsent, Reached, The
  <1>5. ASSUME FanQuit PROVE Leaves
    <2>1. /\ fan' = None
          /\ UNCHANGED <<sub, handler, eventCh, streamIn, work, recorded, delivered, accepted>>
      BY <1>5 DEF FanQuit
    <2>2. QED
      BY <2>1 DEF Leaves, Unsent, Reached, The
  <1>6. ASSUME NEW s \in Streams, CountDown(s) PROVE Leaves
    <2>1. /\ work' = work \/ work' = [work EXCEPT ![s] = None]
          /\ UNCHANGED <<sub, handler, eventCh, fan, fanNext, streamIn, recorded, delivered,
                         accepted>>
      BY <1>6 DEF CountDown
    <2>2. QED
      BY <2>1, WorkLeaves, StaysLeaves DEF Stays
  <1>7. ASSUME NEW s \in Streams, Mark(s) \/ ManagerQuit(s) PROVE Stays
    BY <1>7 DEF Mark, ManagerQuit, Stays
  <1>8. ASSUME NEW s \in Streams, MsgAck(s) PROVE Leaves
    <2>1. /\ work' = [work EXCEPT ![s] = None]
          /\ UNCHANGED <<sub, handler, eventCh, fan, fanNext, streamIn, recorded, delivered,
                         accepted>>
      BY <1>8 DEF MsgAck
    <2>2. QED
      BY <2>1, WorkLeaves
  <1>9. ASSUME Cancel \/ ServeFails \/ Unwind \/ Start PROVE Stays
    BY <1>9 DEF Cancel, ServeFails, Unwind, Start, Stays
  <1>10. ASSUME Exit \/ Crash PROVE Leaves
    BY <1>10, EndsLeaves DEF Exit, Crash
  <1>11. ASSUME UNCHANGED vars PROVE Stays
    BY <1>11 DEF vars, Stays
  <1>12. QED
    BY <1>1, <1>2, <1>3, <1>4, <1>5, <1>6, <1>7, <1>8, <1>9, <1>10, <1>11
       DEF Next, Handle, FanOut, Manager

LEMMA NextRouted == IInv /\ [Next]_vars => RouteInv'
  <1> SUFFICES ASSUME TypeOK, RouteInv, WorkInv, [Next]_vars
               PROVE  RouteInv'
    BY DEF IInv, RouteInv
  <1>1. ASSUME NEW m \in Msgs, Deliver(m) PROVE RouteInv'
    BY <1>1, DeliverRoute
  <1>2. ASSUME NEW p \in Posts, Post(p) PROVE RouteInv'
    BY <1>2, PostRoute
  <1>3. ASSUME NEW s \in Streams, Add(s) PROVE RouteInv'
    BY <1>3, AddRoute
  <1>4. QED
    BY <1>1, <1>2, <1>3, LeavingSteps, LeavesRoute, HandleEventRoute, EnqueueRoute,
       FanTakeRoute, FanSendRoute

-----------------------------------------------------------------------------
(***************************************************************************)
(* The Managers' work, and a process that is down.                         *)
(***************************************************************************)

\* The phase changes in the steps of the process only.
LEMMA PhaseSteps ==
  ASSUME [Next]_vars
  PROVE  phase' = phase \/ Cancel \/ ServeFails \/ Unwind \/ Exit \/ Crash \/ Start
  <1> USE DEF jetstream, ingest, fanning, managers, process, history
  <1>1. ASSUME NEW m \in Msgs, Deliver(m) \/ AckWaitExpires(m) \/ Expire(m) PROVE phase' = phase
    BY <1>1 DEF Deliver, AckWaitExpires, Expire
  <1>2. ASSUME Handle PROVE phase' = phase
    BY <1>2 DEF Handle, HandleSeen, HandleMalformed, HandleEvent, Enqueue, Nak
  <1>3. ASSUME NEW p \in Posts, Post(p) PROVE phase' = phase
    BY <1>3 DEF Post
  <1>4. ASSUME FanOut PROVE phase' = phase
    BY <1>4 DEF FanOut, FanTake, FanSend, FanQuit
  <1>5. ASSUME NEW s \in Streams, Manager(s) PROVE phase' = phase
    BY <1>5 DEF Manager, Add, CountDown, Mark, MsgAck, ManagerQuit
  <1>6. ASSUME UNCHANGED vars PROVE phase' = phase
    BY <1>6 DEF vars
  <1>7. QED
    BY <1>1, <1>2, <1>3, <1>4, <1>5, <1>6 DEF Next

\* The database is open in the next state only where it was, or as the process starts.
LEMMA StaysOpen ==
  ASSUME [Next]_vars, DbIsOpen'
  PROVE  DbIsOpen \/ Start
  <1>1. ASSUME phase' = phase PROVE DbIsOpen
    BY <1>1 DEF DbIsOpen
  <1>2. ASSUME Cancel \/ ServeFails \/ Unwind PROVE DbIsOpen
    BY <1>2 DEF DbIsOpen, Cancel, ServeFails, Unwind, Deferred
  <1>3. ASSUME Exit \/ Crash PROVE FALSE
    BY <1>3 DEF Exit, Crash, Ends, DbIsOpen
  <1>4. QED
    BY <1>1, <1>2, <1>3, PhaseSteps

\* Steps of nobody but a Manager leave its work alone.
LEMMA WorkStays ==
  ASSUME WorkInv, UNCHANGED <<at, work, recorded>>, DbIsOpen' => DbIsOpen
  PROVE  WorkInv'
  BY DEF WorkInv, The

LEMMA NextWork == IInv /\ [Next]_vars => WorkInv'
  <1> USE DEF jetstream, ingest, fanning, managers, process, history
  <1> SUFFICES ASSUME TypeOK, WorkInv, DownInv, [Next]_vars
               PROVE  WorkInv'
    BY DEF IInv
  <1>0. at \in [Streams -> {"idle", "added", "mark", "ack"}]
        /\ work \in [Streams -> Envelope \cup {None}]
        /\ recorded \in [Streams -> SUBSET Envelope]
    BY DEF TypeOK
  <1>1. CASE UNCHANGED <<at, work, recorded>> /\ ~Start
    BY <1>1, StaysOpen, WorkStays
  <1>2. ASSUME Start PROVE WorkInv'
    <2>1. \A s \in Streams : work[s] = None
      BY <1>2 DEF Start, DownInv
    <2>2. UNCHANGED <<at, work, recorded>>
      BY <1>2 DEF Start
    <2>3. \A s \in Streams : The(work'[s]) = {}
      BY <2>1, <2>2 DEF The
    <2>4. QED
      BY <2>2, <2>3 DEF WorkInv
  <1>3. ASSUME NEW s \in Streams, Add(s) PROVE WorkInv'
    <2>1. PICK e : e = Head(streamIn[s])
      OBVIOUS
    <2>2. /\ e \in Envelope
          /\ work' = [work EXCEPT ![s] = e]
          /\ at' = [at EXCEPT ![s] = "added"]
          /\ \A t \in Streams : recorded[t] \subseteq recorded'[t]
          /\ DbIsOpen => e \in recorded'[s]
          /\ phase' = phase
      BY <1>3, <2>1, AddEffect
    <2>3. DbIsOpen' = DbIsOpen
      BY <2>2 DEF DbIsOpen
    <2>4. ASSUME NEW t \in Streams
          PROVE  /\ at'[t] = "idle" <=> work'[t] = None
                 /\ at'[t] \in {"mark", "ack"} => work'[t].msg \in Msgs
                 /\ DbIsOpen' => The(work'[t]) \subseteq recorded'[t]
      <3>1. CASE t = s
        BY <1>0, <2>2, <2>3, <3>1, NoneIsNoEnvelope DEF The
      <3>2. CASE t # s
        <4>1. at'[t] = at[t] /\ work'[t] = work[t] /\ recorded[t] \subseteq recorded'[t]
          BY <1>0, <2>2, <3>2
        <4>2. QED
          BY <2>3, <4>1 DEF WorkInv, The
      <3>3. QED
        BY <3>1, <3>2
    <2>5. QED
      BY <2>4 DEF WorkInv
  <1>4. ASSUME NEW s \in Streams, CountDown(s) \/ Mark(s) \/ MsgAck(s) PROVE WorkInv'
    <2>1. recorded' = recorded /\ phase' = phase
      BY <1>4 DEF CountDown, Mark, MsgAck
    <2>2. DbIsOpen' = DbIsOpen
      BY <2>1 DEF DbIsOpen
    <2>3. at[s] # "idle" /\ work[s] # None
      BY <1>4 DEF CountDown, Mark, MsgAck, WorkInv
    <2>4. \A t \in Streams \ {s} : at'[t] = at[t] /\ work'[t] = work[t]
      BY <1>0, <1>4 DEF CountDown, Mark, MsgAck
    <2>5. \/ at'[s] = "idle" /\ work'[s] = None
          \/ at'[s] # "idle" /\ work'[s] = work[s] /\ work[s].msg \in Msgs
      <3>1. CASE CountDown(s)
        BY <1>0, <3>1 DEF CountDown
      <3>2. CASE Mark(s)
        BY <1>0, <3>2 DEF Mark, WorkInv
      <3>3. CASE MsgAck(s)
        BY <1>0, <3>3 DEF MsgAck
      <3>4. QED
        BY <1>4, <3>1, <3>2, <3>3
    <2>6. QED
      BY <2>1, <2>2, <2>3, <2>4, <2>5 DEF WorkInv, The
  <1>5. ASSUME Exit \/ Crash PROVE WorkInv'
    <2>1. /\ \A s \in Streams : at'[s] = "idle" /\ work'[s] = None
          /\ ~DbIsOpen'
      BY <1>5 DEF Exit, Crash, Ends, DbIsOpen
    <2>2. QED
      BY <2>1 DEF WorkInv
  <1>6. ASSUME NEW m \in Msgs, Deliver(m) \/ AckWaitExpires(m) \/ Expire(m)
        PROVE  UNCHANGED <<at, work, recorded>>
    BY <1>6 DEF Deliver, AckWaitExpires, Expire
  <1>7. ASSUME Handle PROVE UNCHANGED <<at, work, recorded>>
    BY <1>7 DEF Handle, HandleSeen, HandleMalformed, HandleEvent, Enqueue, Nak
  <1>8. ASSUME NEW p \in Posts, Post(p) PROVE UNCHANGED <<at, work, recorded>>
    BY <1>8 DEF Post
  <1>9. ASSUME FanOut PROVE UNCHANGED <<at, work, recorded>>
    BY <1>9 DEF FanOut, FanTake, FanSend, FanQuit
  <1>10. ASSUME NEW s \in Streams, ManagerQuit(s) PROVE UNCHANGED <<at, work, recorded>>
    BY <1>10 DEF ManagerQuit
  <1>11. ASSUME Cancel \/ ServeFails \/ Unwind PROVE UNCHANGED <<at, work, recorded>>
    BY <1>11 DEF Cancel, ServeFails, Unwind
  <1>12. ASSUME UNCHANGED vars PROVE UNCHANGED <<at, work, recorded>>
    BY <1>12 DEF vars
  <1>13. QED
    BY <1>1, <1>2, <1>3, <1>4, <1>5, <1>6, <1>7, <1>8, <1>9, <1>10, <1>11, <1>12
       DEF Next, Manager

LEMMA NextDown == IInv /\ [Next]_vars => DownInv'
  <1> USE DEF jetstream, ingest, fanning, managers, process, history
  <1> SUFFICES ASSUME TypeOK, WorkInv, DownInv, [Next]_vars, phase' = "down"
               PROVE  /\ Coming' = {} /\ fan' = None
                      /\ \A s \in Streams : streamIn'[s] = <<>> /\ work'[s] = None
    BY DEF IInv, DownInv
  <1>1. CASE Exit \/ Crash
    <2>1. /\ sub' = <<>> /\ handler' = None /\ eventCh' = <<>> /\ fan' = None
          /\ \A s \in Streams : streamIn'[s] = <<>> /\ work'[s] = None
      BY <1>1 DEF Exit, Crash, Ends
    <2>2. QED
      BY <2>1, EmptyOnce DEF Coming, The
  <1>2. CASE phase = "down" /\ UNCHANGED <<sub, handler, eventCh, fan, streamIn, work>>
    BY <1>2 DEF DownInv, Coming, The
  <1>3. CASE phase # "down" /\ ~Exit /\ ~Crash
    <2>1. phase' # "down"
      BY <1>3, PhaseSteps DEF Cancel, ServeFails, Unwind, Deferred, Start
    <2>2. QED
      BY <2>1
  <1>4. CASE phase = "down" /\ ~Exit /\ ~Crash
    <2>1. Coming = {} /\ fan = None /\ \A s \in Streams : work[s] = None
      BY <1>4 DEF DownInv
    <2>2. handler = None /\ \A s \in Streams : at[s] = "idle"
      BY <2>1 DEF Coming, The, WorkInv
    <2>3. ~CtxDone /\ ~Running
      BY <1>4 DEF CtxDone, Running
    <2>4. ASSUME NEW m \in Msgs, Deliver(m) PROVE FALSE
      BY <1>4, <2>4 DEF Deliver
    <2>5. ASSUME NEW m \in Msgs, AckWaitExpires(m) \/ Expire(m)
          PROVE  UNCHANGED <<sub, handler, eventCh, fan, streamIn, work>>
      BY <2>5 DEF AckWaitExpires, Expire
    <2>6. ~Handle
      BY <2>2, <2>3 DEF Handle, HandleSeen, HandleMalformed, HandleEvent, Enqueue, Nak, Handling
    <2>7. ASSUME NEW p \in Posts, Post(p) PROVE FALSE
      BY <2>3, <2>7 DEF Post
    <2>8. ~FanOut
      BY <2>1, <2>3 DEF FanOut, FanTake, FanSend, FanQuit
    <2>9. ASSUME NEW s \in Streams, Manager(s) PROVE FALSE
      BY <2>2, <2>3, <2>9 DEF Manager, Add, CountDown, Mark, MsgAck, ManagerQuit
    <2>10. ASSUME Cancel \/ ServeFails \/ Unwind \/ Start PROVE FALSE
      BY <1>4, <2>10 DEF Cancel, ServeFails, Unwind, Deferred, Start
    <2>11. ASSUME UNCHANGED vars
           PROVE  UNCHANGED <<sub, handler, eventCh, fan, streamIn, work>>
      BY <2>11 DEF vars
    <2>12. QED
      BY <1>2, <1>4, <2>4, <2>5, <2>6, <2>7, <2>8, <2>9, <2>10, <2>11 DEF Next
  <1>5. QED
    BY <1>1, <1>3, <1>4

-----------------------------------------------------------------------------
(***************************************************************************)
(* The barrier.  Only fanOut's taking of an envelope makes anyone wait for *)
(* it; every other step can only end a wait.                               *)
(***************************************************************************)

\* A step that leaves the copies alone ends no wait and begins none.
LEMMA PendingStays ==
  ASSUME UNCHANGED <<fan, fanNext, streamIn, at, work>>
  PROVE  \A e : Pending(e)' = Pending(e)
  BY DEF Pending, Unsent, The

LEMMA PendingShrinks ==
  ASSUME TypeOK, WorkInv, [Next]_vars, ~FanTake, NEW e \in Envelope
  PROVE  Pending(e)' \subseteq Pending(e)
  <1> USE DEF jetstream, ingest, fanning, managers, process, history
  <1> DEFINE Goal == Pending(e)' \subseteq Pending(e)
  <1>0. at \in [Streams -> {"idle", "added", "mark", "ack"}]
        /\ work \in [Streams -> Envelope \cup {None}]
        /\ streamIn \in [Streams -> Seq(Envelope)]
    BY DEF TypeOK
  <1>1. ASSUME UNCHANGED <<fan, fanNext, streamIn, at, work>> PROVE Goal
    BY <1>1, PendingStays
  <1>2. ASSUME FanSend PROVE Goal
    <2>1. PICK s : s = StreamOrder[fanNext]
      OBVIOUS
    <2>2. /\ s \in Streams /\ fan \in Envelope /\ fan \in Unsent(s)
          /\ streamIn' = [streamIn EXCEPT ![s] = Append(streamIn[s], fan)]
          /\ Unsent(s)' = {}
          /\ \A t \in Streams \ {s} : Unsent(t)' = Unsent(t)
          /\ UNCHANGED <<work, at>>
      BY <1>2, <2>1, FanSendEffect
    <2>3. Range(streamIn'[s]) = Range(streamIn[s]) \cup {fan}
      BY <1>0, <2>2, AppendOnce
    <2>4. ASSUME NEW t \in Pending(e)' PROVE t \in Pending(e)
      <3>1. CASE t = s
        BY <2>2, <2>3, <2>4, <3>1 DEF Pending, Unsent, The
      <3>2. CASE t # s
        <4>1. streamIn'[t] = streamIn[t] /\ Unsent(t)' = Unsent(t)
          BY <1>0, <2>2, <2>4, <3>2 DEF Pending
        <4>2. QED
          BY <2>2, <2>4, <4>1 DEF Pending
      <3>3. QED
        BY <3>1, <3>2
    <2>5. QED
      BY <2>4
  <1>3. ASSUME FanQuit PROVE Goal
    <2>1. fan' = None /\ UNCHANGED <<streamIn, at, work>>
      BY <1>3 DEF FanQuit
    <2>2. \A s \in Streams : Unsent(s)' = {}
      BY <2>1 DEF Unsent, The
    <2>3. QED
      BY <2>1, <2>2 DEF Pending
  <1>4. ASSUME NEW s \in Streams, Add(s) PROVE Goal
    <2>1. PICK h : h = Head(streamIn[s])
      OBVIOUS
    <2>2. /\ h \in Range(streamIn[s])
          /\ streamIn' = [streamIn EXCEPT ![s] = Tail(streamIn[s])]
          /\ work' = [work EXCEPT ![s] = h]
          /\ at' = [at EXCEPT ![s] = "added"]
          /\ Range(Tail(streamIn[s])) \subseteq Range(streamIn[s])
          /\ UNCHANGED <<fan, fanNext>>
      BY <1>4, <2>1, AddEffect
    <2>3. \A t \in Streams : Unsent(t)' = Unsent(t)
      BY <2>2 DEF Unsent, The
    <2>4. ASSUME NEW t \in Pending(e)' PROVE t \in Pending(e)
      <3>1. CASE t = s
        BY <1>0, <2>2, <2>3, <2>4, <3>1 DEF Pending
      <3>2. CASE t # s
        <4>1. t \in Streams
          BY <2>4 DEF Pending
        <4>2. streamIn'[t] = streamIn[t] /\ at'[t] = at[t] /\ work'[t] = work[t]
          BY <1>0, <2>2, <3>2, <4>1
        <4>3. QED
          BY <2>3, <2>4, <4>1, <4>2 DEF Pending
      <3>3. QED
        BY <3>1, <3>2
    <2>5. QED
      BY <2>4
  <1>5. ASSUME NEW s \in Streams, CountDown(s) \/ Mark(s) \/ MsgAck(s) PROVE Goal
    <2>1. UNCHANGED <<fan, fanNext, streamIn>>
      BY <1>5 DEF CountDown, Mark, MsgAck
    <2>2. at'[s] # "added"
      BY <1>0, <1>5 DEF CountDown, Mark, MsgAck
    <2>3. \A t \in Streams \ {s} : at'[t] = at[t] /\ work'[t] = work[t]
      BY <1>0, <1>5 DEF CountDown, Mark, MsgAck
    <2>4. \A t \in Streams : Unsent(t)' = Unsent(t)
      BY <2>1 DEF Unsent, The
    <2>5. QED
      BY <2>1, <2>2, <2>3, <2>4 DEF Pending
  <1>6. ASSUME Exit \/ Crash PROVE Goal
    <2>1. /\ fan' = None
          /\ \A s \in Streams : streamIn'[s] = <<>> /\ at'[s] = "idle"
      BY <1>6 DEF Exit, Crash, Ends
    <2>2. QED
      BY <2>1, EmptyOnce DEF Pending, Unsent, The
  <1>7. ASSUME NEW m \in Msgs, Deliver(m) \/ AckWaitExpires(m) \/ Expire(m)
        PROVE  UNCHANGED <<fan, fanNext, streamIn, at, work>>
    BY <1>7 DEF Deliver, AckWaitExpires, Expire
  <1>8. ASSUME Handle PROVE UNCHANGED <<fan, fanNext, streamIn, at, work>>
    BY <1>8 DEF Handle, HandleSeen, HandleMalformed, HandleEvent, Enqueue, Nak
  <1>9. ASSUME NEW p \in Posts, Post(p) PROVE UNCHANGED <<fan, fanNext, streamIn, at, work>>
    BY <1>9 DEF Post
  <1>10. ASSUME NEW s \in Streams, ManagerQuit(s)
         PROVE  UNCHANGED <<fan, fanNext, streamIn, at, work>>
    BY <1>10 DEF ManagerQuit
  <1>11. ASSUME Cancel \/ ServeFails \/ Unwind \/ Start
         PROVE  UNCHANGED <<fan, fanNext, streamIn, at, work>>
    BY <1>11 DEF Cancel, ServeFails, Unwind, Start
  <1>12. ASSUME UNCHANGED vars PROVE UNCHANGED <<fan, fanNext, streamIn, at, work>>
    BY <1>12 DEF vars
  <1>13. QED
    BY <1>1, <1>2, <1>3, <1>4, <1>5, <1>6, <1>7, <1>8, <1>9, <1>10, <1>11, <1>12
       DEF Next, FanOut, Manager

\* What is recorded changes in a Manager's add and at the end.
LEMMA RecordedSteps ==
  ASSUME [Next]_vars
  PROVE  \/ recorded' = recorded
         \/ \E s \in Streams : Add(s)
         \/ Exit \/ Crash
  <1> USE DEF jetstream, ingest, fanning, managers, process, history
  <1>1. ASSUME NEW m \in Msgs, Deliver(m) \/ AckWaitExpires(m) \/ Expire(m)
        PROVE  recorded' = recorded
    BY <1>1 DEF Deliver, AckWaitExpires, Expire
  <1>2. ASSUME Handle PROVE recorded' = recorded
    BY <1>2 DEF Handle, HandleSeen, HandleMalformed, HandleEvent, Enqueue, Nak
  <1>3. ASSUME NEW p \in Posts, Post(p) PROVE recorded' = recorded
    BY <1>3 DEF Post
  <1>4. ASSUME FanOut PROVE recorded' = recorded
    BY <1>4 DEF FanOut, FanTake, FanSend, FanQuit
  <1>5. ASSUME NEW t \in Streams, CountDown(t) \/ Mark(t) \/ MsgAck(t) \/ ManagerQuit(t)
        PROVE  recorded' = recorded
    BY <1>5 DEF CountDown, Mark, MsgAck, ManagerQuit
  <1>6. ASSUME Cancel \/ ServeFails \/ Unwind \/ Start PROVE recorded' = recorded
    BY <1>6 DEF Cancel, ServeFails, Unwind, Start
  <1>7. ASSUME UNCHANGED vars PROVE recorded' = recorded
    BY <1>7 DEF vars
  <1>8. QED
    BY <1>1, <1>2, <1>3, <1>4, <1>5, <1>6, <1>7 DEF Next, Manager

\* Nothing recorded is lost while the database is open, nor ever by a Manager with a store.
LEMMA RecordedGrows ==
  ASSUME TypeOK, WorkInv, [Next]_vars, NEW s \in Streams, DbIsOpen' \/ s \in Persistent
  PROVE  recorded[s] \subseteq recorded'[s]
  <1>1. ASSUME NEW t \in Streams, Add(t) PROVE recorded[s] \subseteq recorded'[s]
    BY <1>1, AddEffect
  <1>2. ASSUME Exit \/ Crash PROVE recorded[s] \subseteq recorded'[s]
    BY <1>2 DEF Exit, Crash, Ends, DbIsOpen
  <1>3. QED
    BY <1>1, <1>2, RecordedSteps

LEMMA WaitingShrinks ==
  ASSUME TypeOK, WorkInv, [Next]_vars, NEW e \in Envelope,
         Pending(e)' \subseteq Pending(e), ~Start
  PROVE  Waiting(e)' \subseteq Waiting(e)
  BY StaysOpen, RecordedGrows DEF Waiting

\* The effect of fanOut's taking of an envelope.
LEMMA FanTakeEffect ==
  ASSUME TypeOK, FanTake, NEW h, h = Head(eventCh)
  PROVE  /\ h \in Envelope /\ h \in Coming
         /\ remaining' = [remaining EXCEPT ![h] = Len(StreamOrder)]
         /\ \A e \in Envelope \ {h} : Pending(e)' \subseteq Pending(e)
         /\ UNCHANGED <<at, work, recorded, phase>>
  <1>1. /\ eventCh \in Seq(Envelope) /\ eventCh # <<>> /\ fan' = h
        /\ remaining' = [remaining EXCEPT ![h] = Len(StreamOrder)]
        /\ UNCHANGED <<streamIn, at, work, recorded, phase>>
    BY DEF TypeOK, FanTake, BarrierSize, managers, process
  <1>2. h \in Envelope /\ h \in Range(eventCh)
    BY <1>1, TailOnce
  <1>3. \A s \in Streams : Unsent(s)' \subseteq {h}
    BY <1>1 DEF Unsent, The
  <1>4. \A e \in Envelope \ {h} : Pending(e)' \subseteq Pending(e)
    BY <1>1, <1>3 DEF Pending
  <1>5. QED
    BY <1>1, <1>2, <1>4 DEF Coming

\* The effect of a countdown: its Manager is not waited for any more.
LEMMA CountDownEffect ==
  ASSUME TypeOK, OnceInv, WorkInv, [Next]_vars, NEW s \in Streams, CountDown(s),
         NEW e \in Envelope, e = work[s]
  PROVE  /\ Pending(e)' \subseteq Pending(e) \ {s}
         /\ Waiting(e)' \subseteq Waiting(e) \ {s}
  <1>0. ~Start /\ ~FanTake
    BY DEF TypeOK, CountDown, Start, FanTake, managers
  <1>1. Pending(e)' \subseteq Pending(e) /\ Waiting(e)' \subseteq Waiting(e)
    BY <1>0, PendingShrinks, WaitingShrinks
  <1>2. /\ at \in [Streams -> {"idle", "added", "mark", "ack"}]
        /\ at'[s] # "added"
        /\ UNCHANGED <<fan, fanNext, streamIn, recorded, phase>>
    BY DEF TypeOK, CountDown, ingest, process
  <1>3. e \in Reached(s)
    BY EnvelopeType DEF Reached, The
  <1>4. e \notin Unsent(s) \cup Range(streamIn[s])
    BY <1>3 DEF OnceInv
  <1>5. Unsent(s)' = Unsent(s)
    BY <1>2 DEF Unsent, The
  <1>6. s \notin Pending(e)'
    BY <1>2, <1>4, <1>5 DEF Pending
  <1>7. DbIsOpen' => e \in recorded'[s]
    BY <1>2, EnvelopeType DEF WorkInv, DbIsOpen, The
  <1>8. s \notin Waiting(e)'
    BY <1>6, <1>7 DEF Waiting
  <1>9. QED
    BY <1>1, <1>6, <1>8

\* The countdowns change in fanOut's taking, in a Manager's countdown and at the end.
LEMMA RemainingSteps ==
  ASSUME [Next]_vars
  PROVE  \/ remaining' = remaining
         \/ FanTake
         \/ \E s \in Streams : CountDown(s)
         \/ Exit \/ Crash
  <1> USE DEF jetstream, ingest, fanning, managers, process, history
  <1>1. ASSUME NEW m \in Msgs, Deliver(m) \/ AckWaitExpires(m) \/ Expire(m)
        PROVE  remaining' = remaining
    BY <1>1 DEF Deliver, AckWaitExpires, Expire
  <1>2. ASSUME Handle PROVE remaining' = remaining
    BY <1>2 DEF Handle, HandleSeen, HandleMalformed, HandleEvent, Enqueue, Nak
  <1>3. ASSUME NEW p \in Posts, Post(p) PROVE remaining' = remaining
    BY <1>3 DEF Post
  <1>4. ASSUME FanSend \/ FanQuit PROVE remaining' = remaining
    BY <1>4 DEF FanSend, FanQuit
  <1>5. ASSUME NEW s \in Streams, Add(s) \/ Mark(s) \/ MsgAck(s) \/ ManagerQuit(s)
        PROVE  remaining' = remaining
    BY <1>5 DEF Add, Mark, MsgAck, ManagerQuit
  <1>6. ASSUME Cancel \/ ServeFails \/ Unwind \/ Start PROVE remaining' = remaining
    BY <1>6 DEF Cancel, ServeFails, Unwind, Start
  <1>7. ASSUME UNCHANGED vars PROVE remaining' = remaining
    BY <1>7 DEF vars
  <1>8. QED
    BY <1>1, <1>2, <1>3, <1>4, <1>5, <1>6, <1>7 DEF Next, FanOut, Manager

LEMMA CardinalityShrinks ==
  ASSUME NEW e, Waiting(e)' \subseteq Waiting(e)
  PROVE  Cardinality(Waiting(e)') <= Cardinality(Waiting(e))
  BY WaitingFinite, FS_Subset

LEMMA NextBarrier == IInv /\ [Next]_vars => BarrierInv'
  <1> USE DEF jetstream, ingest, fanning, managers, process, history
  <1> SUFFICES ASSUME TypeOK, OnceInv, WorkInv, DownInv, BarrierInv, [Next]_vars,
                      NEW e \in Envelope, e.msg \in Msgs, Pending(e)' # {}
               PROVE  Cardinality(Waiting(e)') <= remaining'[e]
    BY DEF IInv, BarrierInv
  <1>0. remaining \in [Envelope -> 0..Len(StreamOrder)]
    BY DEF TypeOK
  <1>1. CASE Start
    <2>1. UNCHANGED <<fan, fanNext, streamIn, at, work>>
      BY <1>1 DEF Start
    <2>2. /\ fan = None
          /\ \A s \in Streams : streamIn[s] = <<>> /\ at[s] = "idle"
      BY <1>1 DEF Start, DownInv, WorkInv
    <2>3. Pending(e) = {}
      BY <2>2, EmptyOnce DEF Pending, Unsent, The
    <2>4. QED
      BY <2>1, <2>3, PendingStays
  <1>2. CASE FanTake
    <2>1. PICK h : h = Head(eventCh)
      OBVIOUS
    <2>2. /\ h \in Envelope
          /\ remaining' = [remaining EXCEPT ![h] = Len(StreamOrder)]
          /\ \A x \in Envelope \ {h} : Pending(x)' \subseteq Pending(x)
      BY <1>2, <2>1, FanTakeEffect
    <2>3. CASE e = h
      <3>1. remaining'[e] = Len(StreamOrder)
        BY <1>0, <2>2, <2>3
      <3>2. Waiting(e)' \in SUBSET Streams
        BY DEF Waiting, Pending
      <3>3. QED
        BY <3>1, <3>2, StreamsFinite, FS_Subset
    <2>4. CASE e # h
      <3>1. Pending(e)' \subseteq Pending(e) /\ remaining'[e] = remaining[e]
        BY <1>0, <2>2, <2>4
      <3>2. ~Start
        BY <1>2, <2>1, FanTakeEffect DEF FanTake, Start, Running
      <3>3. Waiting(e)' \subseteq Waiting(e)
        BY <3>1, <3>2, WaitingShrinks
      <3>4. Cardinality(Waiting(e)) <= remaining[e]
        BY <3>1 DEF BarrierInv
      <3>5. Cardinality(Waiting(e)') <= Cardinality(Waiting(e))
        BY <3>3, CardinalityShrinks
      <3>6. Cardinality(Waiting(e)) \in Int /\ Cardinality(Waiting(e)') \in Int
        BY <3>3, WaitingFinite, FS_Subset, FS_CardinalityType
      <3>7. QED
        BY <1>0, <3>1, <3>4, <3>5, <3>6
    <2>5. QED
      BY <2>3, <2>4
  <1>3. CASE ~Start /\ ~FanTake
    <2>1. Pending(e)' \subseteq Pending(e)
      BY <1>3, PendingShrinks
    <2>2. Waiting(e)' \subseteq Waiting(e)
      BY <1>3, <2>1, WaitingShrinks
    <2>3. Cardinality(Waiting(e)) <= remaining[e]
      BY <2>1 DEF BarrierInv
    <2>4. /\ Cardinality(Waiting(e)') <= Cardinality(Waiting(e))
          /\ Cardinality(Waiting(e)) \in Int /\ Cardinality(Waiting(e)') \in Int
      BY <2>2, CardinalityShrinks, WaitingFinite, FS_Subset, FS_CardinalityType
    <2>5. CASE remaining'[e] = remaining[e]
      BY <1>0, <2>3, <2>4, <2>5
    <2>6. ASSUME NEW s \in Streams, CountDown(s) PROVE Cardinality(Waiting(e)') <= remaining'[e]
      <3>1. at[s] = "added" /\ work[s] \in Envelope
        BY <2>6 DEF CountDown, WorkInv, TypeOK
      <3>2. CASE work[s] = e
        <4>1. /\ s \in Waiting(e)
              /\ Cardinality(Waiting(e)) <= remaining[e]
              /\ remaining[e] \in 1..Len(StreamOrder)
          BY <3>1, <3>2, AddedIsCounted
        <4>2. remaining'[e] = remaining[e] - 1
          BY <1>0, <2>6, <3>2, DeliveryAssumption DEF CountDown
        <4>3. Waiting(e)' \subseteq Waiting(e) \ {s}
          BY <2>6, <3>2, CountDownEffect
        <4>4. /\ IsFiniteSet(Waiting(e) \ {s})
              /\ Cardinality(Waiting(e) \ {s}) = Cardinality(Waiting(e)) - 1
          BY <4>1, WaitingFinite, FS_RemoveElement
        <4>5. Cardinality(Waiting(e)') <= Cardinality(Waiting(e) \ {s})
          BY <4>3, <4>4, FS_Subset
        <4>6. QED
          BY <2>4, <4>1, <4>2, <4>4, <4>5, StreamsFinite
      <3>3. CASE work[s] # e
        <4>1. remaining'[e] = remaining[e]
          BY <1>0, <2>6, <3>1, <3>3 DEF CountDown
        <4>2. QED
          BY <2>5, <4>1
      <3>4. QED
        BY <3>2, <3>3
    <2>7. CASE Exit \/ Crash
      <3>1. /\ fan' = None
            /\ \A s \in Streams : streamIn'[s] = <<>> /\ at'[s] = "idle"
        BY <2>7 DEF Exit, Crash, Ends
      <3>2. Pending(e)' = {}
        BY <3>1, EmptyOnce DEF Pending, Unsent, The
      <3>3. QED
        BY <3>2
    <2>8. QED
      BY <1>3, <2>5, <2>6, <2>7, RemainingSteps
  <1>4. QED
    BY <1>1, <1>2, <1>3

\* The steps of the Managers that run an Ack callback.
LEMMA CallbackSteps ==
  ASSUME TypeOK, [Next]_vars, NEW s \in Streams, at'[s] \in {"mark", "ack"}
  PROVE  \/ at[s] \in {"mark", "ack"} /\ work'[s] = work[s]
         \/ CountDown(s) /\ work'[s] = work[s] /\ at'[s] = "mark"
  <1> USE DEF jetstream, ingest, fanning, managers, process, history
  <1>0. at \in [Streams -> {"idle", "added", "mark", "ack"}]
        /\ work \in [Streams -> Envelope \cup {None}]
    BY DEF TypeOK
  <1>1. ASSUME UNCHANGED <<at, work>>
        PROVE  at[s] \in {"mark", "ack"} /\ work'[s] = work[s]
    BY <1>1
  <1>2. ASSUME CountDown(s) PROVE work'[s] = work[s] /\ at'[s] = "mark"
    BY <1>0, <1>2 DEF CountDown
  <1>3. ASSUME Mark(s) PROVE at[s] \in {"mark", "ack"} /\ work'[s] = work[s]
    BY <1>3 DEF Mark
  <1>4. ASSUME Add(s) \/ MsgAck(s) PROVE FALSE
    BY <1>0, <1>4 DEF Add, MsgAck
  <1>5. ASSUME NEW t \in Streams \ {s}, Add(t) \/ CountDown(t) \/ Mark(t) \/ MsgAck(t)
        PROVE  at[s] \in {"mark", "ack"} /\ work'[s] = work[s]
    BY <1>0, <1>5 DEF Add, CountDown, Mark, MsgAck
  <1>6. ASSUME Exit \/ Crash PROVE FALSE
    BY <1>6 DEF Exit, Crash, Ends
  <1>7. ASSUME NEW m \in Msgs, Deliver(m) \/ AckWaitExpires(m) \/ Expire(m)
        PROVE  UNCHANGED <<at, work>>
    BY <1>7 DEF Deliver, AckWaitExpires, Expire
  <1>8. ASSUME Handle PROVE UNCHANGED <<at, work>>
    BY <1>8 DEF Handle, HandleSeen, HandleMalformed, HandleEvent, Enqueue, Nak
  <1>9. ASSUME NEW p \in Posts, Post(p) PROVE UNCHANGED <<at, work>>
    BY <1>9 DEF Post
  <1>10. ASSUME FanOut PROVE UNCHANGED <<at, work>>
    BY <1>10 DEF FanOut, FanTake, FanSend, FanQuit
  <1>11. ASSUME NEW t \in Streams, ManagerQuit(t) PROVE UNCHANGED <<at, work>>
    BY <1>11 DEF ManagerQuit
  <1>12. ASSUME Cancel \/ ServeFails \/ Unwind \/ Start PROVE UNCHANGED <<at, work>>
    BY <1>12 DEF Cancel, ServeFails, Unwind, Start
  <1>13. ASSUME UNCHANGED vars PROVE UNCHANGED <<at, work>>
    BY <1>13 DEF vars
  <1>14. QED
    BY <1>1, <1>2, <1>3, <1>4, <1>5, <1>6, <1>7, <1>8, <1>9, <1>10, <1>11, <1>12, <1>13
       DEF Next, Manager

\* A Manager that begins the callback was the last one the barrier waited for.
LEMMA LastIsAlone ==
  ASSUME TypeOK, OnceInv, WorkInv, BarrierInv, [Next]_vars,
         NEW s \in Streams, CountDown(s), at'[s] = "mark"
  PROVE  /\ work[s] \in Envelope
         /\ s \in Waiting(work[s])
         /\ Waiting(work[s])' = {}
  <1>1. /\ at \in [Streams -> {"idle", "added", "mark", "ack"}]
        /\ at[s] = "added" /\ work[s] \in Envelope
    BY DEF TypeOK, WorkInv, CountDown
  <1>2. work[s].msg \in Msgs /\ remaining[work[s]] = 1
    BY <1>1 DEF CountDown
  <1>3. s \in Waiting(work[s]) /\ Cardinality(Waiting(work[s])) <= 1
    BY <1>1, <1>2, AddedIsCounted
  <1>4. PICK e \in Envelope : e = work[s]
    BY <1>1
  <1>5. Waiting(e)' \subseteq Waiting(e) \ {s}
    BY <1>4, CountDownEffect
  <1>6. Cardinality(Waiting(e)) = 1
    BY <1>3, <1>4, WaitingFinite, FS_EmptySet
  <1>7. Waiting(e) = {s}
    BY <1>3, <1>4, <1>6, WaitingFinite, FS_Singleton
  <1>8. Waiting(e)' = {}
    BY <1>5, <1>7
  <1>9. work'[s] = work[s]
    BY <1>1 DEF CountDown
  <1>10. QED
    BY <1>1, <1>3, <1>4, <1>8, <1>9 DEF Waiting, Pending, Unsent, The

LEMMA NextAck == IInv /\ [Next]_vars => AckInv'
  <1> SUFFICES ASSUME TypeOK, OnceInv, WorkInv, DownInv, BarrierInv, AckInv, [Next]_vars, DbIsOpen'
               PROVE  /\ \A s \in Streams :
                           at'[s] \in {"mark", "ack"} => Waiting(work[s])' = {}
                      /\ \A s \in Streams, t \in Streams :
                           at'[s] \in {"mark", "ack"} /\ at'[t] \in {"mark", "ack"} /\ s # t
                             => work'[s] # work'[t]
    <2>1. ASSUME DbIsOpen', NEW s \in Streams, Waiting(work[s])' = {}
          PROVE  \A t \in Streams : work'[s] \in recorded'[t]
      BY <2>1 DEF Waiting
    <2>2. QED
      BY <2>1 DEF IInv, AckInv, AckAfterAllStreams
  <1>1. CASE Start
    <2>1. \A s \in Streams : at[s] = "idle"
      BY <1>1 DEF Start, DownInv, WorkInv
    <2>2. at' = at
      BY <1>1 DEF Start, managers
    <2>3. QED
      BY <2>1, <2>2
  <1>2. CASE ~Start
    <2>1. DbIsOpen
      BY <1>2, StaysOpen
    <2>2. ASSUME NEW s \in Streams, at[s] \in {"mark", "ack"}, work'[s] = work[s]
          PROVE  Waiting(work[s])' = {}
      <3>1. work[s] \in Envelope
        BY <2>2 DEF TypeOK, WorkInv
      <3>2. PICK e \in Envelope : e = work[s]
        BY <3>1
      <3>3. Waiting(e) = {}
        BY <2>1, <2>2, <3>2 DEF AckInv
      <3>4. Pending(e)' \subseteq Pending(e)
        <4>1. CASE FanTake
          <5>1. PICK h : h = Head(eventCh)
            OBVIOUS
          <5>2. h \in Coming /\ \A x \in Envelope \ {h} : Pending(x)' \subseteq Pending(x)
            BY <4>1, <5>1, FanTakeEffect
          <5>3. e \in Reached(s)
            BY <3>2, EnvelopeType DEF Reached, The
          <5>4. e # h
            BY <5>2, <5>3 DEF OnceInv
          <5>5. QED
            BY <5>2, <5>4
        <4>2. CASE ~FanTake
          BY <4>2, PendingShrinks
        <4>3. QED
          BY <4>1, <4>2
      <3>5. Waiting(e)' \subseteq Waiting(e)
        BY <1>2, <3>4, WaitingShrinks
      <3>6. Waiting(e)' = {}
        BY <3>3, <3>5
      <3>7. QED
        BY <2>2, <3>2, <3>6 DEF Waiting, Pending, Unsent, The
    <2>3. ASSUME NEW s \in Streams, at'[s] \in {"mark", "ack"}
          PROVE  Waiting(work[s])' = {}
      BY <2>2, <2>3, CallbackSteps, LastIsAlone
    <2>4. ASSUME NEW s \in Streams, NEW t \in Streams, s # t,
                 at'[s] \in {"mark", "ack"}, at'[t] \in {"mark", "ack"}
          PROVE  work'[s] # work'[t]
      <3>1. CASE CountDown(s) /\ at'[s] = "mark" /\ work'[s] = work[s]
        <4>1. at[t] = at'[t]
          BY <2>4, <3>1 DEF CountDown, TypeOK
        <4>2. work'[t] = work[t]
          BY <2>4, <4>1, CallbackSteps DEF CountDown
        <4>3. Waiting(work[t]) = {}
          BY <2>1, <2>4, <4>1 DEF AckInv
        <4>4. QED
          BY <3>1, <4>2, <4>3, LastIsAlone
      <3>2. CASE CountDown(t) /\ at'[t] = "mark" /\ work'[t] = work[t]
        <4>1. at[s] = at'[s]
          BY <2>4, <3>2 DEF CountDown, TypeOK
        <4>2. work'[s] = work[s]
          BY <2>4, <4>1, CallbackSteps DEF CountDown
        <4>3. Waiting(work[s]) = {}
          BY <2>1, <2>4, <4>1 DEF AckInv
        <4>4. QED
          BY <3>2, <4>2, <4>3, LastIsAlone
      <3>3. CASE /\ at[s] \in {"mark", "ack"} /\ work'[s] = work[s]
                 /\ at[t] \in {"mark", "ack"} /\ work'[t] = work[t]
        BY <2>1, <2>4, <3>3 DEF AckInv, AckAfterAllStreams
      <3>4. QED
        BY <2>4, <3>1, <3>2, <3>3, CallbackSteps
    <2>5. QED
      BY <2>3, <2>4
  <1>3. QED
    BY <1>1, <1>2

-----------------------------------------------------------------------------
(***************************************************************************)
(* What is settled is recorded.                                            *)
(***************************************************************************)

\* A receipt that a Manager is acking is recorded by every stream.
LEMMA AckedIsRecorded ==
  ASSUME TypeOK, WorkInv, AckInv, DbIsOpen,
         NEW s \in Streams, at[s] \in {"mark", "ack"}
  PROVE  /\ work[s].msg \in Msgs
         /\ \A t \in Streams : Copies(work[s].msg, t) # {}
  BY DEF WorkInv, AckInv, AckAfterAllStreams, Copies

\* The steps by which a message is forgotten by the server, or marked.
LEMMA SettlingSteps ==
  ASSUME TypeOK, IssuedInv, WorkInv, AckInv, [Next]_vars,
         NEW m \in Msgs \ Malformed, m \notin owed' \/ m \in seen'
  PROVE  \/ m \notin owed \/ m \in seen
         \/ \A t \in Streams : Copies(m, t) # {}
  <1> USE DEF jetstream, ingest, fanning, managers, process, history
  <1> DEFINE Goal == \/ m \notin owed \/ m \in seen
                     \/ \A t \in Streams : Copies(m, t) # {}
  <1>1. ASSUME owed' = owed, seen' \subseteq seen PROVE Goal
    BY <1>1
  <1>2. ASSUME NEW x \in Msgs, Deliver(x) \/ AckWaitExpires(x) \/ Expire(x)
        PROVE  owed' = owed /\ seen' \subseteq seen
    BY <1>2 DEF Deliver, AckWaitExpires, Expire
  <1>3. ASSUME NEW x \in Msgs, Settle(x)
        PROVE  owed' = owed \/ (owed' = owed \ {x} /\ Connected)
    BY <1>3 DEF Settle
  <1>4. ASSUME HandleSeen PROVE Goal
    <2>1. Head(sub).msg \in Msgs /\ Settle(Head(sub).msg) /\ Head(sub).msg \in seen /\ seen' = seen
      BY <1>4, SubHead DEF HandleSeen, IsSeen
    <2>2. QED
      BY <1>3, <2>1
  <1>5. ASSUME HandleMalformed PROVE Goal
    <2>1. /\ Head(sub).msg \in Msgs /\ Settle(Head(sub).msg) /\ Head(sub).msg \in Malformed
          /\ seen' = seen
      BY <1>5, SubHead DEF HandleMalformed
    <2>2. QED
      BY <1>3, <2>1
  <1>6. ASSUME HandleEvent \/ Enqueue \/ Nak PROVE owed' = owed /\ seen' \subseteq seen
    BY <1>6 DEF HandleEvent, Enqueue, Nak
  <1>7. ASSUME NEW p \in Posts, Post(p) PROVE owed' = owed /\ seen' \subseteq seen
    BY <1>7 DEF Post
  <1>8. ASSUME FanOut PROVE owed' = owed /\ seen' \subseteq seen
    BY <1>8 DEF FanOut, FanTake, FanSend, FanQuit
  <1>9. ASSUME NEW s \in Streams, Add(s) \/ CountDown(s) \/ ManagerQuit(s)
        PROVE  owed' = owed /\ seen' \subseteq seen
    BY <1>9 DEF Add, CountDown, ManagerQuit
  <1>10. ASSUME NEW s \in Streams, Mark(s) PROVE Goal
    <2>1. /\ at[s] \in {"mark", "ack"} /\ owed' = owed
          /\ seen' = seen \/ (seen' = seen \cup {work[s].msg} /\ DbIsOpen)
      BY <1>10 DEF Mark, MarkSeen
    <2>2. QED
      BY <2>1, AckedIsRecorded
  <1>11. ASSUME NEW s \in Streams, MsgAck(s) PROVE Goal
    <2>1. /\ at[s] \in {"mark", "ack"} /\ seen' = seen /\ work[s].msg \in Msgs
          /\ Settle(work[s].msg)
      BY <1>11 DEF MsgAck, WorkInv
    <2>2. Connected => DbIsOpen
      BY DEF Connected, DbIsOpen
    <2>3. QED
      BY <1>3, <2>1, <2>2, AckedIsRecorded
  <1>12. ASSUME Cancel \/ ServeFails \/ Unwind \/ Start PROVE owed' = owed /\ seen' \subseteq seen
    BY <1>12 DEF Cancel, ServeFails, Unwind, Start
  <1>13. ASSUME Exit \/ Crash PROVE owed' = owed /\ seen' \subseteq seen
    BY <1>13 DEF Exit, Crash, Ends
  <1>14. ASSUME UNCHANGED vars PROVE owed' = owed /\ seen' \subseteq seen
    BY <1>14 DEF vars
  <1>15. QED
    BY <1>1, <1>2, <1>4, <1>5, <1>6, <1>7, <1>8, <1>9, <1>10, <1>11, <1>12, <1>13, <1>14
       DEF Next, Handle, Manager

LEMMA NextSettled == IInv /\ [Next]_vars => SettledIsRecorded'
  <1> SUFFICES ASSUME TypeOK, IssuedInv, WorkInv, AckInv, SettledIsRecorded, [Next]_vars,
                      NEW m \in Msgs \ Malformed, m \notin owed' \/ m \in seen',
                      NEW s \in Persistent
               PROVE  Copies(m, s)' # {}
    BY DEF IInv, SettledIsRecorded
  <1>1. s \in Streams
    BY DeliveryAssumption
  <1>2. Copies(m, s) # {}
    BY <1>1, SettlingSteps DEF SettledIsRecorded
  <1>3. Copies(m, s) \subseteq Copies(m, s)'
    BY <1>1, RecordedGrows DEF Copies
  <1>4. QED
    BY <1>2, <1>3

-----------------------------------------------------------------------------
(***************************************************************************)
(* Deduplication.                                                          *)
(***************************************************************************)

\* A receipt comes beyond the subscription from the handler, or over HTTP.
LEMMA BeyondGrows ==
  ASSUME TypeOK, RouteInv, WorkInv, [Next]_vars, NEW s \in Streams, NEW e \in Beyond(s)'
  PROVE  \/ e \in Beyond(s)
         \/ HandleEvent /\ e = Head(sub)
         \/ e.msg \in Posts
  <1> USE DEF jetstream, ingest, fanning, managers, process, history
  <1>1. ASSUME Leaves PROVE Beyond(s)' \subseteq Beyond(s)
    <2>1. The(handler)' \subseteq The(handler)
      BY <1>1 DEF Leaves, The
    <2>2. QED
      BY <1>1, <2>1 DEF Leaves, Beyond
  <1>2. ASSUME UNCHANGED <<fan, fanNext, streamIn, work, recorded>>
        PROVE  Unsent(s)' = Unsent(s) /\ Reached(s)' = Reached(s)
    BY <1>2 DEF Unsent, Reached, The
  <1>3. ASSUME NEW m \in Msgs, Deliver(m) PROVE Beyond(s)' \subseteq Beyond(s)
    BY <1>2, <1>3 DEF Deliver, Beyond, The
  <1>4. ASSUME HandleEvent PROVE Beyond(s)' \subseteq Beyond(s) \cup {Head(sub)}
    BY <1>2, <1>4 DEF HandleEvent, Beyond, The
  <1>5. ASSUME NEW p \in Posts, Post(p)
        PROVE  Beyond(s)' \subseteq Beyond(s) \cup {[msg |-> p, n |-> 1]}
    <2>1. [msg |-> p, n |-> 1] \in Envelope /\ eventCh' = Append(eventCh, [msg |-> p, n |-> 1])
      BY <1>5, FirstDelivery DEF Post
    <2>2. Range(eventCh)' = Range(eventCh) \cup {[msg |-> p, n |-> 1]}
      BY <2>1, AppendOnce DEF TypeOK
    <2>3. QED
      BY <1>2, <1>5, <2>2 DEF Post, Beyond, The
  <1>6. ASSUME Enqueue PROVE Beyond(s)' \subseteq Beyond(s)
    <2>1. Range(eventCh)' = Range(eventCh) \cup {handler} /\ The(handler)' = {}
      BY <1>6, AppendOnce DEF TypeOK, Enqueue, The
    <2>2. handler \in The(handler)
      BY <1>6 DEF Enqueue, The
    <2>3. QED
      BY <1>2, <1>6, <2>1, <2>2 DEF Enqueue, Beyond
  <1>7. ASSUME FanTake PROVE Beyond(s)' \subseteq Beyond(s)
    <2>1. /\ eventCh \in Seq(Envelope) /\ eventCh # <<>>
          /\ eventCh' = Tail(eventCh) /\ fan' = Head(eventCh)
          /\ UNCHANGED <<handler, streamIn, work, recorded>>
      BY <1>7 DEF TypeOK, FanTake
    <2>2. Range(eventCh)' \subseteq Range(eventCh) /\ Head(eventCh) \in Range(eventCh)
      BY <2>1, TailOnce
    <2>3. Unsent(s)' \subseteq Range(eventCh) /\ Reached(s)' = Reached(s)
      BY <2>1, <2>2 DEF Unsent, Reached, The
    <2>4. QED
      BY <2>1, <2>2, <2>3 DEF Beyond, The
  <1>8. ASSUME FanSend PROVE Beyond(s)' \subseteq Beyond(s)
    <2>1. PICK t : t = StreamOrder[fanNext]
      OBVIOUS
    <2>2. /\ t \in Streams /\ fan \in Envelope /\ fan \in Unsent(t)
          /\ streamIn' = [streamIn EXCEPT ![t] = Append(streamIn[t], fan)]
          /\ Unsent(t)' = {}
          /\ \A u \in Streams \ {t} : Unsent(u)' = Unsent(u)
          /\ UNCHANGED <<handler, eventCh, work, recorded>>
      BY <1>8, <2>1, FanSendEffect
    <2>3. Range(streamIn'[t]) = Range(streamIn[t]) \cup {fan}
      BY <2>2, AppendOnce DEF TypeOK
    <2>4. Reached(s)' = Reached(s) /\ The(handler)' = The(handler)
      BY <2>2 DEF Reached, The
    <2>5. CASE s = t
      BY <2>2, <2>3, <2>4, <2>5 DEF Beyond
    <2>6. CASE s # t
      <3>1. streamIn'[s] = streamIn[s] /\ Unsent(s)' = Unsent(s)
        BY <2>2, <2>6 DEF TypeOK
      <3>2. QED
        BY <2>2, <2>4, <3>1 DEF Beyond
    <2>7. QED
      BY <2>5, <2>6
  <1>9. ASSUME NEW t \in Streams, Add(t) PROVE Beyond(s)' \subseteq Beyond(s)
    <2>1. PICK h : h = Head(streamIn[t])
      OBVIOUS
    <2>2. /\ h \in Range(streamIn[t])
          /\ streamIn' = [streamIn EXCEPT ![t] = Tail(streamIn[t])]
          /\ work' = [work EXCEPT ![t] = h]
          /\ \A u \in Streams \ {t} : recorded'[u] = recorded[u]
          /\ recorded'[t] \subseteq recorded[t] \cup {h}
          /\ Range(Tail(streamIn[t])) \subseteq Range(streamIn[t])
          /\ UNCHANGED <<handler, eventCh, fan, fanNext>>
      BY <1>9, <2>1, AddEffect
    <2>3. Unsent(s)' = Unsent(s) /\ The(handler)' = The(handler)
      BY <2>2 DEF Unsent, The
    <2>4. Range(streamIn[s])' \cup Reached(s)' \subseteq Range(streamIn[s]) \cup Reached(s)
      BY <2>2 DEF TypeOK, Reached, The
    <2>5. QED
      BY <2>2, <2>3, <2>4 DEF Beyond
  <1>10. QED
    BY <1>1, <1>3, <1>4, <1>5, <1>6, <1>7, <1>8, <1>9, LeavingSteps

\* What a step does to a message that it does not excuse.
LEMMA LedgerSteps ==
  ASSUME TypeOK, IssuedInv, WorkInv, [Next]_vars, Dedupe, NEW m \in Msgs, m \notin excused'
  PROVE  /\ m \notin excused
         /\ m \in done => m \in done'
         /\ m \in seen => m \in seen'
         /\ m \in done' => m \in done \/ m \in seen'
         /\ m \notin owed => m \notin owed'
         /\ m \notin done' => (m \in outstanding => m \in outstanding' \/ m \notin owed')
         /\ \/ delivered'[m] = delivered[m]
            \/ /\ delivered'[m] = delivered[m] + 1
               /\ m \in owed \ outstanding
               /\ m \in outstanding'
  <1> USE DEF jetstream, ingest, fanning, managers, process, history
  <1> DEFINE Goal == /\ m \notin excused
                     /\ m \in done => m \in done'
                     /\ m \in seen => m \in seen'
                     /\ m \in done' => m \in done \/ m \in seen'
                     /\ m \notin owed => m \notin owed'
                     /\ m \notin done' => (m \in outstanding => m \in outstanding' \/ m \notin owed')
                     /\ \/ delivered'[m] = delivered[m]
                        \/ /\ delivered'[m] = delivered[m] + 1
                           /\ m \in owed \ outstanding
                           /\ m \in outstanding'
  <1>1. ASSUME UNCHANGED <<jetstream, done, seen, excused>> PROVE Goal
    BY <1>1
  <1>2. ASSUME NEW x \in Msgs, Deliver(x) PROVE Goal
    BY <1>2 DEF Deliver, TypeOK
  <1>3. ASSUME NEW x \in Msgs, AckWaitExpires(x) PROVE Goal
    BY <1>3 DEF AckWaitExpires
  <1>4. ASSUME NEW x \in Msgs, Expire(x) PROVE Goal
    BY <1>4 DEF Expire
  <1>5. ASSUME NEW x, Settle(x), UNCHANGED <<delivered, done, seen, excused>> PROVE Goal
    BY <1>5 DEF Settle
  <1>6. ASSUME HandleSeen \/ HandleMalformed PROVE Goal
    BY <1>5, <1>6 DEF HandleSeen, HandleMalformed
  <1>7. ASSUME HandleEvent PROVE Goal
    BY <1>7 DEF HandleEvent, SeenSaysNo
  <1>8. ASSUME Enqueue PROVE Goal
    BY <1>8 DEF Enqueue
  <1>9. ASSUME Nak PROVE Goal
    BY <1>9 DEF Nak
  <1>10. ASSUME NEW p \in Posts, Post(p) PROVE Goal
    BY <1>10 DEF Post
  <1>11. ASSUME FanOut PROVE Goal
    BY <1>11 DEF FanOut, FanTake, FanSend, FanQuit
  <1>12. ASSUME NEW s \in Streams, Add(s) \/ CountDown(s) \/ ManagerQuit(s) PROVE Goal
    BY <1>12 DEF Add, CountDown, ManagerQuit
  <1>13. ASSUME NEW s \in Streams, Mark(s) PROVE Goal
    BY <1>13 DEF Mark, MarkSeen
  <1>14. ASSUME NEW s \in Streams, MsgAck(s) PROVE Goal
    BY <1>5, <1>14 DEF MsgAck
  <1>15. ASSUME Cancel \/ ServeFails \/ Unwind \/ Start PROVE Goal
    BY <1>15 DEF Cancel, ServeFails, Unwind, Start
  <1>16. ASSUME Exit \/ Crash PROVE Goal
    BY <1>16 DEF Exit, Crash, Ends
  <1>17. ASSUME UNCHANGED vars PROVE Goal
    BY <1>17 DEF vars
  <1>18. QED
    BY <1>2, <1>3, <1>4, <1>6, <1>7, <1>8, <1>9, <1>10, <1>11, <1>12, <1>13, <1>14,
       <1>15, <1>16, <1>17 DEF Next, Handle, Manager

LEMMA NextCounted == IInv /\ [Next]_vars => CountedInv'
  <1> SUFFICES ASSUME TypeOK, RouteInv, WorkInv, CountedInv, [Next]_vars,
                      Dedupe, NEW m \in Msgs, m \notin excused'
               PROVE  Counted(m)'
    BY DEF IInv, RouteInv, CountedInv
  <1>1. /\ m \notin excused
        /\ m \in done => m \in done'
        /\ m \in seen => m \in seen'
        /\ m \in done' => m \in done \/ m \in seen'
        /\ m \notin owed => m \notin owed'
        /\ m \notin done' => (m \in outstanding => m \in outstanding' \/ m \notin owed')
        /\ \/ delivered'[m] = delivered[m]
           \/ /\ delivered'[m] = delivered[m] + 1
              /\ m \in owed \ outstanding
              /\ m \in outstanding'
    BY LedgerSteps DEF RouteInv
  <1>2. Counted(m)
    BY <1>1 DEF CountedInv
  <1>3. delivered[m] \in Nat
    BY FirstDelivery DEF TypeOK
  <1>4. m \in done' => m \in seen'
    BY <1>1, <1>2 DEF Counted
  <1>5. ASSUME m \notin done' PROVE /\ delivered'[m] <= 1
                                    /\ delivered'[m] = 1 => m \in outstanding' \/ m \notin owed'
    <2>1. m \notin done
      BY <1>1, <1>5
    <2>2. delivered[m] <= 1 /\ (delivered[m] = 1 => m \in outstanding \/ m \notin owed)
      BY <1>2, <2>1 DEF Counted
    <2>3. CASE delivered'[m] = delivered[m]
      BY <1>1, <1>5, <2>2, <2>3
    <2>4. CASE /\ delivered'[m] = delivered[m] + 1
               /\ m \in owed \ outstanding
               /\ m \in outstanding'
      BY <1>3, <2>2, <2>4
    <2>5. QED
      BY <1>1, <2>3, <2>4
  <1>6. ASSUME NEW s \in Streams, NEW e \in Beyond(s)', e.msg = m PROVE e.n = 1
    <2>1. CASE e \in Beyond(s)
      BY <1>2, <1>6, <2>1 DEF Counted
    <2>2. CASE HandleEvent /\ e = Head(sub)
      <3>1. m \notin seen
        BY <1>6, <2>2 DEF HandleEvent, SeenSaysNo, IsSeen
      <3>2. delivered[m] <= 1
        BY <1>2, <3>1 DEF Counted
      <3>3. e \in Range(sub) /\ e \in Envelope
        BY <2>2, SubHead DEF HandleEvent, RouteInv
      <3>4. e.n <= delivered[m] /\ e.n \in Nat \ {0}
        BY <1>6, <3>3, EnvelopeType, StreamsFinite DEF RouteInv, IssuedInv, Issued, Path, Coming
      <3>5. QED
        BY <1>3, <3>2, <3>4
    <2>3. CASE e.msg \in Posts
      BY <1>6, <2>3, DeliveryAssumption
    <2>4. QED
      BY <1>6, <2>1, <2>2, <2>3, BeyondGrows
  <1>7. QED
    BY <1>4, <1>5, <1>6 DEF Counted

-----------------------------------------------------------------------------
(***************************************************************************)
(* The theorems.                                                           *)
(***************************************************************************)

\* The inductive invariant of the delivery path: where each receipt is, whom each
\* barrier waits for, what is recorded of what the server may forget.
THEOREM Invariance == Spec => []IInv
  <1>1. IInv /\ [Next]_vars => IInv'
    BY NextTyped, NextRouted, NextWork, NextDown, NextBarrier, NextAck, NextSettled,
       NextCounted DEF IInv, RouteInv
  <1>2. QED
    BY InitHolds, <1>1, PTL DEF Spec

\* The ingesters, fanOut and the Managers keep their data in its types: the channels
\* their capacities, a barrier never below zero.
THEOREM TypeCorrect == Spec => []TypeOK
  <1>1. IInv => TypeOK
    BY DEF IInv
  <1>2. QED
    BY Invariance, <1>1, PTL

\* ackBarrier: with any number of streams, the Ack callback runs once for a receipt,
\* and after every stream has recorded it.
THEOREM AckIsLast == Spec => []AckAfterAllStreams
  <1>1. IInv => AckAfterAllStreams
    BY DEF IInv, AckInv
  <1>2. QED
    BY Invariance, <1>1, PTL

\* End-to-end ack: a message that JetStream may forget, or whose redelivery the dedupe
\* store will swallow, is recorded by every stream with a store.
THEOREM SettledNeverLost == Spec => []SettledIsRecorded
  <1>1. IInv => SettledIsRecorded
    BY DEF IInv
  <1>2. QED
    BY Invariance, <1>1, PTL

\* The dedupe store: a stream counts a message once, unless it is excused.
THEOREM CountsOnce == Spec => []CountedOnceUnlessExcused
  <1>1. IInv => CountedOnceUnlessExcused
    <2> SUFFICES ASSUME IInv, Dedupe, NEW m \in Msgs \ excused, NEW s \in Streams
                 PROVE  Cardinality(Copies(m, s)) <= 1
      BY DEF CountedOnceUnlessExcused
    <2> DEFINE first == [msg |-> m, n |-> 1]
    <2>1. \A e \in recorded[s] : e.msg = m => e.n = 1
      BY DEF IInv, CountedInv, Counted, Beyond, Reached
    <2>2. recorded[s] \subseteq Envelope
      BY DEF IInv, TypeOK
    <2>3. \A e \in Copies(m, s) : e = first
      BY <2>1, <2>2, EnvelopeType DEF Copies
    <2>4. Copies(m, s) = {} \/ Copies(m, s) = {first}
      BY <2>3
    <2>5. Cardinality({}) = 0
      BY FS_EmptySet
    <2>6. Cardinality({first}) = 1
      BY FS_Singleton
    <2> HIDE DEF first
    <2>7. QED
      BY <2>4, <2>5, <2>6
  <1>2. QED
    BY Invariance, <1>1, PTL

=============================================================================
