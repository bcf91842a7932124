--------------------------- MODULE PipelineProofs ---------------------------
(***************************************************************************)
(* What holds of Pipeline for any rules, notifiers, windows and channels.  *)
(*                                                                         *)
(* On its way a batch passes four stages: out channel, forwarder, batchCh, *)
(* evaluation.  Along them the numbers of a window only fall (OrderInv),   *)
(* and while a stream's forwarder runs, what was sent is evaluated or on   *)
(* its way; of what is beyond the forwarder this holds even after it has   *)
(* returned (CompleteInv).  Together they say that nothing is missing and  *)
(* nothing comes twice.                                                    *)
(***************************************************************************)
EXTENDS Pipeline, SequenceTheorems, TLAPS

The(x) == {x} \ {None}

\* The batches at each stage.
Seen(c)   == Range(evaluated[c])
Evaluated == UNION {Seen(c) : c \in Call}
Tagged    == Range(batchCh)
InHand    == UNION {The(forwarder[s]) : s \in Streams}
Waiting   == UNION {Range(out[s]) : s \in Streams}
OnWay     == The(current) \cup Tagged \cup InHand \cup Waiting

\* Every call for the batch has been made.
Done(b) == \A c \in Calls(b.stream) : b \in Seen(c)

Below(x, y) == SameWindow(x, y) => x.number < y.number

Precede(A, B) == \A x \in A, y \in B : Below(x, y)

Rising(q) == \A i, j \in DOMAIN q : i < j => Below(q[i], q[j])

\* Each batch is in its own stream's hands, and evaluated for that stream's rules.
OwnInv ==
  /\ \A s \in Streams : \A b \in The(forwarder[s]) \cup Range(out[s]) : b.stream = s
  /\ \A c \in Call : \A b \in Seen(c) : b.stream = StreamKey(Rules[c.rule])

\* A batch that waits to be sent is the next of its window.  A stream that has not
\* started has sent none.
ManagerInv ==
  \A s \in Streams :
    /\ pending[s] = None <=> manager[s] \notin {"flush", "correct"}
    /\ pending[s] # None => pending[s] = NextBatch(s, pending[s].window)
    /\ \A w \in open[s] : sent[s][w] < MaxBatches
    /\ s \notin started => manager[s] = "none" /\ \A w \in Windows : sent[s][w] = 0

\* The calls for the current batch are made or still to be made.
LoopInv ==
  /\ current = None <=> calls = {}
  /\ current # None =>
       /\ calls \subseteq Calls(current.stream)
       /\ \A c \in Calls(current.stream) \ calls : current \in Seen(c)

\* The numbers of a window fall from stage to stage, and within each channel.
OrderInv ==
  /\ Precede(Evaluated \cup The(current), Tagged \cup InHand \cup Waiting)
  /\ Precede(Tagged, InHand \cup Waiting)
  /\ Precede(InHand, Waiting)
  /\ Rising(batchCh)
  /\ \A s \in Streams : Rising(out[s])
  /\ \A c \in calls : Precede(Seen(c), The(current))
  /\ \A b \in Evaluated \cup OnWay : b.number <= sent[b.stream][b.window]

\* No batch is left out before one that is beyond its forwarder, and none of those sent
\* while the forwarder runs.
CompleteInv ==
  \A x \in Batch :
    \/ Done(x)
    \/ x \in OnWay
    \/ /\ x.stream \notin quit => x.number > sent[x.stream][x.window]
       /\ Precede(The(current) \cup Tagged \cup InHand, {x})

IInv ==
  /\ TypeOK
  /\ OwnInv
  /\ ManagerInv
  /\ LoopInv
  /\ OrderInv
  /\ CompleteInv
  /\ EvaluatedInOrder

-----------------------------------------------------------------------------
(***************************************************************************)
(* Batches, calls and channels.                                            *)
(***************************************************************************)

LEMMA BatchType ==
  ASSUME NEW b \in Batch
  PROVE  /\ b.stream \in Streams /\ b.window \in Windows
         /\ b.number \in 1..MaxBatches /\ b.number \in Nat
         /\ b # None
  BY NoneIsNoBatch, PipelineAssumption DEF Batch

LEMMA CallType ==
  /\ \A c \in Call : c.rule \in DOMAIN Rules /\ StreamKey(Rules[c.rule]) \in Streams
  /\ \A s \in Streams :
       /\ Calls(s) = {c \in Call : StreamKey(Rules[c.rule]) = s}
       /\ Calls(s) # {}
  <1>1. \A c \in Call : c.rule \in DOMAIN Rules /\ StreamKey(Rules[c.rule]) \in Streams
    BY DEF Call, Streams
  <1>2. ASSUME NEW s \in Streams PROVE Calls(s) = {c \in Call : StreamKey(Rules[c.rule]) = s}
    BY <1>1 DEF Calls, RulesOf
  <1>3. ASSUME NEW s \in Streams PROVE Calls(s) # {}
    <2>1. PICK i \in DOMAIN Rules : StreamKey(Rules[i]) = s
      BY DEF Streams
    <2>2. [rule |-> i, notifier |-> 1] \in Calls(s)
      BY <2>1, PipelineAssumption DEF Calls, RulesOf, Call
    <2>3. QED
      BY <2>2
  <1>4. QED
    BY <1>1, <1>2, <1>3

LEMMA AppendEnd ==
  ASSUME NEW S, NEW q \in Seq(S), NEW x \in S
  PROVE  /\ Append(q, x) \in Seq(S)
         /\ Len(Append(q, x)) = Len(q) + 1
         /\ Range(Append(q, x)) = Range(q) \cup {x}
  BY AppendProperties, LenProperties DEF Range

LEMMA TakeHead ==
  ASSUME NEW S, NEW q \in Seq(S), q # <<>>
  PROVE  /\ Head(q) \in S
         /\ Tail(q) \in Seq(S)
         /\ Len(Tail(q)) = Len(q) - 1
         /\ Range(q) = {Head(q)} \cup Range(Tail(q))
  <1>1. /\ Len(q) \in Nat \ {0} /\ DOMAIN q = 1..Len(q)
        /\ Head(q) = q[1] /\ Tail(q) \in Seq(S) /\ Len(Tail(q)) = Len(q) - 1
        /\ DOMAIN Tail(q) = 1..(Len(q) - 1)
        /\ \A i \in 1..(Len(q) - 1) : Tail(q)[i] = q[i + 1]
    BY HeadTailProperties, LenProperties
  <1>2. Head(q) \in S
    BY <1>1
  <1>3. ASSUME NEW i \in 1..Len(q) PROVE q[i] \in {Head(q)} \cup Range(Tail(q))
    <2>1. CASE i = 1
      BY <1>1, <2>1
    <2>2. CASE i # 1
      <3>1. i - 1 \in 1..(Len(q) - 1) /\ Tail(q)[i - 1] = q[i]
        BY <1>1, <2>2
      <3>2. QED
        BY <1>1, <3>1 DEF Range
    <2>3. QED
      BY <2>1, <2>2
  <1>4. \A i \in 1..(Len(q) - 1) : Tail(q)[i] \in Range(q)
    BY <1>1 DEF Range
  <1>5. Head(q) \in Range(q)
    BY <1>1 DEF Range
  <1>6. QED
    BY <1>1, <1>2, <1>3, <1>4, <1>5 DEF Range

LEMMA RisingAppend ==
  ASSUME NEW q \in Seq(Batch), NEW x \in Batch, Rising(q), Precede(Range(q), {x})
  PROVE  Rising(Append(q, x))
  <1>1. /\ DOMAIN Append(q, x) = 1..(Len(q) + 1) /\ DOMAIN q = 1..Len(q) /\ Len(q) \in Nat
        /\ Append(q, x)[Len(q) + 1] = x
        /\ \A i \in 1..Len(q) : Append(q, x)[i] = q[i]
    BY AppendProperties, LenProperties
  <1> SUFFICES ASSUME NEW i \in 1..(Len(q) + 1), NEW j \in 1..(Len(q) + 1), i < j
               PROVE  Below(Append(q, x)[i], Append(q, x)[j])
    BY <1>1 DEF Rising
  <1>2. i \in 1..Len(q) /\ Append(q, x)[i] = q[i] /\ q[i] \in Range(q)
    BY <1>1 DEF Range
  <1>3. CASE j = Len(q) + 1
    BY <1>1, <1>2, <1>3 DEF Precede
  <1>4. CASE j # Len(q) + 1
    <2>1. j \in 1..Len(q) /\ Append(q, x)[j] = q[j]
      BY <1>1, <1>4
    <2>2. QED
      BY <1>1, <1>2, <2>1 DEF Rising
  <1>5. QED
    BY <1>3, <1>4

LEMMA RisingTail ==
  ASSUME NEW q \in Seq(Batch), q # <<>>, Rising(q)
  PROVE  Rising(Tail(q)) /\ Precede({Head(q)}, Range(Tail(q)))
  <1>1. /\ Len(q) \in Nat \ {0} /\ DOMAIN q = 1..Len(q)
        /\ Head(q) = q[1]
        /\ DOMAIN Tail(q) = 1..(Len(q) - 1)
        /\ \A i \in 1..(Len(q) - 1) : Tail(q)[i] = q[i + 1]
    BY HeadTailProperties, LenProperties
  <1>2. ASSUME NEW i \in 1..(Len(q) - 1), NEW j \in 1..(Len(q) - 1), i < j
        PROVE  Below(Tail(q)[i], Tail(q)[j])
    <2>1. i + 1 \in 1..Len(q) /\ j + 1 \in 1..Len(q) /\ i + 1 < j + 1
      BY <1>1, <1>2
    <2>2. Below(q[i + 1], q[j + 1])
      BY <1>1, <2>1 DEF Rising
    <2>3. QED
      BY <1>1, <2>2
  <1>3. ASSUME NEW j \in 1..(Len(q) - 1) PROVE Below(Head(q), Tail(q)[j])
    <2>1. j + 1 \in 1..Len(q) /\ 1 \in 1..Len(q) /\ 1 < j + 1
      BY <1>1
    <2>2. Below(q[1], q[j + 1])
      BY <1>1, <2>1 DEF Rising
    <2>3. QED
      BY <1>1, <2>2
  <1>4. QED
    BY <1>1, <1>2, <1>3 DEF Rising, Precede, Range

-----------------------------------------------------------------------------
(***************************************************************************)
(* Type correctness.                                                       *)
(***************************************************************************)

LEMMA NextBatchType ==
  ASSUME TypeOK, NEW s \in Streams, NEW w \in Windows, sent[s][w] < MaxBatches
  PROVE  /\ NextBatch(s, w) \in Batch
         /\ NextBatch(s, w).stream = s /\ NextBatch(s, w).window = w
         /\ NextBatch(s, w).number = sent[s][w] + 1
  <1>1. sent[s][w] \in 0..MaxBatches /\ MaxBatches \in Nat
    BY PipelineAssumption DEF TypeOK
  <1>2. QED
    BY <1>1 DEF NextBatch, Batch

LEMMA SendTyped ==
  ASSUME TypeOK, ManagerInv, NEW s \in Streams, Send(s)
  PROVE  /\ TypeOK'
         /\ pending[s] \in Batch /\ pending[s].stream = s
         /\ pending[s].number = sent[s][pending[s].window] + 1
  <1> DEFINE b == pending[s]
  <1>1. b \in Batch
    BY DEF Send, ManagerInv, TypeOK
  <1>2. b.stream = s /\ b.window \in Windows /\ b.number \in 1..MaxBatches
        /\ b.number = sent[s][b.window] + 1
    <2>1. pending[s] # None /\ b.window \in Windows /\ b.number \in 1..MaxBatches
      BY <1>1, BatchType
    <2>2. pending[s] = NextBatch(s, pending[s].window)
      BY <2>1 DEF ManagerInv
    <2>3. /\ pending[s].stream = s
          /\ pending[s].number = sent[s][pending[s].window] + 1
      BY <2>2 DEF NextBatch
    <2>4. QED
      BY <2>1, <2>3
  <1>3. out[s] \in Seq(Batch) /\ Len(out[s]) < OutCap /\ Len(out[s]) \in Nat /\ OutCap \in Nat
    BY PipelineAssumption DEF TypeOK, Send, HasRoom
  <1>4. Append(out[s], b) \in Seq(Batch) /\ Len(Append(out[s], b)) <= OutCap
    BY <1>1, <1>3, AppendEnd
  <1>5. /\ out' = [out EXCEPT ![s] = Append(out[s], b)]
        /\ sent' = [sent EXCEPT ![s][b.window] = b.number]
        /\ open' = [open EXCEPT ![s] = @ \ {b.window}]
        /\ manager' = [manager EXCEPT ![s] = "idle"]
        /\ pending' = [pending EXCEPT ![s] = None]
        /\ UNCHANGED <<engine, started, forwarders, batchCh, loop, cancelled>>
    BY DEF Send
  <1> HIDE DEF b
  <1>6. out' \in [Streams -> Seq(Batch)] /\ \A t \in Streams : Len(out'[t]) <= OutCap
    BY <1>4, <1>5 DEF TypeOK
  <1>7. sent' \in [Streams -> [Windows -> 0..MaxBatches]]
    BY <1>2, <1>5 DEF TypeOK
  <1>8. open' \in [Streams -> SUBSET Windows]
    BY <1>5 DEF TypeOK
  <1>9. QED
    BY <1>1, <1>2, <1>5, <1>6, <1>7, <1>8 DEF TypeOK, forwarders, loop, b

LEMMA NextTyped == IInv /\ [Next]_vars => TypeOK'
  <1> SUFFICES ASSUME TypeOK, ManagerInv, LoopInv, [Next]_vars PROVE TypeOK'
    BY DEF IInv
  <1> USE DEF managers, forwarders, loop
  <1>1. ASSUME NEW s \in Streams, StartStream(s) PROVE TypeOK'
    <2>1. PICK restored \in Restorable(s) : open' = [open EXCEPT ![s] = restored]
      BY <1>1 DEF StartStream
    <2>2. restored \subseteq Windows
      BY <2>1 DEF Restorable
    <2>3. open' \in [Streams -> SUBSET Windows]
      BY <2>1, <2>2 DEF TypeOK
    <2>4. manager' \in [Streams -> {"none", "idle", "flush", "correct", "returned"}]
      BY <1>1 DEF StartStream, TypeOK
    <2>5. QED
      BY <1>1, <2>3, <2>4 DEF StartStream, TypeOK
  <1>2. ASSUME NEW s \in Streams, RestoreFails(s) PROVE TypeOK'
    BY <1>2 DEF RestoreFails, TypeOK
  <1>3. CASE StartLoop
    BY <1>3 DEF StartLoop, TypeOK
  <1>4. ASSUME NEW s \in Streams, NEW w \in Windows, OpenWindow(s, w) PROVE TypeOK'
    <2>1. open' \in [Streams -> SUBSET Windows]
      BY <1>4 DEF OpenWindow, TypeOK
    <2>2. QED
      BY <1>4, <2>1 DEF OpenWindow, TypeOK
  <1>5. ASSUME NEW s \in Streams, NEW w \in Windows, Correct(s, w) \/ Flush(s, w) PROVE TypeOK'
    <2>1. sent[s][w] < MaxBatches
      BY <1>5 DEF Correct, Flush, MayOpen, ManagerInv
    <2>2. NextBatch(s, w) \in Batch
      BY <2>1, NextBatchType
    <2>3. pending' \in [Streams -> Batch \cup {None}]
      BY <1>5, <2>2 DEF Correct, Flush, TypeOK
    <2>4. manager' \in [Streams -> {"none", "idle", "flush", "correct", "returned"}]
      BY <1>5 DEF Correct, Flush, TypeOK
    <2>5. QED
      BY <1>5, <2>3, <2>4 DEF Correct, Flush, TypeOK
  <1>6. ASSUME NEW s \in Streams, Send(s) PROVE TypeOK'
    BY <1>6, SendTyped
  <1>7. ASSUME NEW s \in Streams, AbortFlush(s) \/ ManagerReturns(s) PROVE TypeOK'
    <2>1. manager' \in [Streams -> {"none", "idle", "flush", "correct", "returned"}]
      BY <1>7 DEF AbortFlush, ManagerReturns, TypeOK
    <2>2. pending' \in [Streams -> Batch \cup {None}]
      BY <1>7 DEF AbortFlush, ManagerReturns, TypeOK
    <2>3. QED
      BY <1>7, <2>1, <2>2 DEF AbortFlush, ManagerReturns, TypeOK
  <1>8. ASSUME NEW s \in Streams, TakeBatch(s) PROVE TypeOK'
    <2>1. out[s] \in Seq(Batch) /\ out[s] # <<>> /\ Len(out[s]) \in Nat /\ OutCap \in Nat
      BY <1>8, PipelineAssumption DEF TakeBatch, TypeOK
    <2>2. /\ Head(out[s]) \in Batch /\ Tail(out[s]) \in Seq(Batch)
          /\ Len(Tail(out[s])) = Len(out[s]) - 1
      BY <2>1, TakeHead
    <2>3. forwarder' \in [Streams -> Batch \cup {None}]
      BY <1>8, <2>2 DEF TakeBatch, TypeOK
    <2>4. out' \in [Streams -> Seq(Batch)]
      BY <1>8, <2>2 DEF TakeBatch, TypeOK
    <2>5. \A t \in Streams : Len(out'[t]) <= OutCap
      <3>1. ASSUME NEW t \in Streams PROVE Len(out'[t]) <= OutCap
        <4>1. CASE t = s
          BY <1>8, <2>1, <2>2, <4>1 DEF TakeBatch, TypeOK
        <4>2. CASE t # s
          BY <1>8, <4>2 DEF TakeBatch, TypeOK
        <4>3. QED
          BY <4>1, <4>2
      <3>2. QED
        BY <3>1
    <2>6. QED
      BY <1>8, <2>3, <2>4, <2>5 DEF TakeBatch, TypeOK
  <1>9. ASSUME NEW s \in Streams, HandOver(s) PROVE TypeOK'
    <2>1. /\ batchCh \in Seq(Batch) /\ forwarder[s] \in Batch
          /\ Len(batchCh) \in Nat /\ Len(batchCh) < BatchCap /\ BatchCap \in Nat
      BY <1>9, PipelineAssumption DEF HandOver, TypeOK
    <2>2. batchCh' \in Seq(Batch) /\ Len(batchCh') <= BatchCap
      BY <1>9, <2>1, AppendEnd DEF HandOver
    <2>3. forwarder' \in [Streams -> Batch \cup {None}]
      BY <1>9 DEF HandOver, TypeOK
    <2>4. QED
      BY <1>9, <2>2, <2>3 DEF HandOver, TypeOK
  <1>10. ASSUME NEW s \in Streams, ForwarderReturns(s) PROVE TypeOK'
    <2>1. forwarder' \in [Streams -> Batch \cup {None}] /\ quit' \subseteq started
      BY <1>10 DEF ForwarderReturns, ForwarderRuns, TypeOK
    <2>2. QED
      BY <1>10, <2>1 DEF ForwarderReturns, TypeOK
  <1>11. CASE TakeTagged
    <2>1. batchCh \in Seq(Batch) /\ batchCh # <<>> /\ Len(batchCh) \in Nat /\ BatchCap \in Nat
          /\ Len(batchCh) <= BatchCap
      BY <1>11, PipelineAssumption DEF TakeTagged, TypeOK
    <2>2. Head(batchCh) \in Batch /\ batchCh' \in Seq(Batch) /\ Len(batchCh') <= BatchCap
      BY <1>11, <2>1, TakeHead DEF TakeTagged
    <2>3. calls' \subseteq Call
      BY <1>11 DEF TakeTagged, Calls
    <2>4. QED
      BY <1>11, <2>2, <2>3 DEF TakeTagged, TypeOK
  <1>12. ASSUME NEW c \in Call, Emit(c) PROVE TypeOK'
    <2>1. c \in calls /\ current \in Batch
      BY <1>12 DEF Emit, LoopInv, TypeOK
    <2>2. evaluated' \in [Call -> Seq(Batch)]
      BY <1>12, <2>1, AppendEnd DEF Emit, TypeOK
    <2>3. calls' \subseteq Call /\ current' \in Batch \cup {None}
      BY <1>12, <2>1 DEF Emit, TypeOK
    <2>4. QED
      BY <1>12, <2>2, <2>3 DEF Emit, TypeOK
  <1>13. CASE RunReturns
    BY <1>13 DEF RunReturns, TypeOK
  <1>14. CASE Cancel
    BY <1>14 DEF Cancel, TypeOK
  <1>15. CASE UNCHANGED vars
    BY <1>15 DEF vars, TypeOK
  <1>16. QED
    BY <1>1, <1>2, <1>3, <1>4, <1>5, <1>6, <1>7, <1>8, <1>9, <1>10, <1>11, <1>12, <1>13,
       <1>14, <1>15 DEF Next, Start, Blocked, Loop

-----------------------------------------------------------------------------
(***************************************************************************)
(* The Managers and the loop.                                              *)
(***************************************************************************)

LEMMA NextManager == IInv /\ [Next]_vars => ManagerInv'
  <1> SUFFICES ASSUME TypeOK, ManagerInv, [Next]_vars, NEW s \in Streams
               PROVE  /\ pending'[s] = None <=> manager'[s] \notin {"flush", "correct"}
                      /\ pending'[s] # None => pending'[s] = NextBatch(s, pending[s].window)'
                      /\ \A w \in open'[s] : sent'[s][w] < MaxBatches
                      /\ s \notin started' => /\ manager'[s] = "none"
                                            /\ \A w \in Windows : sent'[s][w] = 0
    BY DEF IInv, ManagerInv
  <1>1. /\ manager \in [Streams -> {"none", "idle", "flush", "correct", "returned"}]
        /\ pending \in [Streams -> Batch \cup {None}]
        /\ open \in [Streams -> SUBSET Windows]
        /\ sent \in [Streams -> [Windows -> 0..MaxBatches]]
        /\ MaxBatches \in Nat \ {0}
    BY PipelineAssumption DEF TypeOK
  <1>2. /\ pending[s] = None <=> manager[s] \notin {"flush", "correct"}
        /\ pending[s] # None => pending[s] = NextBatch(s, pending[s].window)
        /\ \A w \in open[s] : sent[s][w] < MaxBatches
        /\ s \notin started => manager[s] = "none" /\ \A w \in Windows : sent[s][w] = 0
    BY DEF ManagerInv
  <1>3. CASE UNCHANGED <<manager[s], pending[s], open[s], sent[s]>> /\ started \subseteq started'
    BY <1>2, <1>3 DEF NextBatch
  <1>4. CASE StartStream(s)
    <2>1. /\ s \in started' /\ manager'[s] = "idle" /\ pending'[s] = pending[s]
          /\ sent'[s] = sent[s] /\ manager[s] = "none"
          /\ \A w \in Windows : sent[s][w] = 0
      BY <1>1, <1>2, <1>4 DEF StartStream
    <2>2. open'[s] \subseteq Windows
      BY <1>1, <1>4 DEF StartStream, Restorable
    <2>3. \A w \in open'[s] : sent'[s][w] < MaxBatches
      BY <1>1, <2>1, <2>2
    <2>4. pending'[s] = None /\ manager'[s] \notin {"flush", "correct"}
      BY <1>2, <2>1
    <2>5. QED
      BY <2>1, <2>3, <2>4
  <1>5. ASSUME NEW w \in Windows, OpenWindow(s, w)
        PROVE  /\ UNCHANGED <<manager[s], pending[s], sent[s], started>>
               /\ \A v \in open'[s] : sent'[s][v] < MaxBatches
    <2>1. sent[s][w] < MaxBatches
      BY <1>1, <1>5 DEF OpenWindow, MayOpen
    <2>2. open'[s] = open[s] \cup {w} /\ UNCHANGED <<manager, pending, sent, started>>
      BY <1>1, <1>5 DEF OpenWindow
    <2>3. QED
      BY <1>2, <2>1, <2>2
  <1>6. ASSUME NEW w \in Windows, Correct(s, w) \/ Flush(s, w)
        PROVE  /\ UNCHANGED <<open[s], sent[s], started>> /\ s \in started
               /\ manager'[s] \in {"flush", "correct"}
               /\ pending'[s] # None
               /\ pending'[s] = NextBatch(s, pending[s].window)'
    <2>1. sent[s][w] < MaxBatches
      BY <1>2, <1>6 DEF Correct, Flush, MayOpen
    <2>2. /\ UNCHANGED <<open, sent, started>> /\ manager[s] = "idle"
          /\ manager'[s] \in {"flush", "correct"}
          /\ pending'[s] = NextBatch(s, w)
      BY <1>1, <1>6 DEF Correct, Flush, Fed
    <2>3. NextBatch(s, w) \in Batch /\ NextBatch(s, w).window = w
      BY <2>1, NextBatchType
    <2>4. pending'[s] # None /\ pending'[s].window = w
      BY <2>2, <2>3, BatchType
    <2>5. NextBatch(s, w)' = NextBatch(s, w)
      BY <2>2 DEF NextBatch
    <2>6. QED
      BY <1>2, <2>2, <2>4, <2>5
  <1>7. CASE Send(s)
    <2>1. /\ pending[s] \in Batch
          /\ pending[s].number = sent[s][pending[s].window] + 1
      BY <1>7, SendTyped
    <2> DEFINE w == pending[s].window
    <2>2. w \in Windows
      BY <2>1, BatchType
    <2>3. /\ manager'[s] = "idle" /\ pending'[s] = None /\ manager[s] # "none"
          /\ open'[s] = open[s] \ {w} /\ UNCHANGED started
          /\ \A v \in Windows \ {w} : sent'[s][v] = sent[s][v]
      BY <1>1, <1>7 DEF Send
    <2>4. \A v \in open'[s] : sent'[s][v] < MaxBatches
      BY <1>1, <1>2, <2>3
    <2>5. QED
      BY <1>2, <2>3, <2>4
  <1>8. CASE AbortFlush(s)
    <2>1. /\ manager'[s] = "idle" /\ pending'[s] = None /\ manager[s] # "none"
          /\ UNCHANGED <<open, sent, started>>
      BY <1>1, <1>8 DEF AbortFlush
    <2>2. QED
      BY <1>2, <2>1
  <1>9. CASE ManagerReturns(s)
    <2>1. /\ manager'[s] = "returned" /\ manager[s] = "idle"
          /\ UNCHANGED <<pending, open, sent, started>>
      BY <1>1, <1>9 DEF ManagerReturns
    <2>2. QED
      BY <1>2, <2>1
  <1>10. ASSUME NEW t \in Streams \ {s},
                \/ StartStream(t) \/ Send(t) \/ AbortFlush(t) \/ ManagerReturns(t)
                \/ \E w \in Windows : OpenWindow(t, w) \/ Correct(t, w) \/ Flush(t, w)
         PROVE  UNCHANGED <<manager[s], pending[s], open[s], sent[s]>> /\ started \subseteq started'
    BY <1>1, <1>10 DEF StartStream, Send, AbortFlush, ManagerReturns, OpenWindow, Correct, Flush
  <1>11. CASE \/ StartLoop \/ Loop \/ Cancel \/ UNCHANGED vars
              \/ \E t \in Streams :
                   \/ RestoreFails(t) \/ TakeBatch(t) \/ HandOver(t) \/ ForwarderReturns(t)
    BY <1>3, <1>11 DEF StartLoop, Loop, TakeTagged, Emit, RunReturns, Cancel, vars, RestoreFails,
                       TakeBatch, HandOver, ForwarderReturns, managers
  <1>12. CASE \E t \in Streams :
                \/ StartStream(t) \/ Send(t) \/ AbortFlush(t) \/ ManagerReturns(t)
                \/ \E w \in Windows : OpenWindow(t, w) \/ Correct(t, w) \/ Flush(t, w)
    <2>1. CASE \E w \in Windows : OpenWindow(s, w)
      BY <1>2, <1>5, <2>1 DEF NextBatch
    <2>2. CASE \E w \in Windows : Correct(s, w) \/ Flush(s, w)
      BY <1>2, <1>6, <2>2
    <2>3. QED
      BY <1>3, <1>4, <1>7, <1>8, <1>9, <1>10, <1>12, <2>1, <2>2
  <1>13. QED
    BY <1>11, <1>12 DEF Next, Start, Blocked

LEMMA EmitEffect ==
  ASSUME TypeOK, LoopInv, NEW c \in Call, Emit(c)
  PROVE  /\ current \in Batch /\ c \in calls /\ calls' = calls \ {c}
         /\ current' = IF calls' = {} THEN None ELSE current
         /\ evaluated' = [evaluated EXCEPT ![c] = Append(evaluated[c], current)]
         /\ Seen(c)' = Seen(c) \cup {current}
         /\ \A d \in Call \ {c} : Seen(d)' = Seen(d)
         /\ UNCHANGED <<engine, started, managers, out, forwarders, batchCh, cancelled>>
  <1>1. current \in Batch /\ c \in calls
    BY DEF Emit, LoopInv, TypeOK
  <1>2. /\ calls' = calls \ {c}
        /\ current' = IF calls' = {} THEN None ELSE current
        /\ evaluated' = [evaluated EXCEPT ![c] = Append(evaluated[c], current)]
        /\ UNCHANGED <<engine, started, managers, out, forwarders, batchCh, cancelled>>
    BY DEF Emit
  <1>3. evaluated'[c] = Append(evaluated[c], current) /\ evaluated[c] \in Seq(Batch)
    BY <1>2 DEF TypeOK
  <1>4. Seen(c)' = Seen(c) \cup {current}
    BY <1>1, <1>3, AppendEnd DEF Seen
  <1>5. \A d \in Call \ {c} : evaluated'[d] = evaluated[d]
    BY <1>2 DEF TypeOK
  <1>6. QED
    BY <1>1, <1>2, <1>4, <1>5 DEF Seen

LEMMA TakeTaggedEffect ==
  ASSUME TypeOK, OwnInv, LoopInv, TakeTagged
  PROVE  /\ current = None /\ calls = {}
         /\ batchCh \in Seq(Batch) /\ batchCh # <<>>
         /\ current' = Head(batchCh) /\ current' \in Batch /\ batchCh' = Tail(batchCh)
         /\ calls' = Calls(current'.stream) /\ calls' # {}
         /\ Tagged = {current'} \cup Tagged'
         /\ UNCHANGED <<engine, started, managers, out, forwarders, cancelled, evaluated>>
  <1>1. /\ current = None /\ calls = {}
        /\ batchCh \in Seq(Batch) /\ batchCh # <<>>
        /\ current' = Head(batchCh) /\ batchCh' = Tail(batchCh)
        /\ calls' = Calls(current'.stream)
        /\ UNCHANGED <<engine, started, managers, out, forwarders, cancelled, evaluated>>
    BY DEF TakeTagged, TypeOK, LoopInv
  <1>2. current' \in Batch /\ Tagged = {current'} \cup Tagged'
    BY <1>1, TakeHead DEF Tagged
  <1>3. calls' # {}
    BY <1>1, <1>2, BatchType, CallType
  <1>4. QED
    BY <1>1, <1>2, <1>3

LEMMA LoopStays ==
  ASSUME [Next]_vars
  PROVE  TakeTagged \/ (\E c \in Call : Emit(c)) \/ UNCHANGED loop
  BY DEF Next, Start, Blocked, Loop, StartStream, RestoreFails, StartLoop, OpenWindow, Correct,
         Flush, Send, AbortFlush, ManagerReturns, TakeBatch, HandOver, ForwarderReturns,
         RunReturns, Cancel, vars

LEMMA NextLoop == IInv /\ [Next]_vars => LoopInv'
  <1> SUFFICES ASSUME TypeOK, OwnInv, LoopInv, [Next]_vars PROVE LoopInv'
    BY DEF IInv
  <1>1. CASE TakeTagged
    <2>1. /\ current' \in Batch /\ calls' = Calls(current'.stream) /\ calls' # {}
      BY <1>1, TakeTaggedEffect
    <2>2. QED
      BY <2>1, BatchType DEF LoopInv
  <1>2. ASSUME NEW c \in Call, Emit(c) PROVE LoopInv'
    <2>1. /\ current \in Batch /\ c \in calls /\ calls' = calls \ {c}
          /\ current' = IF calls' = {} THEN None ELSE current
          /\ Seen(c)' = Seen(c) \cup {current}
          /\ \A d \in Call \ {c} : Seen(d)' = Seen(d)
      BY <1>2, EmitEffect
    <2>2. /\ calls \subseteq Calls(current.stream) /\ current # None
          /\ \A d \in Calls(current.stream) \ calls : current \in Seen(d)
      BY <2>1, BatchType DEF LoopInv
    <2>3. CASE calls' = {}
      BY <2>1, <2>3 DEF LoopInv
    <2>4. CASE calls' # {}
      <3>1. current' = current
        BY <2>1, <2>4
      <3>2. \A d \in Calls(current.stream) \ calls' : current \in Seen(d)'
        BY <2>1, <2>2 DEF Calls
      <3>3. QED
        BY <2>1, <2>2, <2>4, <3>1, <3>2 DEF LoopInv
    <2>5. QED
      BY <2>3, <2>4
  <1>3. CASE UNCHANGED loop
    BY <1>3 DEF LoopInv, loop, Seen
  <1>4. QED
    BY <1>1, <1>2, <1>3, LoopStays

-----------------------------------------------------------------------------
(***************************************************************************)
(* The stages.                                                             *)
(***************************************************************************)

LEMMA StageType ==
  ASSUME TypeOK
  PROVE  /\ Evaluated \subseteq Batch /\ OnWay \subseteq Batch
         /\ \A s \in Streams : Range(out[s]) \subseteq Batch /\ The(forwarder[s]) \subseteq Batch
  <1>1. \A c \in Call : Seen(c) \subseteq Batch
    BY LenProperties DEF TypeOK, Seen, Range
  <1>2. Tagged \subseteq Batch
    BY LenProperties DEF TypeOK, Tagged, Range
  <1>3. \A s \in Streams : Range(out[s]) \subseteq Batch /\ The(forwarder[s]) \subseteq Batch
    BY LenProperties DEF TypeOK, Range, The
  <1>4. The(current) \subseteq Batch
    BY DEF TypeOK, The
  <1>5. QED
    BY <1>1, <1>2, <1>3, <1>4 DEF Evaluated, OnWay, InHand, Waiting

\* A step that leaves the stages alone.
Quiet == UNCHANGED <<out, forwarders, batchCh, loop, sent>>

LEMMA StageSteps ==
  ASSUME [Next]_vars
  PROVE  \/ Quiet
         \/ \E s \in Streams : Send(s) \/ TakeBatch(s) \/ HandOver(s) \/ ForwarderReturns(s)
         \/ TakeTagged
         \/ \E c \in Call : Emit(c)
  BY DEF Next, Start, Blocked, Loop, StartStream, RestoreFails, StartLoop, OpenWindow, Correct,
         Flush, AbortFlush, ManagerReturns, RunReturns, Cancel, vars, managers, Quiet

LEMMA QuietStays ==
  ASSUME OwnInv, OrderInv, CompleteInv, Quiet
  PROVE  OwnInv' /\ OrderInv' /\ CompleteInv'
  <1>1. /\ UNCHANGED <<Evaluated, Tagged, InHand, Waiting, OnWay>>
        /\ \A c : Seen(c)' = Seen(c)
    BY DEF Quiet, Evaluated, Tagged, InHand, Waiting, OnWay, forwarders, loop, Seen
  <1>2. \A x : Done(x)' <=> Done(x)
    BY <1>1 DEF Done
  <1>3. QED
    BY <1>1, <1>2 DEF Quiet, OwnInv, OrderInv, CompleteInv, forwarders, loop

LEMMA SendEffect ==
  ASSUME TypeOK, ManagerInv, NEW s \in Streams, Send(s)
  PROVE  LET b == pending[s] IN
         /\ b \in Batch /\ b.stream = s /\ b.number = sent[s][b.window] + 1
         /\ sent[s][b.window] \in Nat
         /\ sent'[s][b.window] = b.number
         /\ \A t \in Streams, w \in Windows :
              t # s \/ w # b.window => sent'[t][w] = sent[t][w]
         /\ out'[s] = Append(out[s], b) /\ out[s] \in Seq(Batch)
         /\ Range(out[s])' = Range(out[s]) \cup {b}
         /\ \A t \in Streams \ {s} : out'[t] = out[t]
         /\ Waiting' = Waiting \cup {b}
         /\ UNCHANGED <<Evaluated, Tagged, InHand, current, quit, forwarder, batchCh, loop>>
         /\ \A c : Seen(c)' = Seen(c)
  <1> DEFINE b == pending[s]
  <1>1. b \in Batch /\ b.stream = s /\ b.number = sent[s][b.window] + 1
    BY SendTyped
  <1>2. b.window \in Windows
    BY <1>1, BatchType
  <1>3. /\ out' = [out EXCEPT ![s] = Append(out[s], b)]
        /\ sent' = [sent EXCEPT ![s][b.window] = b.number]
        /\ UNCHANGED <<forwarders, batchCh, loop>>
    BY DEF Send
  <1> HIDE DEF b
  <1>4. sent[s][b.window] \in Nat
    BY <1>2, PipelineAssumption DEF TypeOK
  <1>5. sent'[s][b.window] = b.number
    BY <1>2, <1>3 DEF TypeOK
  <1>6. \A t \in Streams, w \in Windows : t # s \/ w # b.window => sent'[t][w] = sent[t][w]
    BY <1>2, <1>3 DEF TypeOK
  <1>7. /\ out'[s] = Append(out[s], b) /\ out[s] \in Seq(Batch)
        /\ \A t \in Streams \ {s} : out'[t] = out[t]
    BY <1>3 DEF TypeOK
  <1>8. Range(out'[s]) = Range(out[s]) \cup {b}
    BY <1>1, <1>7, AppendEnd
  <1>9. Waiting' = Waiting \cup {b}
    BY <1>7, <1>8 DEF Waiting
  <1>10. /\ UNCHANGED <<Evaluated, Tagged, InHand, current, quit, forwarder, batchCh, loop>>
         /\ \A c : Seen(c)' = Seen(c)
    BY <1>3 DEF Evaluated, Tagged, InHand, Seen, forwarders, loop
  <1>11. QED
    BY <1>1, <1>4, <1>5, <1>6, <1>7, <1>8, <1>9, <1>10 DEF b

LEMMA SendStages ==
  ASSUME TypeOK, ManagerInv, OwnInv, OrderInv, CompleteInv, NEW s \in Streams, Send(s)
  PROVE  OwnInv' /\ OrderInv' /\ CompleteInv'
  <1> DEFINE b == pending[s]
  <1> HIDE DEF b
  <1>1. /\ b \in Batch /\ b.stream = s /\ b.number = sent[s][b.window] + 1
        /\ sent[s][b.window] \in Nat
        /\ sent'[s][b.window] = b.number
        /\ \A t \in Streams, w \in Windows :
             t # s \/ w # b.window => sent'[t][w] = sent[t][w]
        /\ out'[s] = Append(out[s], b) /\ out[s] \in Seq(Batch)
        /\ Range(out[s])' = Range(out[s]) \cup {b}
        /\ \A t \in Streams \ {s} : out'[t] = out[t]
        /\ Waiting' = Waiting \cup {b}
        /\ UNCHANGED <<Evaluated, Tagged, InHand, current, quit, forwarder, batchCh, calls>>
        /\ \A c : Seen(c)' = Seen(c)
    BY SendEffect DEF b, loop
  <1>2. Evaluated \subseteq Batch /\ OnWay \subseteq Batch /\ OnWay' = OnWay \cup {b}
    BY <1>1, StageType DEF OnWay
  <1>3. \A x \in Evaluated \cup OnWay : Below(x, b)
    <2> SUFFICES ASSUME NEW x \in Evaluated \cup OnWay, SameWindow(x, b) PROVE x.number < b.number
      BY DEF Below
    <2>1. x.number <= sent[s][b.window]
      BY <1>1 DEF OrderInv, SameWindow
    <2>2. x.number \in Nat
      BY <1>2, BatchType
    <2>3. QED
      BY <1>1, <2>1, <2>2
  <1>4. OwnInv'
    <2>1. ASSUME NEW t \in Streams, NEW x \in The(forwarder'[t]) \cup Range(out'[t])
          PROVE  x.stream = t
      <3>1. CASE t = s
        BY <1>1, <2>1, <3>1 DEF OwnInv, The
      <3>2. CASE t # s
        BY <1>1, <2>1, <3>2 DEF OwnInv, The
      <3>3. QED
        BY <3>1, <3>2
    <2>2. QED
      BY <1>1, <2>1 DEF OwnInv
  <1>5. OrderInv'
    <2>1. /\ Precede(Evaluated \cup The(current), Tagged \cup InHand \cup Waiting')
          /\ Precede(Tagged, InHand \cup Waiting')
          /\ Precede(InHand, Waiting')
      BY <1>1, <1>3 DEF OrderInv, Precede, OnWay
    <2>2. ASSUME NEW t \in Streams PROVE Rising(out'[t])
      <3>1. CASE t = s
        <4>1. Precede(Range(out[s]), {b}) /\ Rising(out[s])
          BY <1>3 DEF Precede, OnWay, Waiting, OrderInv
        <4>2. QED
          BY <1>1, <3>1, <4>1, RisingAppend
      <3>2. CASE t # s
        BY <1>1, <3>2 DEF OrderInv
      <3>3. QED
        BY <3>1, <3>2
    <2>3. ASSUME NEW x \in Evaluated \cup OnWay'
          PROVE  x.number <= sent'[x.stream][x.window]
      <3>1. CASE x = b
        BY <1>1, <3>1
      <3>2. CASE x \in Evaluated \cup OnWay
        <4>1. x \in Batch /\ x.number <= sent[x.stream][x.window]
          BY <1>2, <3>2 DEF OrderInv
        <4>2. x.stream \in Streams /\ x.window \in Windows /\ x.number \in Nat
          BY <4>1, BatchType
        <4>3. QED
          BY <1>1, <4>1, <4>2
      <3>3. QED
        BY <1>2, <2>3, <3>1, <3>2
    <2>4. QED
      BY <1>1, <2>1, <2>2, <2>3 DEF OrderInv
  <1>6. CompleteInv'
    <2> SUFFICES ASSUME NEW x \in Batch, ~Done(x)', x \notin OnWay'
                 PROVE  /\ x.stream \notin quit => x.number > sent'[x.stream][x.window]
                        /\ Precede(The(current) \cup Tagged \cup InHand, {x})
      BY <1>1 DEF CompleteInv
    <2>1. ~Done(x) /\ x \notin OnWay /\ x # b
      BY <1>1, <1>2 DEF Done
    <2>2. /\ x.stream \notin quit => x.number > sent[x.stream][x.window]
          /\ Precede(The(current) \cup Tagged \cup InHand, {x})
      BY <2>1 DEF CompleteInv
    <2>3. ASSUME x.stream \notin quit PROVE x.number > sent'[x.stream][x.window]
      <3>1. CASE x.stream = s /\ x.window = b.window
        <4>1. x.number # b.number
          BY <1>1, <2>1, <3>1 DEF Batch
        <4>2. x.number \in Nat
          BY BatchType
        <4>3. QED
          BY <1>1, <2>2, <2>3, <3>1, <4>1, <4>2
      <3>2. CASE ~(x.stream = s /\ x.window = b.window)
        BY <1>1, <2>2, <2>3, <3>2, BatchType
      <3>3. QED
        BY <3>1, <3>2
    <2>4. QED
      BY <2>2, <2>3
  <1>7. QED
    BY <1>4, <1>5, <1>6

LEMMA TakeBatchStages ==
  ASSUME TypeOK, OwnInv, OrderInv, CompleteInv, NEW s \in Streams, TakeBatch(s)
  PROVE  OwnInv' /\ OrderInv' /\ CompleteInv'
  <1> DEFINE b == Head(out[s])
  <1>1. /\ out[s] \in Seq(Batch) /\ out[s] # <<>> /\ forwarder[s] = None
        /\ forwarder'[s] = b /\ out'[s] = Tail(out[s]) /\ s \notin quit
        /\ \A t \in Streams \ {s} : out'[t] = out[t] /\ forwarder'[t] = forwarder[t]
        /\ UNCHANGED <<sent, current, quit, batchCh, calls, evaluated>>
    BY DEF TakeBatch, ForwarderRuns, TypeOK, managers, loop
  <1>2. b \in Batch /\ Range(out[s]) = {b} \cup Range(Tail(out[s]))
    BY <1>1, TakeHead
  <1>3. Rising(Tail(out[s])) /\ Precede({b}, Range(Tail(out[s])))
    BY <1>1, RisingTail DEF OrderInv
  <1> HIDE DEF b
  <1>4. /\ Range(out[s]) = {b} \cup Range(out'[s]) /\ b # None
        /\ The(forwarder[s]) = {} /\ The(forwarder'[s]) = {b}
    BY <1>1, <1>2, BatchType DEF The
  <1>5. InHand' = InHand \cup {b} /\ Waiting = Waiting' \cup {b}
    BY <1>1, <1>4 DEF InHand, Waiting
  <1>6. /\ UNCHANGED <<Evaluated, Tagged, OnWay>>
        /\ \A c : Seen(c)' = Seen(c)
    BY <1>1, <1>5 DEF Evaluated, Tagged, OnWay, Seen
  <1>7. b.stream = s
    BY <1>4 DEF OwnInv
  <1>8. OwnInv'
    <2>1. ASSUME NEW t \in Streams, NEW x \in The(forwarder'[t]) \cup Range(out'[t])
          PROVE  x.stream = t
      <3>1. CASE t = s
        BY <1>4, <1>7, <2>1, <3>1 DEF OwnInv
      <3>2. CASE t # s
        BY <1>1, <2>1, <3>2 DEF OwnInv
      <3>3. QED
        BY <3>1, <3>2
    <2>2. QED
      BY <1>1, <1>6, <2>1 DEF OwnInv
  <1>9. Precede({b}, Waiting')
    <2> SUFFICES ASSUME NEW t \in Streams, NEW y \in Range(out'[t]) PROVE Below(b, y)
      BY DEF Precede, Waiting
    <2>1. CASE t = s
      BY <1>1, <1>3, <2>1 DEF Precede
    <2>2. CASE t # s
      BY <1>7, <1>8, <2>2 DEF OwnInv, Below, SameWindow
    <2>3. QED
      BY <2>1, <2>2
  <1>10. OrderInv'
    <2>1. /\ Precede(Evaluated \cup The(current), Tagged \cup InHand' \cup Waiting')
          /\ Precede(Tagged, InHand' \cup Waiting')
          /\ Precede(InHand', Waiting')
      BY <1>5, <1>9 DEF OrderInv, Precede
    <2>2. \A t \in Streams : Rising(out'[t])
      BY <1>1, <1>3 DEF OrderInv
    <2>3. QED
      BY <1>1, <1>6, <2>1, <2>2 DEF OrderInv
  <1>11. CompleteInv'
    <2> SUFFICES ASSUME NEW x \in Batch, ~Done(x)', x \notin OnWay'
                 PROVE  /\ x.stream \notin quit => x.number > sent[x.stream][x.window]
                        /\ Precede(The(current) \cup Tagged \cup InHand', {x})
      BY <1>1, <1>6 DEF CompleteInv
    <2>1. /\ x.stream \notin quit => x.number > sent[x.stream][x.window]
          /\ Precede(The(current) \cup Tagged \cup InHand, {x})
      BY <1>6 DEF CompleteInv, Done
    <2>2. Below(b, x)
      <3> SUFFICES ASSUME SameWindow(b, x) PROVE b.number < x.number
        BY DEF Below
      <3>1. x.number > sent[s][x.window] /\ x.stream = s /\ x.window = b.window
        BY <1>1, <1>7, <2>1 DEF SameWindow
      <3>2. b.number <= sent[s][b.window]
        BY <1>5, <1>7 DEF OrderInv, OnWay
      <3>3. b.number \in Nat /\ x.number \in Nat /\ sent[s][b.window] \in Nat
        BY <1>2, BatchType, PipelineAssumption DEF TypeOK
      <3>4. QED
        BY <3>1, <3>2, <3>3
    <2>3. QED
      BY <1>5, <2>1, <2>2 DEF Precede
  <1>12. QED
    BY <1>8, <1>10, <1>11

LEMMA HandOverStages ==
  ASSUME TypeOK, OwnInv, OrderInv, CompleteInv, NEW s \in Streams, HandOver(s)
  PROVE  OwnInv' /\ OrderInv' /\ CompleteInv'
  <1> DEFINE b == forwarder[s]
  <1>1. /\ b # None /\ batchCh' = Append(batchCh, b) /\ forwarder'[s] = None
        /\ \A t \in Streams \ {s} : forwarder'[t] = forwarder[t]
        /\ UNCHANGED <<sent, out, current, quit, calls, evaluated>>
    BY DEF HandOver, TypeOK, managers, loop
  <1>2. b \in Batch /\ batchCh \in Seq(Batch)
    BY <1>1 DEF TypeOK
  <1>3. Tagged' = Tagged \cup {b}
    BY <1>1, <1>2, AppendEnd DEF Tagged
  <1>4. The(forwarder[s]) = {b} /\ The(forwarder'[s]) = {}
    BY <1>1 DEF The
  <1> HIDE DEF b
  <1>5. InHand = InHand' \cup {b}
    BY <1>1, <1>4 DEF InHand
  <1>6. b.stream = s /\ \A y \in InHand' : y.stream # s
    BY <1>1, <1>4 DEF OwnInv, InHand
  <1>7. /\ UNCHANGED <<Evaluated, Waiting, OnWay>>
        /\ \A c : Seen(c)' = Seen(c)
    BY <1>1, <1>3, <1>5 DEF Evaluated, Waiting, OnWay, Seen
  <1>8. OwnInv'
    BY <1>1, <1>4, <1>7 DEF OwnInv
  <1>9. Precede({b}, InHand')
    BY <1>6 DEF Precede, Below, SameWindow
  <1>10. OrderInv'
    <2>1. /\ Precede(Evaluated \cup The(current), Tagged' \cup InHand' \cup Waiting)
          /\ Precede(Tagged', InHand' \cup Waiting)
          /\ Precede(InHand', Waiting)
      BY <1>3, <1>5, <1>9 DEF OrderInv, Precede
    <2>2. Rising(batchCh')
      BY <1>1, <1>2, <1>5, RisingAppend DEF OrderInv, Precede, Tagged
    <2>3. QED
      BY <1>1, <1>7, <2>1, <2>2 DEF OrderInv
  <1>11. CompleteInv'
    BY <1>1, <1>3, <1>5, <1>7 DEF CompleteInv, Done, Precede
  <1>12. QED
    BY <1>8, <1>10, <1>11

LEMMA ForwarderReturnsStages ==
  ASSUME TypeOK, OwnInv, OrderInv, CompleteInv, NEW s \in Streams, ForwarderReturns(s)
  PROVE  OwnInv' /\ OrderInv' /\ CompleteInv'
  <1>1. /\ forwarder'[s] = None /\ quit' = quit \cup {s}
        /\ \A t \in Streams \ {s} : forwarder'[t] = forwarder[t]
        /\ UNCHANGED <<sent, out, current, batchCh, calls, evaluated>>
    BY DEF ForwarderReturns, TypeOK, managers, loop
  <1>2. The(forwarder'[s]) = {}
    BY <1>1 DEF The
  <1>3. /\ InHand = InHand' \cup The(forwarder[s])
        /\ \A y \in InHand' : y.stream # s
        /\ \A y \in The(forwarder[s]) : y.stream = s
    BY <1>1, <1>2 DEF InHand, OwnInv
  <1>4. /\ UNCHANGED <<Evaluated, Tagged, Waiting>>
        /\ OnWay = OnWay' \cup The(forwarder[s])
        /\ \A c : Seen(c)' = Seen(c)
    BY <1>1, <1>3 DEF Evaluated, Tagged, Waiting, OnWay, Seen
  <1>5. OwnInv'
    BY <1>1, <1>2, <1>4 DEF OwnInv
  <1>6. OrderInv'
    BY <1>1, <1>3, <1>4 DEF OrderInv, Precede
  <1>7. CompleteInv'
    <2> SUFFICES ASSUME NEW x \in Batch, ~Done(x)', x \notin OnWay'
                 PROVE  /\ x.stream \notin quit' => x.number > sent[x.stream][x.window]
                        /\ Precede(The(current) \cup Tagged \cup InHand', {x})
      BY <1>1, <1>4 DEF CompleteInv
    <2>1. ~Done(x)
      BY <1>4 DEF Done
    <2>2. CASE x \notin OnWay
      BY <1>1, <1>3, <2>1, <2>2 DEF CompleteInv, Precede
    <2>3. CASE x \in The(forwarder[s])
      <3>1. x.stream = s /\ x \in InHand
        BY <1>3, <2>3
      <3>2. Precede(The(current) \cup Tagged, {x})
        BY <3>1 DEF OrderInv, Precede
      <3>3. Precede(InHand', {x})
        BY <1>3, <3>1 DEF Precede, Below, SameWindow
      <3>4. QED
        BY <1>1, <3>1, <3>2, <3>3 DEF Precede
    <2>4. QED
      BY <1>4, <2>2, <2>3
  <1>8. QED
    BY <1>5, <1>6, <1>7

LEMMA TakeTaggedStages ==
  ASSUME TypeOK, OwnInv, LoopInv, OrderInv, CompleteInv, TakeTagged
  PROVE  OwnInv' /\ OrderInv' /\ CompleteInv'
  <1> DEFINE b == Head(batchCh)
  <1>1. /\ current = None /\ calls = {}
        /\ batchCh \in Seq(Batch) /\ batchCh # <<>>
        /\ current' = b /\ b \in Batch /\ batchCh' = Tail(batchCh)
        /\ calls' \subseteq Call
        /\ Tagged = {b} \cup Tagged'
        /\ UNCHANGED <<out, forwarder, quit, sent, evaluated>>
    BY TakeTaggedEffect DEF managers, forwarders, Calls
  <1>2. Rising(batchCh') /\ Precede({b}, Tagged')
    BY <1>1, RisingTail DEF OrderInv, Tagged
  <1> HIDE DEF b
  <1>3. The(current) = {} /\ The(current') = {b}
    BY <1>1, BatchType DEF The
  <1>4. /\ UNCHANGED <<Evaluated, InHand, Waiting, OnWay>>
        /\ \A c : Seen(c)' = Seen(c)
    BY <1>1, <1>3 DEF Evaluated, InHand, Waiting, OnWay, Seen
  <1>5. OwnInv'
    BY <1>1, <1>4 DEF OwnInv
  <1>6. OrderInv'
    <2>1. /\ Precede(Evaluated \cup The(current'), Tagged' \cup InHand \cup Waiting)
          /\ Precede(Tagged', InHand \cup Waiting)
      BY <1>1, <1>2, <1>3 DEF OrderInv, Precede
    <2>2. \A c \in calls' : Precede(Seen(c), The(current'))
      BY <1>1, <1>3 DEF OrderInv, Precede, Evaluated
    <2>3. QED
      BY <1>1, <1>2, <1>4, <2>1, <2>2 DEF OrderInv
  <1>7. CompleteInv'
    BY <1>1, <1>3, <1>4 DEF CompleteInv, Done, Precede
  <1>8. QED
    BY <1>5, <1>6, <1>7

LEMMA EmitStages ==
  ASSUME TypeOK, OwnInv, LoopInv, OrderInv, CompleteInv, NEW c \in Call, Emit(c)
  PROVE  OwnInv' /\ OrderInv' /\ CompleteInv'
  <1> DEFINE b == current
  <1> HIDE DEF b
  <1>1. /\ b \in Batch /\ c \in calls /\ calls' = calls \ {c}
        /\ current' = IF calls' = {} THEN None ELSE b
        /\ Seen(c)' = Seen(c) \cup {b}
        /\ \A d \in Call \ {c} : Seen(d)' = Seen(d)
        /\ UNCHANGED <<out, forwarder, quit, batchCh, sent>>
    BY EmitEffect DEF managers, forwarders, b
  <1>2. /\ The(current) = {b} /\ The(current') \subseteq {b}
        /\ calls' # {} => The(current') = {b}
    BY <1>1, BatchType DEF The, b
  <1>3. /\ UNCHANGED <<Tagged, InHand, Waiting>>
        /\ Evaluated' = Evaluated \cup {b}
        /\ OnWay' \subseteq OnWay /\ OnWay \subseteq OnWay' \cup {b}
        /\ calls' # {} => OnWay' = OnWay
    BY <1>1, <1>2 DEF Tagged, InHand, Waiting, Evaluated, OnWay
  <1>4. /\ c \in Calls(b.stream) /\ calls \subseteq Calls(b.stream)
        /\ \A d \in Calls(b.stream) \ calls : b \in Seen(d)
    BY <1>1, BatchType DEF LoopInv, b
  <1>5. b.stream = StreamKey(Rules[c.rule])
    BY <1>1, <1>4, BatchType, CallType
  <1>6. OwnInv'
    BY <1>1, <1>5 DEF OwnInv
  <1>7. OrderInv'
    <2>1. /\ Precede(Evaluated' \cup The(current'), Tagged \cup InHand \cup Waiting)
          /\ \A x \in Evaluated' \cup OnWay' : x.number <= sent[x.stream][x.window]
      BY <1>2, <1>3 DEF OrderInv, Precede, OnWay
    <2>2. ASSUME NEW d \in calls' PROVE Precede(Seen(d)', The(current'))
      <3>1. d \in calls /\ d # c /\ d \in Call
        BY <1>1, <2>2 DEF TypeOK
      <3>2. QED
        BY <1>1, <1>2, <3>1 DEF OrderInv, Precede
    <2>3. QED
      BY <1>1, <1>3, <2>1, <2>2 DEF OrderInv
  <1>8. CompleteInv'
    <2>1. ASSUME NEW x \in Batch, Done(x) PROVE Done(x)'
      BY <1>1, <2>1 DEF Done, Calls
    <2>2. ASSUME NEW x \in Batch, x = b, calls' = {} PROVE Done(x)'
      <3>1. \A d \in Calls(x.stream) : d = c \/ x \in Seen(d)
        BY <1>1, <1>4, <2>2
      <3>2. \A d \in Calls(x.stream) : x \in Seen(d)'
        BY <1>1, <2>2, <3>1 DEF Calls
      <3>3. QED
        BY <3>2 DEF Done, Calls
    <2>3. ASSUME NEW x \in Batch, x \in OnWay PROVE Done(x)' \/ x \in OnWay'
      BY <1>3, <2>2, <2>3
    <2>4. \A x : Precede(The(current) \cup Tagged \cup InHand, {x})
                 => Precede(The(current') \cup Tagged \cup InHand, {x})
      BY <1>2 DEF Precede
    <2>5. QED
      BY <1>1, <1>3, <2>1, <2>3, <2>4 DEF CompleteInv
  <1>9. QED
    BY <1>6, <1>7, <1>8

LEMMA NextStages == IInv /\ [Next]_vars => OwnInv' /\ OrderInv' /\ CompleteInv'
  BY StageSteps, QuietStays, SendStages, TakeBatchStages, HandOverStages,
     ForwarderReturnsStages, TakeTaggedStages, EmitStages DEF IInv

-----------------------------------------------------------------------------
(***************************************************************************)
(* What is evaluated.                                                      *)
(***************************************************************************)

\* The current batch is the next of its window for each call that is still to be made.
LEMMA CurrentIsNext ==
  ASSUME IInv, NEW c \in calls
  PROVE  {evaluated[c][j].number :
            j \in {j \in 1..Len(evaluated[c]) : SameWindow(evaluated[c][j], current)}}
         = 1..(current.number - 1)
  <1> DEFINE b == current
  <1>1. /\ b \in Batch /\ c \in Call /\ c \in Calls(b.stream)
        /\ evaluated[c] \in Seq(Batch)
    BY DEF IInv, LoopInv, TypeOK
  <1>2. b \in The(current) /\ b.number \in Nat \ {0} /\ MaxBatches \in Nat
        /\ b.number \in 1..MaxBatches
    BY <1>1, BatchType, PipelineAssumption DEF The
  <1>3. /\ DOMAIN evaluated[c] = 1..Len(evaluated[c])
        /\ Seen(c) = {evaluated[c][j] : j \in 1..Len(evaluated[c])}
        /\ Seen(c) \subseteq Batch
    BY <1>1, LenProperties DEF Seen, Range
  <1> HIDE DEF b
  <1>4. ASSUME NEW x \in Seen(c), SameWindow(x, b) PROVE x.number \in 1..(b.number - 1)
    <2>1. x.number < b.number
      BY <1>2, <1>4 DEF IInv, OrderInv, Precede, Below
    <2>2. x.number \in 1..MaxBatches
      BY <1>3, BatchType
    <2>3. QED
      BY <1>2, <2>1, <2>2
  <1>5. ASSUME NEW n \in 1..(b.number - 1)
        PROVE  \E x \in Seen(c) : SameWindow(x, b) /\ x.number = n
    <2> DEFINE x == [b EXCEPT !.number = n]
    <2>1. /\ x \in Batch /\ x.number = n /\ x.stream = b.stream
          /\ SameWindow(x, b) /\ SameWindow(b, x)
      BY <1>1, <1>2 DEF Batch, SameWindow
    <2> HIDE DEF x
    <2>2. ~Below(b, x)
      BY <1>2, <2>1 DEF Below
    <2>3. Done(x) \/ x \in OnWay
      BY <1>2, <2>1, <2>2 DEF IInv, CompleteInv, Precede
    <2>4. x \notin Tagged \cup InHand \cup Waiting
      BY <1>2, <2>2 DEF IInv, OrderInv, Precede
    <2>5. x \notin The(current)
      BY <1>2, <2>1 DEF The, b
    <2>6. Done(x)
      BY <2>3, <2>4, <2>5 DEF OnWay
    <2>7. x \in Seen(c)
      BY <1>1, <2>1, <2>6 DEF Done
    <2>8. QED
      BY <2>1, <2>7
  <1>6. QED
    BY <1>3, <1>4, <1>5 DEF b

LEMMA NextInOrder == IInv /\ [Next]_vars => EvaluatedInOrder'
  <1> DEFINE Earlier(q, i) == {j \in 1..(i - 1) : SameWindow(q[j], q[i])}
             InOrder(q, i) == {q[j].number : j \in Earlier(q, i)} = 1..(q[i].number - 1)
  <1> SUFFICES ASSUME IInv, [Next]_vars,
                      NEW c \in Call, NEW i \in DOMAIN evaluated'[c]
               PROVE  InOrder(evaluated'[c], i)
    BY DEF EvaluatedInOrder
  <1>1. \A j \in DOMAIN evaluated[c] : InOrder(evaluated[c], j)
    BY DEF IInv, EvaluatedInOrder
  <1>2. CASE evaluated'[c] = evaluated[c]
    BY <1>1, <1>2
  <1>3. CASE Emit(c)
    <2>1. /\ c \in calls /\ current \in Batch
          /\ evaluated'[c] = Append(evaluated[c], current)
          /\ evaluated[c] \in Seq(Batch)
      BY <1>3, EmitEffect DEF IInv, TypeOK
    <2> DEFINE q == evaluated[c]
               r == evaluated'[c]
    <2>2. /\ Len(q) \in Nat /\ DOMAIN q = 1..Len(q)
          /\ DOMAIN r = 1..(Len(q) + 1) /\ r[Len(q) + 1] = current
          /\ \A j \in 1..Len(q) : r[j] = q[j]
      BY <2>1, AppendProperties, LenProperties
    <2>3. {q[j].number : j \in {j \in 1..Len(q) : SameWindow(q[j], current)}}
          = 1..(current.number - 1)
      BY <2>1, CurrentIsNext
    <2> HIDE DEF q, r
    <2>4. CASE i = Len(q) + 1
      <3>1. r[i] = current /\ i - 1 = Len(q)
        BY <2>2, <2>4
      <3>2. Earlier(r, i) = {j \in 1..Len(q) : SameWindow(q[j], current)}
        BY <2>2, <3>1
      <3>3. {r[j].number : j \in Earlier(r, i)} = {q[j].number : j \in Earlier(r, i)}
        BY <2>2, <3>1
      <3>4. InOrder(r, i)
        BY <2>3, <3>1, <3>2, <3>3
      <3>5. QED
        BY <3>4 DEF r
    <2>5. CASE i # Len(q) + 1
      <3>1. i \in 1..Len(q) /\ r[i] = q[i] /\ InOrder(q, i)
        BY <1>1, <2>2, <2>5 DEF q, r
      <3>2. \A j \in 1..(i - 1) : j \in 1..Len(q) /\ r[j] = q[j]
        BY <2>2, <3>1
      <3>3. Earlier(r, i) = Earlier(q, i)
        BY <3>1, <3>2
      <3>4. {r[j].number : j \in Earlier(r, i)} = {q[j].number : j \in Earlier(q, i)}
        BY <3>2, <3>3
      <3>5. InOrder(r, i)
        BY <3>1, <3>4
      <3>6. QED
        BY <3>5 DEF r
    <2>6. QED
      BY <2>4, <2>5
  <1>4. evaluated'[c] = evaluated[c] \/ Emit(c)
    <2>1. ASSUME NEW d \in Call, Emit(d) PROVE d = c \/ evaluated'[c] = evaluated[c]
      BY <2>1, EmitEffect DEF IInv, TypeOK
    <2>2. QED
      BY <2>1, LoopStays DEF TakeTagged, loop
  <1>5. QED
    BY <1>2, <1>3, <1>4

-----------------------------------------------------------------------------
(***************************************************************************)
(* The theorems.                                                           *)
(***************************************************************************)

LEMMA InitHolds == Init => IInv
  <1> SUFFICES ASSUME Init PROVE IInv
    OBVIOUS
  <1>1. /\ MaxBatches \in Nat \ {0} /\ OutCap \in Nat \ {0} /\ BatchCap \in Nat \ {0}
    BY PipelineAssumption
  <1>2. Range(<<>>) = {}
    BY DEF Range
  <1>3. TypeOK
    <2>1. /\ manager \in [Streams -> {"none", "idle", "flush", "correct", "returned"}]
          /\ pending \in [Streams -> Batch \cup {None}]
          /\ open \in [Streams -> SUBSET Windows]
          /\ sent \in [Streams -> [Windows -> 0..MaxBatches]]
          /\ forwarder \in [Streams -> Batch \cup {None}]
      BY <1>1 DEF Init
    <2>2. out \in [Streams -> Seq(Batch)] /\ \A s \in Streams : Len(out[s]) <= OutCap
      BY <1>1 DEF Init
    <2>3. batchCh \in Seq(Batch) /\ Len(batchCh) <= BatchCap
      BY <1>1 DEF Init
    <2>4. evaluated \in [Call -> Seq(Batch)]
      BY DEF Init
    <2>5. cancelled \in BOOLEAN
      BY DEF Init
    <2>6. /\ engine \in {"starting", "running", "failed", "returned"}
          /\ started \subseteq Streams /\ quit \subseteq started
          /\ current \in Batch \cup {None} /\ calls \subseteq Call
      BY DEF Init
    <2>7. QED
      BY <2>1, <2>2, <2>3, <2>4, <2>5, <2>6 DEF TypeOK
  <1>4. /\ \A c \in Call : Seen(c) = {} /\ evaluated[c] = <<>>
        /\ \A s \in Streams : out[s] = <<>> /\ Range(out[s]) = {} /\ The(forwarder[s]) = {}
        /\ Evaluated = {} /\ Tagged = {} /\ InHand = {} /\ Waiting = {} /\ The(current) = {}
    BY <1>2 DEF Init, Seen, Evaluated, Tagged, InHand, Waiting, The
  <1>5. OwnInv
    BY <1>4 DEF OwnInv
  <1>6. ManagerInv
    BY <1>1 DEF Init, ManagerInv
  <1>7. LoopInv
    BY DEF Init, LoopInv
  <1>8. OrderInv
    <2>1. Rising(<<>>)
      BY DEF Rising
    <2>2. batchCh = <<>> /\ calls = {}
      BY DEF Init
    <2>3. QED
      BY <1>4, <2>1, <2>2 DEF OrderInv, Precede, OnWay
  <1>9. CompleteInv
    <2>1. ASSUME NEW x \in Batch PROVE x.number > sent[x.stream][x.window]
      BY BatchType DEF Init
    <2>2. QED
      BY <1>4, <2>1 DEF CompleteInv, Precede
  <1>10. EvaluatedInOrder
    BY <1>4 DEF EvaluatedInOrder
  <1>11. QED
    BY <1>3, <1>5, <1>6, <1>7, <1>8, <1>9, <1>10 DEF IInv

\* The inductive invariant: where the batches of each window are between the Manager and
\* the calls of Emit, in which order, and that none is missing.
THEOREM Invariance == Spec => []IInv
  <1>1. IInv /\ [Next]_vars => IInv'
    BY NextTyped, NextManager, NextLoop, NextStages, NextInOrder DEF IInv
  <1>2. QED
    BY InitHolds, <1>1, PTL DEF Spec

\* The engine keeps its data in its types: the channels their capacities, a batch the
\* number that its window allows.
THEOREM TypeCorrect == Spec => []TypeOK
  <1>1. IInv => TypeOK
    BY DEF IInv
  <1>2. QED
    BY Invariance, <1>1, PTL

\* engine.Run: however many streams share batchCh, each notifier sees for each rule the
\* batches of a window in the order in which they were sent, none twice, none left out.
THEOREM BatchesComeInOrder == Spec => []EvaluatedInOrder
  <1>1. IInv => EvaluatedInOrder
    BY DEF IInv
  <1>2. QED
    BY Invariance, <1>1, PTL

=============================================================================
