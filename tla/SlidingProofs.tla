---------------------------- MODULE SlidingProofs ----------------------------
(***************************************************************************)
(* What holds of Sliding for any windows, events and clock.  That a window *)
(* is emitted once rests on closedK, which holds what was emitted and      *)
(* nothing that is open.  That an event in order finds all its windows     *)
(* open rests on the reason for which a window is closed: the watermark,   *)
(* which such an event has not passed, or the clock.                       *)
(***************************************************************************)
EXTENDS Sliding, TLAPS

\* What closeExpired has still to flush is open, and expired.
TodoInv ==
  /\ todo # {} => pc = "closing"
  /\ \A k \in todo : windows[k] # {} /\ Expired(k)

\* What was flushed is in closedK, expired, and not open again.
ClosedInv ==
  /\ \A b \in emitted : b.key \in closedK
  /\ \A k \in closedK : windows[k] = {} /\ Expired(k)

IInv ==
  /\ TypeOK
  /\ TodoInv
  /\ ClosedInv
  /\ EmittedOnce

\* Windows of whole seconds, of which the slide divides the size (SlideFits of
\* LoadConfig; sizes below a second are accepted, too).
EvenWindows == Slide % Second = 0 /\ Size % Slide = 0

-----------------------------------------------------------------------------
(***************************************************************************)
(* Instants and windows.                                                   *)
(***************************************************************************)

LEMMA DivMod ==
  ASSUME NEW a \in Int, NEW b \in Nat \ {0}
  PROVE  /\ a \div b \in Int
         /\ a % b \in 0..(b - 1)
         /\ a = b * (a \div b) + (a % b)
  OBVIOUS

LEMMA BaseType ==
  ASSUME NEW ts \in Timestamps
  PROVE  /\ ts \in Nat /\ ts * Second \in Nat
         /\ Base(ts) \in Int /\ Base(ts) <= ts * Second
         /\ Count \in Int
  <1>1. ts \in Nat /\ Second \in Nat \ {0} /\ Slide \in Nat \ {0} /\ Size \in Nat \ {0}
    BY SlidingAssumption
  <1>2. ts * Second \in Nat
    BY <1>1
  <1>3. (ts * Second) % Slide \in 0..(Slide - 1)
    BY <1>1, <1>2, DivMod
  <1>4. Size \div Slide \in Int
    BY <1>1, DivMod
  <1>5. QED
    BY <1>1, <1>2, <1>3, <1>4 DEF Base, Count

LEMMA KeyType ==
  /\ \A ts \in Timestamps : WindowsOf(ts) \cup Covering(ts) \subseteq Int
  /\ \A k \in Key : /\ k.grp \in Groups /\ k.start \in Int
                     /\ k = [grp |-> k.grp, start |-> k.start]
                     /\ End(k) \in Int /\ EndUnix(k) \in Int
  /\ \A e \in Event : /\ e.id \in Ids /\ e.ts \in Timestamps /\ e.ts \in Nat
                       /\ e.grp \in Groups /\ e # None
  <1>1. ASSUME NEW ts \in Timestamps PROVE WindowsOf(ts) \cup Covering(ts) \subseteq Int
    <2>1. Base(ts) \in Int /\ Count \in Int /\ Slide \in Int
      BY BaseType, SlidingAssumption
    <2>2. \A i \in Int : Base(ts) - (i * Slide) \in Int
      BY <2>1
    <2>3. QED
      BY <2>1, <2>2 DEF WindowsOf, Covering, Count
  <1>2. ASSUME NEW k \in Key
        PROVE  /\ k.grp \in Groups /\ k.start \in Int
               /\ k = [grp |-> k.grp, start |-> k.start]
               /\ End(k) \in Int /\ EndUnix(k) \in Int
    <2>1. k.grp \in Groups /\ k.start \in Int /\ k = [grp |-> k.grp, start |-> k.start]
      BY <1>1 DEF Key
    <2>2. End(k) \in Int
      BY <2>1, SlidingAssumption DEF End
    <2>3. EndUnix(k) \in Int
      BY <2>2, SlidingAssumption, DivMod DEF EndUnix
    <2>4. QED
      BY <2>1, <2>2, <2>3
  <1>3. QED
    BY <1>1, <1>2, SlidingAssumption, NoneIsNoEvent DEF Event

\* A window's reason to be expired persists.
LEMMA ExpiredStays ==
  ASSUME NEW k \in Key, Expired(k), maxTS \in Int, maxTS' \in Int, now \in Nat, now' \in Nat,
         maxTS <= maxTS', now <= now'
  PROVE  Expired(k)'
  BY KeyType DEF Expired, Watermark, End, EndUnix

-----------------------------------------------------------------------------
(***************************************************************************)
(* Invariance.                                                             *)
(***************************************************************************)

LEMMA InitHolds == Init => IInv
  <1> SUFFICES ASSUME Init PROVE IInv
    OBVIOUS
  <1>1. MaxNow \in Nat /\ OutCap \in Nat \ {0}
    BY SlidingAssumption
  <1>2. out \in Seq(Batch) /\ Len(out) <= OutCap
    BY <1>1 DEF Init
  <1>3. windows \in [Key -> SUBSET Event] /\ now \in 0..MaxNow
    BY <1>1 DEF Init
  <1>4. TypeOK
    <2>1. cur \in Event \cup {None}
      BY DEF Init
    <2>2. /\ todo \subseteq Key /\ closedK \subseteq Key /\ received \subseteq Ids
          /\ emitted \subseteq Batch /\ inOrder \subseteq [event : Event, at : 0..MaxNow]
      BY DEF Init
    <2>3. pc \in {"idle", "ack", "closing", "stopped"} /\ maxTS \in Int
      BY DEF Init
    <2>4. cancelled \in BOOLEAN
      BY DEF Init
    <2>5. QED
      BY <1>2, <1>3, <2>1, <2>2, <2>3, <2>4 DEF TypeOK
  <1>5. TodoInv /\ ClosedInv /\ EmittedOnce
    BY DEF Init, TodoInv, ClosedInv, EmittedOnce
  <1>6. QED
    BY <1>4, <1>5 DEF IInv

LEMMA AddTyped ==
  ASSUME TypeOK, NEW e \in Event, Add(e)
  PROVE  TypeOK' /\ maxTS <= maxTS' /\ now' = now
  <1> USE DEF Add, memory, world, history
  <1>1. e.ts \in Nat /\ e.id \in Ids /\ maxTS \in Int
    BY KeyType DEF TypeOK
  <1>2. maxTS' \in Int /\ maxTS <= maxTS'
    BY <1>1
  <1>3. windows' \in [Key -> SUBSET Event]
    BY DEF TypeOK
  <1>4. received' \subseteq Ids
    BY <1>1 DEF TypeOK
  <1>5. inOrder' \subseteq [event : Event, at : 0..MaxNow]
    BY DEF TypeOK
  <1>6. QED
    BY <1>2, <1>3, <1>4, <1>5 DEF TypeOK

LEMMA CloseWindowTyped ==
  ASSUME TypeOK, NEW k \in Key, CloseWindow(k)
  PROVE  TypeOK' /\ UNCHANGED <<maxTS, now>>
  <1> USE DEF CloseWindow, HasRoom, Remembered, memory, world, history
  <1> DEFINE batch == [key |-> k, events |-> windows[k]]
  <1>1. batch \in Batch
    BY DEF Batch, TypeOK
  <1>2. out \in Seq(Batch) /\ Len(out) < OutCap /\ Len(out) \in Nat /\ OutCap \in Nat
    BY SlidingAssumption DEF TypeOK
  <1>3. out' \in Seq(Batch) /\ Len(out') = Len(out) + 1
    <2>1. out' = Append(out, batch)
      OBVIOUS
    <2> HIDE DEF batch
    <2>2. QED
      BY <1>1, <1>2, <2>1
  <1>4. Len(out') <= OutCap
    BY <1>2, <1>3
  <1>5. emitted' \subseteq Batch
    BY <1>1 DEF TypeOK
  <1>6. QED
    BY <1>3, <1>4, <1>5 DEF TypeOK

LEMMA NextTyped ==
  ASSUME TypeOK, [Next]_vars
  PROVE  TypeOK' /\ maxTS <= maxTS' /\ now <= now'
  <1> USE DEF memory, world, history
  <1>1. /\ maxTS \in Int /\ now \in 0..MaxNow /\ MaxNow \in Nat
        /\ out \in Seq(Batch) /\ Len(out) <= OutCap /\ OutCap \in Nat
    BY SlidingAssumption DEF TypeOK
  <1>2. ASSUME NEW e \in Event, Add(e) PROVE TypeOK' /\ maxTS <= maxTS' /\ now <= now'
    BY <1>1, <1>2, AddTyped
  <1>3. CASE Ack
    BY <1>1, <1>3 DEF Ack, TypeOK
  <1>4. CASE Tick
    BY <1>1, <1>4 DEF Tick, TypeOK
  <1>5. ASSUME NEW k \in Key, CloseWindow(k) PROVE TypeOK' /\ maxTS <= maxTS' /\ now <= now'
    BY <1>1, <1>5, CloseWindowTyped
  <1>6. CASE EndTick
    BY <1>1, <1>6 DEF EndTick, TypeOK
  <1>7. CASE Forward
    <2>1. out' \in Seq(Batch) /\ Len(out') <= OutCap
      BY <1>1, <1>7 DEF Forward
    <2>2. QED
      BY <1>1, <1>7, <2>1 DEF Forward, TypeOK
  <1>8. CASE AdvanceClock
    BY <1>1, <1>8 DEF AdvanceClock, TypeOK
  <1>9. CASE Cancel
    BY <1>1, <1>9 DEF Cancel, TypeOK
  <1>10. CASE Return
    BY <1>1, <1>10 DEF Return, TypeOK
  <1>11. CASE UNCHANGED vars
    BY <1>1, <1>11 DEF vars, TypeOK
  <1>12. QED
    BY <1>2, <1>3, <1>4, <1>5, <1>6, <1>7, <1>8, <1>9, <1>10, <1>11 DEF Next, CloseExpired

\* The steps that change neither the windows nor what was emitted of them.
Idles == UNCHANGED <<windows, closedK, emitted>>

LEMMA StepsOfWindows ==
  ASSUME [Next]_vars
  PROVE  \/ \E e \in Event : Add(e)
         \/ \E k \in Key : CloseWindow(k)
         \/ Tick /\ Idles
         \/ Idles /\ (todo' = {} \/ UNCHANGED <<todo, pc>> \/ (pc # "closing" /\ UNCHANGED todo))
  BY DEF Next, vars, CloseExpired, Ack, Tick, EndTick, Forward, AdvanceClock, Cancel, Return,
         Idles, memory, world, history

LEMMA NextTodo == IInv /\ [Next]_vars => TodoInv'
  <1> SUFFICES ASSUME TypeOK, TodoInv, [Next]_vars PROVE TodoInv'
    BY DEF IInv
  <1>1. TypeOK' /\ maxTS <= maxTS' /\ now <= now'
    BY NextTyped
  <1>2. maxTS \in Int /\ maxTS' \in Int /\ now \in Nat /\ now' \in Nat /\ todo \subseteq Key
    BY <1>1, SlidingAssumption DEF TypeOK
  <1>3. \A k \in todo : Expired(k)'
    BY <1>1, <1>2, ExpiredStays DEF TodoInv
  <1>4. ASSUME NEW e \in Event, Add(e) PROVE TodoInv'
    BY <1>4 DEF Add, TodoInv, memory
  <1>5. ASSUME NEW k \in Key, CloseWindow(k) PROVE TodoInv'
    <2>1. todo' = todo \ {k} /\ pc = "closing" /\ pc' = pc
      BY <1>5 DEF CloseWindow
    <2>2. \A j \in todo' : windows'[j] = windows[j]
      BY <1>2, <1>5, <2>1 DEF CloseWindow, TypeOK
    <2>3. QED
      BY <1>3, <2>1, <2>2 DEF TodoInv
  <1>6. CASE Tick /\ Idles
    <2>1. todo' = {k \in Key : windows[k] # {} /\ Expired(k)} /\ pc' = "closing"
      BY <1>6 DEF Tick
    <2>2. \A k \in todo' : Expired(k)'
      BY <1>1, <1>2, <2>1, ExpiredStays
    <2>3. QED
      BY <1>6, <2>1, <2>2 DEF TodoInv, Idles
  <1>7. CASE Idles /\ todo' = {}
    BY <1>7 DEF TodoInv
  <1>8. CASE Idles /\ UNCHANGED <<todo, pc>>
    BY <1>3, <1>8 DEF TodoInv, Idles
  <1>9. CASE Idles /\ pc # "closing" /\ UNCHANGED todo
    BY <1>9 DEF TodoInv
  <1>10. QED
    BY <1>4, <1>5, <1>6, <1>7, <1>8, <1>9, StepsOfWindows

LEMMA NextClosed == IInv /\ [Next]_vars => ClosedInv' /\ EmittedOnce'
  <1> SUFFICES ASSUME TypeOK, TodoInv, ClosedInv, EmittedOnce, [Next]_vars
               PROVE  ClosedInv' /\ EmittedOnce'
    BY DEF IInv
  <1>1. TypeOK' /\ maxTS <= maxTS' /\ now <= now'
    BY NextTyped
  <1>2. /\ maxTS \in Int /\ maxTS' \in Int /\ now \in Nat /\ now' \in Nat
        /\ closedK \subseteq Key /\ todo \subseteq Key /\ windows \in [Key -> SUBSET Event]
    BY <1>1, SlidingAssumption DEF TypeOK
  <1>3. \A k \in closedK \cup todo : Expired(k)'
    BY <1>1, <1>2, ExpiredStays DEF TodoInv, ClosedInv
  <1>4. ASSUME NEW e \in Event, Add(e) PROVE ClosedInv' /\ EmittedOnce'
    <2>1. UNCHANGED <<closedK, emitted>>
      BY <1>4 DEF Add, history
    <2>2. \A k \in closedK : windows'[k] = windows[k]
      BY <1>2, <1>4 DEF Add, Takes
    <2>3. QED
      BY <1>3, <2>1, <2>2 DEF ClosedInv, EmittedOnce
  <1>5. ASSUME NEW k \in Key, CloseWindow(k) PROVE ClosedInv' /\ EmittedOnce'
    <2> DEFINE batch == [key |-> k, events |-> windows[k]]
    <2>1. /\ k \in todo /\ closedK' = closedK \cup {k}
          /\ emitted' = emitted \cup {batch}
          /\ windows' = [windows EXCEPT ![k] = {}]
      BY <1>5 DEF CloseWindow, Remembered
    <2>2. windows'[k] = {} /\ \A j \in closedK : windows'[j] = {}
      BY <1>2, <2>1 DEF ClosedInv
    <2>3. ClosedInv'
      BY <1>3, <2>1, <2>2 DEF ClosedInv
    <2>4. k \notin closedK
      BY <2>1 DEF TodoInv, ClosedInv
    <2>5. \A b \in emitted : b.key # batch.key
      BY <2>4 DEF ClosedInv
    <2> HIDE DEF batch
    <2>6. EmittedOnce'
      BY <2>1, <2>5 DEF EmittedOnce
    <2>7. QED
      BY <2>3, <2>6
  <1>6. CASE Idles
    BY <1>3, <1>6 DEF Idles, ClosedInv, EmittedOnce
  <1>7. QED
    BY <1>4, <1>5, <1>6, StepsOfWindows

\* The inductive invariant: what is closed was flushed for a reason that lasts.
THEOREM Invariance == Spec => []IInv
  <1>1. IInv /\ [Next]_vars => IInv'
    BY NextTyped, NextTodo, NextClosed DEF IInv
  <1>2. QED
    BY InitHolds, <1>1, PTL DEF Spec

\* The Manager's maps, its watermark and its out channel keep their types and bounds.
THEOREM TypeCorrect == Spec => []TypeOK
  <1>1. IInv => TypeOK
    BY DEF IInv
  <1>2. QED
    BY Invariance, <1>1, PTL

\* add and closeExpired: a window is emitted at most once, whatever comes late.
THEOREM WindowsAreEmittedOnce == Spec => []EmittedOnce
  <1>1. IInv => EmittedOnce
    BY DEF IInv
  <1>2. QED
    BY Invariance, <1>1, PTL

-----------------------------------------------------------------------------
(***************************************************************************)
(* What comes in order is in every window that holds it.                   *)
(***************************************************************************)

LEMMA DivExact ==
  ASSUME NEW q \in Int, NEW b \in Nat \ {0}
  PROVE  (b * q) \div b = q
  OBVIOUS

LEMMA MultipleLess ==
  ASSUME NEW a \in Int, NEW c \in Int, NEW b \in Nat \ {0}, a * b < b * c
  PROVE  a < c
  OBVIOUS

\* The windows that hold an instant are those add visits, and they end in a later
\* second.
LEMMA CoveringIsVisited ==
  ASSUME EvenWindows, NEW ts \in Timestamps, NEW s \in Covering(ts)
  PROVE  s \in WindowsOf(ts) /\ ts < (s + Size) \div Second
  <1> DEFINE q == (ts * Second) \div Slide
             p == Slide \div Second
  <1>1. /\ ts \in Nat /\ ts * Second \in Nat /\ Base(ts) \in Int
        /\ Base(ts) <= ts * Second /\ Count \in Int
        /\ Second \in Nat \ {0} /\ Slide \in Nat \ {0} /\ Size \in Nat \ {0}
    BY BaseType, SlidingAssumption
  <1>2. q \in Int /\ Base(ts) = Slide * q
    <2>1. q \in Int /\ ts * Second = Slide * q + ((ts * Second) % Slide)
      BY <1>1, DivMod
    <2>2. (ts * Second) % Slide \in Int /\ Slide * q \in Int
      BY <1>1, <2>1, DivMod
    <2> HIDE DEF q
    <2>3. QED
      BY <1>1, <2>1, <2>2 DEF Base
  <1>3. Size = Slide * Count
    BY <1>1, DivMod DEF EvenWindows, Count
  <1>4. p \in Int /\ Slide = Second * p
    BY <1>1, DivMod DEF EvenWindows
  <1> HIDE DEF q, p
  <1>5. PICK i \in 0..Count : s = Base(ts) - (i * Slide)
    BY DEF Covering, Count
  <1>6. ts * Second < s + Size
    BY DEF Covering
  <1>7. s + Size = Slide * (q - i + Count)
    BY <1>1, <1>2, <1>3, <1>5
  <1>8. i # Count
    <2> SUFFICES ASSUME i = Count PROVE FALSE
      OBVIOUS
    <2>1. s + Size = Slide * q
      BY <1>1, <1>2, <1>7
    <2>2. QED
      BY <1>1, <1>2, <1>6, <2>1
  <1>9. s \in WindowsOf(ts)
    BY <1>1, <1>5, <1>8 DEF WindowsOf
  <1> DEFINE u == p * (q - i + Count)
  <1>10. u \in Int /\ s + Size = Second * u
    <2>1. q - i + Count \in Int
      BY <1>1, <1>2
    <2>2. (Second * p) * (q - i + Count) = Second * (p * (q - i + Count))
      BY <1>1, <1>4, <2>1
    <2>3. QED
      BY <1>1, <1>4, <1>7, <2>1, <2>2
  <1> HIDE DEF u
  <1>11. (s + Size) \div Second = u
    BY <1>1, <1>10, DivExact
  <1>12. ts < u
    BY <1>1, <1>6, <1>10, MultipleLess
  <1>13. QED
    BY <1>9, <1>11, <1>12

\* add, closeExpired: an event in order finds all its windows open but those that the
\* clock has passed, if the slide divides the size and is of whole seconds.
THEOREM InOrderIsCounted ==
  ASSUME EvenWindows
  PROVE  Spec => []InOrderIsComplete
  <1>1. Init => InOrderIsComplete
    BY DEF Init, InOrderIsComplete
  <1>2. IInv /\ InOrderIsComplete /\ [Next]_vars => InOrderIsComplete'
    <2> SUFFICES ASSUME TypeOK, ClosedInv, InOrderIsComplete, [Next]_vars,
                        NEW r \in inOrder', NEW s \in Covering(r.event.ts)
                 PROVE  LET k == [grp |-> r.event.grp, start |-> s] IN
                          \/ r.event \in windows'[k]
                          \/ \E b \in emitted' : b.key = k /\ r.event \in b.events
                          \/ r.at >= End(k)
      BY DEF IInv, InOrderIsComplete
    <2> DEFINE k == [grp |-> r.event.grp, start |-> s]
    <2>1. /\ windows \in [Key -> SUBSET Event] /\ closedK \subseteq Key
          /\ maxTS \in Int /\ now \in Nat
          /\ inOrder \subseteq [event : Event, at : 0..MaxNow]
      BY SlidingAssumption DEF TypeOK
    <2>2. r.event \in Event
      BY NextTyped DEF TypeOK
    <2>3. k \in Key /\ k.grp = r.event.grp /\ k.start = s
      BY <2>2, KeyType DEF Key
    <2>4. CASE r \in inOrder
      <3>1. \/ r.event \in windows[k]
            \/ \E b \in emitted : b.key = k /\ r.event \in b.events
            \/ r.at >= End(k)
        BY <2>4 DEF InOrderIsComplete
      <3> HIDE DEF k
      <3>2. emitted \subseteq emitted'
        BY DEF Next, vars, CloseExpired, Add, CloseWindow, Ack, Tick, EndTick, Forward,
               AdvanceClock, Cancel, Return, memory, world, history
      <3>3. ASSUME r.event \in windows[k]
            PROVE  \/ r.event \in windows'[k]
                   \/ \E b \in emitted' : b.key = k /\ r.event \in b.events
        <4>1. ASSUME NEW e \in Event, Add(e) PROVE r.event \in windows'[k]
          BY <2>3, <3>3, <4>1 DEF Add
        <4>2. ASSUME NEW j \in Key, CloseWindow(j)
              PROVE  \/ r.event \in windows'[k]
                     \/ \E b \in emitted' : b.key = k /\ r.event \in b.events
          <5>1. CASE j = k
            BY <3>3, <4>2, <5>1 DEF CloseWindow
          <5>2. CASE j # k
            BY <2>1, <2>3, <3>3, <4>2, <5>2 DEF CloseWindow
          <5>3. QED
            BY <5>1, <5>2
        <4>3. CASE Idles
          BY <3>3, <4>3 DEF Idles
        <4>4. QED
          BY <4>1, <4>2, <4>3, StepsOfWindows
      <3>4. QED
        BY <3>1, <3>2, <3>3 DEF k
    <2>5. CASE r \notin inOrder
      <3>1. PICK e \in Event : Add(e)
        BY <2>5 DEF Next, vars, CloseExpired, CloseWindow, Ack, Tick, EndTick, Forward,
               AdvanceClock, Cancel, Return, memory, world, history
      <3>2. e.ts >= maxTS /\ r = [event |-> e, at |-> now]
        BY <2>5, <3>1 DEF Add
      <3>3. r.event = e /\ r.at = now
        BY <3>2
      <3>4. e.ts \in Timestamps /\ e.ts \in Nat /\ EndUnix(k) \in Int /\ End(k) \in Int
        BY <2>2, <2>3, <3>3, KeyType
      <3>5. s \in WindowsOf(e.ts) /\ e.ts < EndUnix(k)
        BY <2>3, <3>3, <3>4, CoveringIsVisited DEF EndUnix, End
      <3>6. CASE now >= End(k)
        BY <3>3, <3>6
      <3>7. CASE k \notin closedK
        <4>1. maxTS' = e.ts
          BY <2>1, <3>1, <3>2, <3>4 DEF Add
        <4>2. k \in Takes(e, maxTS')
          BY <2>3, <3>3, <3>4, <3>5, <3>7, <4>1 DEF Takes
        <4> HIDE DEF k
        <4>3. e \in windows'[k]
          BY <2>3, <3>1, <4>2 DEF Add
        <4>4. QED
          BY <3>3, <4>3 DEF k
      <3>8. CASE k \in closedK /\ ~(now >= End(k))
        <4>1. EndUnix(k) <= maxTS
          BY <3>8 DEF ClosedInv, Expired, Watermark
        <4>2. QED
          BY <2>1, <3>2, <3>4, <3>5, <4>1
      <3>9. QED
        BY <3>6, <3>7, <3>8
    <2>6. QED
      BY <2>4, <2>5
  <1>3. QED
    BY Invariance, <1>1, <1>2, PTL DEF Spec

=============================================================================
