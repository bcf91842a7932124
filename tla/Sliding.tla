------------------------------- MODULE Sliding -------------------------------
(***************************************************************************)
(* The SlidingManager of internal/window/sliding.go, from the start of its *)
(* Run to its end.  It has no store, so that one life of the process is    *)
(* all there is to tell; an event belongs to several windows at once, and  *)
(* a window that was flushed is never opened again.                        *)
(*                                                                         *)
(* As in Tumbling a bucket is a set of events, and an absent map entry the *)
(* empty set.  add touches memory only, and is one step.                   *)
(***************************************************************************)
EXTENDS Integers, Sequences, FiniteSets

CONSTANTS
  Ids,          \* identities of the receipts of an envelope (bounds a run)
  Timestamps,   \* the event timestamps, in whole unix seconds
  Groups,       \* the values of the group_by key
  Second,       \* clock units in one second
  Size,         \* window size, in clock units
  Slide,        \* slide interval, in clock units
  OutCap,       \* capacity of the out channel
  MaxNow,       \* bound: the wall clock stops there
  None          \* no event

ASSUME SlidingAssumption ==
  /\ Timestamps \subseteq Nat
  /\ Second \in Nat \ {0}
  /\ Size \in Nat \ {0}
  /\ Slide \in Nat \ {0}
  /\ OutCap \in Nat \ {0}
  /\ MaxNow \in Nat

\* NewSlidingManager's count: how many windows add touches for an event.
Count == Size \div Slide

\* ts.Truncate(slide)
Base(ts) == (ts * Second) - ((ts * Second) % Slide)

\* Mutant of WindowsOf: the first of the windows is left out.
WindowsOfButFirst(ts) == {Base(ts) - (i * Slide) : i \in 1..(Count - 1)}

\* The starts of the windows that add visits.
WindowsOf(ts) == {Base(ts) - (i * Slide) : i \in 0..(Count - 1)}

\* The starts of all the windows [start, start + Size) that hold the instant.
Covering(ts) ==
  {s \in {Base(ts) - (i * Slide) : i \in 0..(Size \div Slide)} : ts * Second < s + Size}

Event == [id : Ids, ts : Timestamps, grp : Groups]
Key   == [grp : Groups, start : UNION {WindowsOf(ts) \cup Covering(ts) : ts \in Timestamps}]
Batch == [key : Key, events : SUBSET Event]

ASSUME NoneIsNoEvent == None \notin Event

VARIABLES
  pc,         \* where the Manager's goroutine is
  cur,        \* the event that was added and is not acked yet
  todo,       \* keys closeExpired still has to flush
  windows,    \* m.windows
  closedK,    \* m.closedK
  maxTS,      \* m.maxTS
  out,        \* the out channel
  now,        \* the wall clock
  cancelled,  \* has the context been cancelled?
  received,   \* history: ids received
  inOrder,    \* history: events that came in order, and the clock at that time
  emitted     \* history: the batches sent on out

memory  == <<windows, closedK, maxTS>>
world   == <<now, cancelled>>
history == <<received, inOrder, emitted>>
vars    == <<pc, cur, todo, memory, out, world, history>>

End(k)     == k.start + Size
EndUnix(k) == End(k) \div Second
Watermark  == maxTS

TypeOK ==
  /\ pc \in {"idle", "ack", "closing", "stopped"}
  /\ cur \in Event \cup {None}
  /\ todo \subseteq Key
  /\ windows \in [Key -> SUBSET Event]
  /\ closedK \subseteq Key
  /\ maxTS \in Int
  /\ out \in Seq(Batch) /\ Len(out) <= OutCap
  /\ now \in 0..MaxNow
  /\ cancelled \in BOOLEAN
  /\ received \subseteq Ids
  /\ inOrder \subseteq [event : Event, at : 0..MaxNow]
  /\ emitted \subseteq Batch

Init ==
  /\ pc = "idle" /\ cur = None /\ todo = {}
  /\ windows = [k \in Key |-> {}]
  /\ closedK = {}
  /\ maxTS = 0
  /\ out = <<>>
  /\ now = 0 /\ cancelled = FALSE
  /\ received = {} /\ inOrder = {} /\ emitted = {}

-----------------------------------------------------------------------------
\* The windows that take the event: not before the watermark, not flushed yet.
Takes(e, wm) ==
  {k \in Key : /\ k.grp = e.grp
               /\ k.start \in WindowsOf(e.ts)
               /\ EndUnix(k) >= wm
               /\ k \notin closedK}

\* Run takes an envelope and adds its event to every window that takes it.
Add(e) ==
  LET ts == IF e.ts > maxTS THEN e.ts ELSE maxTS IN
  /\ pc = "idle"
  /\ e.id \notin received
  /\ received' = received \cup {e.id}
  /\ maxTS' = ts
  /\ windows' = [k \in Key |-> IF k \in Takes(e, ts) THEN windows[k] \cup {e} ELSE windows[k]]
  /\ cur' = e
  /\ pc' = "ack"
  /\ inOrder' = IF e.ts >= maxTS THEN inOrder \cup {[event |-> e, at |-> now]} ELSE inOrder
  /\ UNCHANGED <<todo, closedK, out, world, emitted>>

\* env.Ack(), whether or not any window took the event.
Ack ==
  /\ pc = "ack"
  /\ cur' = None
  /\ pc' = "idle"
  /\ UNCHANGED <<todo, memory, out, world, history>>

\* Mutant of Expired: no processing-time fallback.
ExpiredByWatermarkOnly(k) == EndUnix(k) <= Watermark

Expired(k) == EndUnix(k) <= Watermark \/ now >= End(k)

\* A tick: closeExpired walks the open windows, in an arbitrary order.
Tick ==
  /\ pc = "idle"
  /\ todo' = {k \in Key : windows[k] # {} /\ Expired(k)}
  /\ pc' = "closing"
  /\ UNCHANGED <<cur, memory, out, world, history>>

\* Mutant of HasRoom: the out channel is never full.
AlwaysRoom == TRUE

HasRoom == Len(out) < OutCap

\* Mutant of Remembered: the key of a flushed window is forgotten.
Forgotten(k) == {}

\* What closedK takes up when a window is flushed.
Remembered(k) == {k}

\* The batch is sent when the out channel has room, and the window is done with.
CloseWindow(k) ==
  /\ pc = "closing"
  /\ k \in todo
  /\ HasRoom
  /\ out' = Append(out, [key |-> k, events |-> windows[k]])
  /\ emitted' = emitted \cup {[key |-> k, events |-> windows[k]]}
  /\ windows' = [windows EXCEPT ![k] = {}]
  /\ closedK' = closedK \cup Remembered(k)
  /\ todo' = todo \ {k}
  /\ UNCHANGED <<pc, cur, maxTS, world, received, inOrder>>

\* closeExpired returns: all is flushed, or the context is done.
EndTick ==
  /\ pc = "closing"
  /\ todo = {} \/ cancelled
  /\ todo' = {}
  /\ pc' = "idle"
  /\ UNCHANGED <<cur, memory, out, world, history>>

\* The engine's forwarder takes a batch.
Forward ==
  /\ out # <<>>
  /\ out' = Tail(out)
  /\ UNCHANGED <<pc, cur, todo, memory, world, history>>

AdvanceClock ==
  /\ now < MaxNow
  /\ now' = now + 1
  /\ UNCHANGED <<pc, cur, todo, memory, out, cancelled, history>>

Cancel ==
  /\ ~cancelled
  /\ cancelled' = TRUE
  /\ UNCHANGED <<pc, cur, todo, memory, out, now, history>>

\* Run sees ctx.Done and returns.
Return ==
  /\ pc = "idle"
  /\ cancelled
  /\ pc' = "stopped"
  /\ UNCHANGED <<cur, todo, memory, out, world, history>>

-----------------------------------------------------------------------------
CloseExpired == (\E k \in Key : CloseWindow(k)) \/ EndTick

Next ==
  \/ \E e \in Event : Add(e)
  \/ Ack
  \/ Tick
  \/ CloseExpired
  \/ Forward
  \/ AdvanceClock
  \/ Cancel
  \/ Return

Spec == Init /\ [][Next]_vars

\* The goroutine keeps running, its ticker keeps firing, time passes and the reader of
\* out reads.  Nobody has to send events, and the context need not be cancelled.
FairSpec ==
  /\ Spec
  /\ WF_vars(Ack)
  /\ WF_vars(Tick)
  /\ WF_vars(CloseExpired)
  /\ WF_vars(Forward)
  /\ WF_vars(AdvanceClock)

-----------------------------------------------------------------------------
(***************************************************************************)
(* Properties.                                                             *)
(***************************************************************************)

\* A window is emitted at most once in the life of the process: closedK keeps a late
\* event from opening it again (add, closeExpired).
EmittedOnce ==
  \A b, c \in emitted : b.key = c.key => b = c

\* An event that comes in order, no earlier than any before it, is counted in each
\* window that holds its timestamp, be it open or emitted, unless the clock had
\* passed the end of that window when the event came ("each event belongs to
\* size/slide windows simultaneously").
InOrderIsComplete ==
  \A r \in inOrder : \A s \in Covering(r.event.ts) :
    LET k == [grp |-> r.event.grp, start |-> s] IN
    \/ r.event \in windows[k]
    \/ \E b \in emitted : b.key = k /\ r.event \in b.events
    \/ r.at >= End(k)

\* What an open window holds is emitted in the end, unless the context is cancelled.
HeldIsEmitted ==
  \A k \in Key :
    windows[k] # {} ~> cancelled \/ \E b \in emitted : b.key = k

=============================================================================
