------------------------------ MODULE Tumbling ------------------------------
(***************************************************************************)
(* The tumbling window Manager of internal/window/tumbling.go together     *)
(* with the window.Store it persists to (internal/store/badger.go).        *)
(*                                                                         *)
(* One goroutine owns the Manager's state: it takes an envelope from its   *)
(* input channel or a tick of its ticker, and finishes it before it takes  *)
(* the next.  What is not atomic is the outside world: the process may be  *)
(* killed between any two writes to the store, a send on the out channel   *)
(* blocks while the channel is full, and the wall clock moves on in the    *)
(* meantime.  `pc' names the points between those effects.                 *)
(*                                                                         *)
(* A bucket is the set of the events it holds; an absent map entry is the  *)
(* empty set, since the code creates a bucket and appends to it at once.   *)
(* Every receipt of an envelope is an event of its own, so a message that  *)
(* is redelivered and counted twice shows up as two events.                *)
(***************************************************************************)
EXTENDS Integers, Sequences, FiniteSets

CONSTANTS
  Ids,          \* identities of the receipts of an envelope (bounds a run)
  Timestamps,   \* the event timestamps, in whole unix seconds
  Groups,       \* the values of the group_by key
  Second,       \* clock units in one second
  Size,         \* window size, in clock units
  Lateness,     \* allowed lateness, in clock units
  OutCap,       \* capacity of the out channel
  StoreMayFail, \* may a write to the store return an error?
  MaxNow,       \* bound: the wall clock stops there
  MaxStops,     \* bound: how often the process is killed or told to stop
  None          \* no event, no key

ASSUME TumblingAssumption ==
  /\ Timestamps \subseteq Int
  /\ Second \in Nat \ {0}
  /\ Size \in Nat \ {0}
  /\ Lateness \in Nat
  /\ OutCap \in Nat \ {0}
  /\ StoreMayFail \in BOOLEAN
  /\ MaxNow \in Nat
  /\ MaxStops \in Nat

\* time.Unix(ts, 0).UTC().Truncate(size): the last multiple of the size.
StartOf(ts) == (ts * Second) - ((ts * Second) % Size)

Event == [id : Ids, ts : Timestamps, grp : Groups]
Key   == [grp : Groups, start : {StartOf(ts) : ts \in Timestamps}]
Batch == [key : Key, events : SUBSET Event, corrected : BOOLEAN]

ASSUME NoneAssumption == None \notin Event \cup Key

\* NewManager's empty maps.
NoBuckets == [k \in Key |-> {}]

KeyOf(e) == [grp |-> e.grp, start |-> StartOf(e.ts)]

VARIABLES
  pc,           \* where the Manager's goroutine is; "down" = no process
  cur,          \* the event add is working on
  flush,        \* the key closeExpired has sent and not yet saved
  todo,         \* keys closeExpired or gcClosed still has to handle
  tickAt,       \* the now that closeExpired was called with
  windows,      \* m.windows, open buckets
  closed,       \* m.closed, flushed buckets kept for late correction
  maxTS,        \* m.maxTS
  out,          \* the out channel
  disk,         \* persisted buckets: their events
  diskClosed,   \* persisted buckets whose Closed flag is set
  checkpoint,   \* persisted maxTS (0 stands for none found)
  now,          \* the wall clock
  cancelled,    \* has the context been cancelled?
  stops,        \* how often the process was killed or told to stop
  received,     \* history: ids received
  acked,        \* history: events whose Ack was called
  sent          \* history: events that were part of a batch sent on out

memory  == <<windows, closed, maxTS>>
store   == <<disk, diskClosed, checkpoint>>
control == <<pc, cur, flush, todo, tickAt>>
world   == <<now, cancelled, stops>>
history == <<received, acked, sent>>
vars    == <<control, memory, out, store, world, history>>

-----------------------------------------------------------------------------
(***************************************************************************)
(* Window arithmetic.  Window ends are instants in clock units; the        *)
(* watermark is in seconds, and the code compares it with end.Unix(),      *)
(* which drops the fraction of a second.                                   *)
(***************************************************************************)

End(k)        == k.start + Size
EndUnix(k)    == End(k) \div Second
LatenessSec   == Lateness \div Second
Watermark(ts) == ts - LatenessSec

\* Mutant of Expired: no processing-time fallback.
ExpiredByWatermarkOnly(k, at, wm) == EndUnix(k) <= wm

\* closeExpired: the watermark or the processing clock has passed the end.
Expired(k, at, wm) == EndUnix(k) <= wm \/ at >= End(k) + Lateness

\* Mutant of PastHorizon: the margin of gcClosed is that of closeExpired.
PastHorizonTooSoon(k, at, wm) == EndUnix(k) <= wm \/ at >= End(k) + Lateness

\* gcClosed: the correction horizon of the window has passed.
PastHorizon(k, at, wm) ==
  wm >= EndUnix(k) + LatenessSec \/ at >= End(k) + 2 * Lateness

\* add, third case: the window is already past the watermark.
PastWatermark(k) == EndUnix(k) <= Watermark(maxTS)

-----------------------------------------------------------------------------
(***************************************************************************)
(* The store.  Every caller ignores the error a write may return, so a     *)
(* failed write leaves the store as it was and the caller goes on.         *)
(***************************************************************************)

WriteOutcomes == IF StoreMayFail THEN BOOLEAN ELSE {TRUE}

\* Mutant of SaveCheckpoint: the watermark is kept in memory only.
SaveCheckpointForgotten(ts) == UNCHANGED store

SaveCheckpoint(ts) ==
  \E ok \in WriteOutcomes :
    /\ checkpoint' = IF ok THEN ts ELSE checkpoint
    /\ UNCHANGED <<disk, diskClosed>>

\* Mutant of Save: the Closed flag is not part of what is persisted.
SaveWithoutClosed(k, events, isClosed) ==
  /\ disk' = [disk EXCEPT ![k] = events]
  /\ UNCHANGED <<diskClosed, checkpoint>>

Save(k, events, isClosed) ==
  \E ok \in WriteOutcomes :
    /\ disk' = IF ok THEN [disk EXCEPT ![k] = events] ELSE disk
    /\ diskClosed' = IF ~ok THEN diskClosed
                     ELSE IF isClosed THEN diskClosed \cup {k}
                     ELSE diskClosed \ {k}
    /\ UNCHANGED checkpoint

Delete(k) ==
  \E ok \in WriteOutcomes :
    /\ disk' = IF ok THEN [disk EXCEPT ![k] = {}] ELSE disk
    /\ diskClosed' = IF ok THEN diskClosed \ {k} ELSE diskClosed
    /\ UNCHANGED checkpoint

\* Mutant of RestoredWindows and RestoredClosed: these buckets do not come back.
RestoredNothing == NoBuckets

\* What LoadAll and Restore make of the persisted buckets.
RestoredWindows == [k \in Key |-> IF k \in diskClosed THEN {} ELSE disk[k]]
RestoredClosed  == [k \in Key |-> IF k \in diskClosed THEN disk[k] ELSE {}]

-----------------------------------------------------------------------------
TypeOK ==
  /\ pc \in {"down", "idle", "append", "emit", "ack", "closing", "save", "gc"}
  /\ cur \in Event \cup {None}
  /\ flush \in Key \cup {None}
  /\ todo \subseteq Key
  /\ tickAt \in Nat
  /\ windows \in [Key -> SUBSET Event]
  /\ closed \in [Key -> SUBSET Event]
  /\ maxTS \in Int
  /\ out \in Seq(Batch)
  /\ Len(out) <= OutCap
  /\ disk \in [Key -> SUBSET Event]
  /\ diskClosed \subseteq Key
  /\ checkpoint \in Int
  /\ now \in Nat
  /\ cancelled \in BOOLEAN
  /\ stops \in Nat
  /\ received \subseteq Ids
  /\ acked \subseteq Event
  /\ sent \subseteq Event

\* The first start: NewManager, and Restore from an empty store.
Init ==
  /\ pc = "idle" /\ cur = None /\ flush = None /\ todo = {} /\ tickAt = 0
  /\ windows = NoBuckets
  /\ closed = NoBuckets
  /\ maxTS = 0
  /\ out = <<>>
  /\ disk = NoBuckets
  /\ diskClosed = {}
  /\ checkpoint = 0
  /\ now = 0 /\ cancelled = FALSE /\ stops = 0
  /\ received = {} /\ acked = {} /\ sent = {}

-----------------------------------------------------------------------------
(***************************************************************************)
(* Handling an envelope: Run's second case, add, append, emitBlocking and  *)
(* the Ack.                                                                *)
(***************************************************************************)

\* Run takes an envelope; add advances maxTS and checkpoints it.
Receive(e) ==
  /\ pc = "idle"
  /\ e.id \notin received
  /\ received' = received \cup {e.id}
  /\ cur' = e
  /\ IF e.ts > maxTS
     THEN maxTS' = e.ts /\ SaveCheckpoint(e.ts)
     ELSE UNCHANGED <<maxTS, store>>
  /\ pc' = "append"
  /\ UNCHANGED <<flush, todo, tickAt, windows, closed, out, world, acked, sent>>

\* The bucket the event goes to is open: the first or the last case of add.
AppendOpen ==
  LET k == KeyOf(cur) IN
  /\ pc = "append"
  /\ windows[k] # {} \/ (closed[k] = {} /\ ~PastWatermark(k))
  /\ windows' = [windows EXCEPT ![k] = @ \cup {cur}]
  /\ Save(k, windows'[k], FALSE)
  /\ pc' = "ack"
  /\ UNCHANGED <<cur, flush, todo, tickAt, closed, maxTS, out, world, history>>

\* The window is closed and still retained, or is past the watermark and not
\* known: the event goes to the closed bucket, which is then emitted again.
AppendLate ==
  LET k == KeyOf(cur) IN
  /\ pc = "append"
  /\ windows[k] = {}
  /\ closed[k] # {} \/ PastWatermark(k)
  /\ closed' = [closed EXCEPT ![k] = @ \cup {cur}]
  /\ Save(k, closed'[k], TRUE)
  /\ pc' = "emit"
  /\ UNCHANGED <<cur, flush, todo, tickAt, windows, maxTS, out, world, history>>

\* Mutant of HasRoom: the channel is never full.
AlwaysRoom == TRUE

HasRoom == Len(out) < OutCap

\* A send on the out channel, blocked while it is full.
Send(k, events, corrected) ==
  /\ HasRoom
  /\ out' = Append(out, [key |-> k, events |-> events, corrected |-> corrected])
  /\ sent' = sent \cup events

\* emitBlocking: the corrected batch.  It does not watch the context.
EmitCorrection ==
  /\ pc = "emit"
  /\ Send(KeyOf(cur), closed[KeyOf(cur)], TRUE)
  /\ pc' = "ack"
  /\ UNCHANGED <<cur, flush, todo, tickAt, memory, store, world, received, acked>>

\* env.Ack(), back in Run.
Ack ==
  /\ pc = "ack"
  /\ acked' = acked \cup {cur}
  /\ cur' = None
  /\ pc' = "idle"
  /\ UNCHANGED <<flush, todo, tickAt, memory, out, store, world, received, sent>>

-----------------------------------------------------------------------------
(***************************************************************************)
(* Handling a tick: closeExpired and gcClosed.  The maps are walked in an  *)
(* arbitrary order, as a range over a Go map is.                           *)
(***************************************************************************)

Tick ==
  /\ pc = "idle"
  /\ tickAt' = now
  /\ todo' = {k \in Key : windows[k] # {} /\ Expired(k, now, Watermark(maxTS))}
  /\ pc' = "closing"
  /\ UNCHANGED <<cur, flush, memory, out, store, world, history>>

\* The batch is sent; the bucket moves from windows to closed.
CloseWindow(k) ==
  /\ pc = "closing"
  /\ k \in todo
  /\ Send(k, windows[k], FALSE)
  /\ windows' = [windows EXCEPT ![k] = {}]
  /\ closed' = [closed EXCEPT ![k] = windows[k]]
  /\ flush' = k
  /\ todo' = todo \ {k}
  /\ pc' = "save"
  /\ UNCHANGED <<cur, tickAt, maxTS, store, world, received, acked>>

\* The Closed flag is persisted.
SaveClosed ==
  /\ pc = "save"
  /\ Save(flush, closed[flush], TRUE)
  /\ flush' = None
  /\ pc' = "closing"
  /\ UNCHANGED <<cur, todo, tickAt, memory, out, world, history>>

\* The context is done before the batch could be sent: return, without a gc.
AbortClose ==
  /\ pc = "closing"
  /\ todo # {}
  /\ cancelled
  /\ todo' = {} /\ tickAt' = 0
  /\ pc' = "idle"
  /\ UNCHANGED <<cur, flush, memory, out, store, world, history>>

\* Every expired window is flushed: gcClosed starts, with the same now.
StartGc ==
  /\ pc = "closing"
  /\ todo = {}
  /\ todo' = {k \in Key : closed[k] # {} /\ PastHorizon(k, tickAt, Watermark(maxTS))}
  /\ pc' = "gc"
  /\ UNCHANGED <<cur, flush, tickAt, memory, out, store, world, history>>

DropClosed(k) ==
  /\ pc = "gc"
  /\ k \in todo
  /\ closed' = [closed EXCEPT ![k] = {}]
  /\ Delete(k)
  /\ todo' = todo \ {k}
  /\ UNCHANGED <<pc, cur, flush, tickAt, windows, maxTS, out, world, history>>

EndTick ==
  /\ pc = "gc"
  /\ todo = {}
  /\ tickAt' = 0
  /\ pc' = "idle"
  /\ UNCHANGED <<cur, flush, todo, memory, out, store, world, history>>

-----------------------------------------------------------------------------
(***************************************************************************)
(* The environment: the reader of the out channel, the clock, the process. *)
(***************************************************************************)

\* The engine's forwarder takes a batch from the out channel.
Forward ==
  /\ out # <<>>
  /\ out' = Tail(out)
  /\ UNCHANGED <<control, memory, store, world, history>>

AdvanceClock ==
  /\ now < MaxNow
  /\ now' = now + 1
  /\ UNCHANGED <<control, memory, out, store, cancelled, stops, history>>

\* SIGINT or SIGTERM cancels the context; the goroutine is not waited for.
Cancel ==
  /\ pc # "down"
  /\ ~cancelled
  /\ stops < MaxStops
  /\ cancelled' = TRUE
  /\ stops' = stops + 1
  /\ UNCHANGED <<control, memory, out, store, now, history>>

\* The process ends: all that is in memory, the out channel included, is lost.
Stop ==
  /\ pc # "down"
  /\ pc' = "down" /\ cur' = None /\ flush' = None /\ todo' = {} /\ tickAt' = 0
  /\ windows' = NoBuckets
  /\ closed' = NoBuckets
  /\ maxTS' = 0
  /\ out' = <<>>
  /\ UNCHANGED <<store, now, history>>

Exit ==
  /\ cancelled
  /\ Stop
  /\ cancelled' = FALSE
  /\ UNCHANGED stops

Crash ==
  /\ stops < MaxStops
  /\ Stop
  /\ cancelled' = FALSE
  /\ stops' = stops + 1

\* A new process: NewManager, then Restore.
Restart ==
  /\ pc = "down"
  /\ pc' = "idle"
  /\ maxTS' = checkpoint
  /\ windows' = RestoredWindows
  /\ closed' = RestoredClosed
  /\ UNCHANGED <<cur, flush, todo, tickAt, out, store, world, history>>

-----------------------------------------------------------------------------
HandleEvent == AppendOpen \/ AppendLate \/ EmitCorrection \/ Ack

HandleTick ==
  \/ \E k \in Key : CloseWindow(k)
  \/ SaveClosed
  \/ AbortClose
  \/ StartGc
  \/ \E k \in Key : DropClosed(k)
  \/ EndTick

Next ==
  \/ \E e \in Event : Receive(e)
  \/ HandleEvent
  \/ Tick
  \/ HandleTick
  \/ Forward
  \/ AdvanceClock
  \/ Cancel
  \/ Exit
  \/ Crash
  \/ Restart

Spec == Init /\ [][Next]_vars

(***************************************************************************)
(* Fairness: the goroutine keeps running, its ticker keeps firing, the     *)
(* reader of out keeps reading until it is told to stop, time passes, a    *)
(* process told to stop ends and a stopped one is started again.  Nothing  *)
(* makes envelopes arrive, and nothing makes the process stop.             *)
(***************************************************************************)
Fairness ==
  /\ WF_vars(HandleEvent)
  /\ WF_vars(Tick)
  /\ WF_vars(HandleTick)
  /\ WF_vars(~cancelled /\ Forward)
  /\ WF_vars(AdvanceClock)
  /\ WF_vars(Exit)
  /\ WF_vars(Restart)

FairSpec == Spec /\ Fairness

-----------------------------------------------------------------------------
(***************************************************************************)
(* Properties.  Those that speak of the store suppose that its writes      *)
(* succeed; AckedIsDurable shows what the ignored errors cost.             *)
(***************************************************************************)

\* The correction horizon of the window has passed: a full lateness after the
\* window's end plus the lateness, for the watermark or for the clock.
HorizonPassed(k) ==
  \/ checkpoint >= EndUnix(k) + 2 * LatenessSec
  \/ now >= End(k) + 2 * Lateness

\* A batch is put on the out channel in this step, and it is the last of out'.
Sends    == Len(out') > Len(out)
NewBatch == out'[Len(out')]

\* Restore is transparent (Restore, append, closeExpired, gcClosed): wherever the
\* Manager is killed, a new one restores the same open windows, closed windows and
\* watermark, but for the one window whose batch is sent and whose Closed flag is
\* not saved yet: that one comes back open.
RestartTransparent ==
  ~StoreMayFail /\ pc # "down" =>
    /\ maxTS = checkpoint
    /\ \A k \in Key :
         IF k = flush
         THEN windows[k] = {} /\ RestoredWindows[k] = closed[k] /\ closed[k] # {}
         ELSE windows[k] = RestoredWindows[k] /\ closed[k] = RestoredClosed[k]

\* End-to-end ack (Run's env.Ack after add): an acknowledged event is never lost
\* to the aggregation.  It is in a bucket that a restart restores, and once that
\* bucket is gone or closed, the event was part of a batch.
AckedNeverLost ==
  ~StoreMayFail =>
    \A e \in acked :
      \/ e \in sent
      \/ e \in disk[KeyOf(e)] /\ KeyOf(e) \notin diskClosed

\* Retention (gcClosed): an acknowledged event stays in its persisted bucket until
\* the correction horizon of its window has passed, whatever crashes and corrections
\* happen in between.
RetainedForHorizon ==
  ~StoreMayFail =>
    \A e \in acked : e \in disk[KeyOf(e)] \/ HorizonPassed(KeyOf(e))

\* An event is only treated as late, and its window corrected, if the watermark has
\* passed the event or the clock has flushed its window (watermarkUnix: "windows
\* ending at or before it are considered complete").
OnlyLateEventsCorrect ==
  ~StoreMayFail /\ pc = "emit" =>
    \/ cur.ts < Watermark(maxTS)
    \/ now >= End(KeyOf(cur)) + Lateness

\* A batch sent before the horizon of its window has passed, first flush, repeated
\* flush or correction (closeExpired, emitBlocking), holds every event of the window that
\* was acknowledged, and every event of the batches sent before: a correction replaces
\* these, and never falls behind them.
BatchesAreComplete ==
  [][ ~StoreMayFail /\ Sends /\ ~HorizonPassed(NewBatch.key) =>
        {e \in acked \cup sent : KeyOf(e) = NewBatch.key} \subseteq NewBatch.events ]_vars

\* An event that was acknowledged is part of a batch in the end, crashes and
\* restarts notwithstanding: the processing clock flushes idle streams too.
AckedIsSent ==
  \A e \in Event : e \in acked ~> e \in sent

-----------------------------------------------------------------------------
(***************************************************************************)
(* The Manager keeps the promise of WindowPromise, crashes, restarts and   *)
(* all, if the writes to its store succeed.                                *)
(***************************************************************************)

Promise == INSTANCE WindowPromise WITH
  WindowOf  <- [e \in Event |-> KeyOf(e)],
  held      <- UNION {disk[k] : k \in Key},
  published <- sent,
  settled   <- {k \in Key : HorizonPassed(k)}

\* Tumbling implements WindowPromise: each step of the Manager, of the clock and of
\* the process is one step of the promise, or none.  What is held grows by the event
\* in hand and shrinks by settled windows with nothing owed; an ack follows its record;
\* every other write to memory or store, a crash and a Restore leave all of it alone.
KeepsPromise == Promise!Spec

-----------------------------------------------------------------------------
(***************************************************************************)
(* What comments and documents say and the code does not do: each is the   *)
(* subject of a run that ends in a counterexample.                         *)
(***************************************************************************)

\* Run, "the event is now durably held": false as append drops the error of Save.
AckedIsDurable ==
  \A e \in acked : e \in sent \/ e \in disk[KeyOf(e)]

\* SetLateness, "Default 0 disables correction": add corrects nevertheless.
ZeroLatenessDisablesCorrection ==
  [][ Lateness = 0 /\ Sends => ~NewBatch.corrected ]_vars
=============================================================================
