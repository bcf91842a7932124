------------------------------ MODULE Delivery ------------------------------
(***************************************************************************)
(* The way of a message from JetStream to the window Managers and of its   *)
(* acknowledgement back: the NATS ingester's handler and its dedupe store, *)
(* the HTTP ingester, the event channel, the engine's fanOut with its ack  *)
(* barrier, and the Managers as far as receipts and acks go.               *)
(*                                                                         *)
(* A receipt is one delivery of a message; a redelivered message comes in  *)
(* a receipt of its own.  What a Manager does with an event is left to     *)
(* Tumbling and Sliding: here add records the receipt, and a Manager with  *)
(* a store has it back after a restart.                                    *)
(*                                                                         *)
(* JetStream keeps a message until it is acked or terminated.  It delivers *)
(* it again after a Nak, after the process has gone, and when AckWait      *)
(* expires, which may be early, with the receipt still in the pipeline, or *)
(* due, the ack being lost.  Acks are published without a confirmation.    *)
(*                                                                         *)
(* Faults of the database are an error of Seen, of Mark, and of the        *)
(* LoadAll with which the engine starts; an error of Save is in Tumbling.  *)
(***************************************************************************)
EXTENDS Integers, Sequences, FiniteSets

CONSTANTS
  Msgs,         \* the messages of the JetStream stream
  Malformed,    \* those whose payload does not decode
  Posts,        \* the events posted over HTTP
  StreamOrder,  \* the engine's window streams, in the order of its slice
  Persistent,   \* the streams whose Manager has a store
  Dedupe,       \* is the dedupe store attached?
  EventCap,     \* capacity of the event channel
  StreamCap,    \* capacity of a stream's input channel
  MaxFaults,    \* bound: early AckWait expiries, lost acks, database errors
  MaxStops,     \* bound: how often the process is killed, told to stop, or fails to serve
  None          \* no receipt

Streams == {StreamOrder[i] : i \in DOMAIN StreamOrder}

\* Every delivery but the first of a message takes a fault or a stop.
MaxDeliveries == 1 + MaxFaults + MaxStops

ASSUME DeliveryAssumption ==
  /\ Malformed \subseteq Msgs
  /\ Msgs \cap Posts = {}
  /\ StreamOrder \in Seq(Streams)
  /\ Len(StreamOrder) >= 1
  /\ Cardinality(Streams) = Len(StreamOrder)
  /\ Persistent \subseteq Streams
  /\ Dedupe \in BOOLEAN
  /\ EventCap \in Nat \ {0}
  /\ StreamCap \in Nat \ {0}
  /\ MaxFaults \in Nat
  /\ MaxStops \in Nat

\* model.Envelope: what it carries, and for which delivery.
Envelope == [msg : Msgs \cup Posts, n : 1..MaxDeliveries]

ASSUME NoneIsNoEnvelope == None \notin Envelope

VARIABLES
  owed,         \* JetStream: messages neither acked nor terminated
  outstanding,  \* JetStream: messages delivered, their AckWait running
  delivered,    \* JetStream: deliveries so far, by message
  sub,          \* the subscription's pending receipts
  handler,      \* the envelope the handler is enqueueing
  eventCh,      \* the event channel
  fan,          \* the envelope fanOut is copying
  fanNext,      \* the index of the stream it copies it to next
  streamIn,     \* the streams' input channels
  remaining,    \* the barriers' countdowns, by envelope
  at,           \* where each Manager is
  work,         \* the envelope each Manager is working on
  quit,         \* goroutines that have returned, or were never started
  recorded,     \* the receipts each Manager holds
  seen,         \* the dedupe store
  phase,        \* of the process
  faults,       \* faults so far
  stops,        \* stops so far
  accepted,     \* history: posts answered with 202
  done,         \* history: messages whose Ack callback has called Mark
  excused       \* history: messages that fell due again before that, or that the
                \* dedupe store failed to write, to read, or to keep

jetstream == <<owed, outstanding, delivered>>
ingest    == <<sub, handler, eventCh>>
fanning   == <<fan, fanNext, streamIn, remaining>>
managers  == <<at, work, recorded>>
process   == <<phase, stops, quit>>
history   == <<accepted, done, excused>>
vars      == <<jetstream, ingest, fanning, managers, process, history, seen, faults>>

TypeOK ==
  /\ owed \subseteq Msgs
  /\ outstanding \subseteq owed
  /\ delivered \in [Msgs -> 0..MaxDeliveries]
  /\ sub \in Seq(Envelope)
  /\ handler \in Envelope \cup {None}
  /\ eventCh \in Seq(Envelope) /\ Len(eventCh) <= EventCap
  /\ fan \in Envelope \cup {None}
  /\ fanNext \in 1..Len(StreamOrder)
  /\ streamIn \in [Streams -> Seq(Envelope)]
  /\ \A s \in Streams : Len(streamIn[s]) <= StreamCap
  /\ remaining \in [Envelope -> 0..Len(StreamOrder)]
  /\ at \in [Streams -> {"idle", "added", "mark", "ack"}]
  /\ work \in [Streams -> Envelope \cup {None}]
  /\ quit \subseteq Streams \cup {"fanOut"}
  /\ recorded \in [Streams -> SUBSET Envelope]
  /\ seen \subseteq Msgs
  /\ phase \in {"down", "up", "cancelled", "severed", "disconnected", "closed"}
  /\ faults \in 0..MaxFaults
  /\ stops \in 0..MaxStops
  /\ accepted \subseteq Posts
  /\ done \subseteq Msgs
  /\ excused \subseteq Msgs

Init ==
  /\ owed = Msgs /\ outstanding = {} /\ delivered = [m \in Msgs |-> 0]
  /\ sub = <<>> /\ handler = None /\ eventCh = <<>>
  /\ fan = None /\ fanNext = 1
  /\ streamIn = [s \in Streams |-> <<>>]
  /\ remaining = [e \in Envelope |-> 0]
  /\ at = [s \in Streams |-> "idle"]
  /\ work = [s \in Streams |-> None]
  /\ recorded = [s \in Streams |-> {}]
  /\ seen = {}
  /\ phase = "down" /\ quit = {} /\ stops = 0 /\ faults = 0
  /\ accepted = {} /\ done = {} /\ excused = {}

Connected == phase \in {"up", "cancelled"}
CtxDone   == phase \in {"cancelled", "disconnected", "closed"}
Running   == phase # "down"

\* Mutant of DbIsOpen: db.Close is deferred last, and so called first.
DbClosedFirst == phase = "up"

DbIsOpen == phase \notin {"closed", "down"}

\* The database fails: by itself, or because it is closed.
DbError ==
  IF DbIsOpen THEN faults < MaxFaults /\ faults' = faults + 1 ELSE UNCHANGED faults

-----------------------------------------------------------------------------
(***************************************************************************)
(* JetStream, as the ingester uses it.                                     *)
(***************************************************************************)

\* The server pushes a message.  What it would still push to a process told to
\* stop fares as what is pending in the subscription by then.
Deliver(m) ==
  /\ phase = "up"
  /\ m \in owed \ outstanding
  /\ delivered[m] < MaxDeliveries
  /\ delivered' = [delivered EXCEPT ![m] = @ + 1]
  /\ outstanding' = outstanding \cup {m}
  /\ sub' = Append(sub, [msg |-> m, n |-> delivered'[m]])
  /\ UNCHANGED <<owed, handler, eventCh, fanning, managers, process, history, seen, faults>>

\* The message of every receipt that is still on its way to its Ack.
InPipeline ==
  {e.msg : e \in {sub[i] : i \in DOMAIN sub} \cup {eventCh[i] : i \in DOMAIN eventCh}}
  \cup {e.msg : e \in ({handler, fan} \cup {work[s] : s \in Streams}) \ {None}}
  \cup UNION {{streamIn[s][i].msg : i \in DOMAIN streamIn[s]} : s \in Streams}

\* AckWait expires: early, or because the ack of a finished receipt was lost.
AckWaitExpires(m) ==
  /\ m \in outstanding
  /\ IF m \in InPipeline
     THEN faults < MaxFaults /\ faults' = faults + 1
     ELSE UNCHANGED faults
  /\ outstanding' = outstanding \ {m}
  /\ excused' = IF m \in done THEN excused ELSE excused \cup {m}
  /\ UNCHANGED <<owed, delivered, ingest, fanning, managers, process, accepted, done, seen>>

\* msg.Ack() and msg.Term(): the error is ignored, the server may never see it.
Settle(m) ==
  \/ /\ Connected
     /\ owed' = owed \ {m}
     /\ outstanding' = outstanding \ {m}
     /\ UNCHANGED faults
  \/ /\ Connected
     /\ faults < MaxFaults
     /\ faults' = faults + 1
     /\ UNCHANGED <<owed, outstanding>>
  \/ ~Connected /\ UNCHANGED <<owed, outstanding, faults>>

-----------------------------------------------------------------------------
(***************************************************************************)
(* The ingesters.                                                          *)
(***************************************************************************)

\* The subscription's callback takes its next message.
Handling == Running /\ handler = None /\ sub # <<>>

IsSeen(m) == Dedupe /\ m \in seen

\* Seen says no: there is no entry, or an error, which counts as none.
SeenSaysNo(m) ==
  \/ ~IsSeen(m) /\ UNCHANGED <<faults, excused>>
  \/ IsSeen(m) /\ DbError /\ excused' = excused \cup {m}

\* A duplicate is acked and dropped.
HandleSeen ==
  /\ Handling
  /\ IsSeen(Head(sub).msg)
  /\ DbIsOpen
  /\ Settle(Head(sub).msg)
  /\ sub' = Tail(sub)
  /\ UNCHANGED <<delivered, handler, eventCh, fanning, managers, process, history, seen>>

\* A message that does not decode is terminated.  It is never marked.
HandleMalformed ==
  /\ Handling
  /\ Head(sub).msg \in Malformed
  /\ Settle(Head(sub).msg)
  /\ sub' = Tail(sub)
  /\ UNCHANGED <<delivered, handler, eventCh, fanning, managers, process, history, seen>>

\* Any other is wrapped in an envelope, to be enqueued.
HandleEvent ==
  /\ Handling
  /\ Head(sub).msg \notin Malformed
  /\ SeenSaysNo(Head(sub).msg)
  /\ handler' = Head(sub)
  /\ sub' = Tail(sub)
  /\ UNCHANGED <<jetstream, eventCh, fanning, managers, process, accepted, done, seen>>

\* Mutant of HasRoom: a channel is never full.
AlwaysRoom(ch, cap) == TRUE

HasRoom(ch, cap) == Len(ch) < cap

Enqueue ==
  /\ handler # None
  /\ HasRoom(eventCh, EventCap)
  /\ eventCh' = Append(eventCh, handler)
  /\ handler' = None
  /\ UNCHANGED <<jetstream, sub, fanning, managers, process, history, seen, faults>>

\* The context is done first: msg.Nak().
Nak ==
  /\ handler # None
  /\ CtxDone
  /\ outstanding' = IF Connected THEN outstanding \ {handler.msg} ELSE outstanding
  /\ excused' = IF Connected /\ handler.msg \notin done
              THEN excused \cup {handler.msg} ELSE excused
  /\ handler' = None
  /\ UNCHANGED <<owed, delivered, sub, eventCh, fanning, managers, process, accepted, done,
                 seen, faults>>

\* POST /events: 202 if the channel has room; 503 otherwise, which changes nothing
\* and leaves the client to post again.
Post(p) ==
  /\ Running
  /\ p \notin accepted
  /\ HasRoom(eventCh, EventCap)
  /\ eventCh' = Append(eventCh, [msg |-> p, n |-> 1])
  /\ accepted' = accepted \cup {p}
  /\ UNCHANGED <<jetstream, sub, handler, fanning, managers, process, done, excused, seen, faults>>

-----------------------------------------------------------------------------
(***************************************************************************)
(* fanOut.                                                                 *)
(***************************************************************************)

\* Mutant of BarrierSize: one stream too few.
BarrierOffByOne == Len(StreamOrder) - 1

BarrierSize == Len(StreamOrder)

\* Mutant of FirstStream: the copies start at the second stream.
SecondStream == 2

FirstStream == 1

\* fanOut takes an envelope and makes its barrier.
FanTake ==
  /\ Running
  /\ "fanOut" \notin quit
  /\ fan = None
  /\ eventCh # <<>>
  /\ fan' = Head(eventCh)
  /\ fanNext' = FirstStream
  /\ eventCh' = Tail(eventCh)
  /\ remaining' = [remaining EXCEPT ![Head(eventCh)] = BarrierSize]
  /\ UNCHANGED <<jetstream, sub, handler, streamIn, managers, process, history, seen, faults>>

\* One copy goes to the next stream, when its channel has room.
FanSend ==
  LET s == StreamOrder[fanNext] IN
  /\ fan # None
  /\ HasRoom(streamIn[s], StreamCap)
  /\ streamIn' = [streamIn EXCEPT ![s] = Append(@, fan)]
  /\ IF fanNext = Len(StreamOrder)
     THEN fan' = None /\ fanNext' = 1
     ELSE fanNext' = fanNext + 1 /\ UNCHANGED fan
  /\ UNCHANGED <<jetstream, ingest, remaining, managers, process, history, seen, faults>>

\* The context is done: fanOut returns, whatever copies it has still to send.
FanQuit ==
  /\ CtxDone
  /\ "fanOut" \notin quit
  /\ quit' = quit \cup {"fanOut"}
  /\ fan' = None /\ fanNext' = 1
  /\ UNCHANGED <<jetstream, ingest, streamIn, remaining, managers, phase, stops, history, seen,
                 faults>>

-----------------------------------------------------------------------------
(***************************************************************************)
(* The Managers' Run loops: add, then the Ack of the copy, which counts    *)
(* the barrier down; the last one marks the message and acks it.           *)
(***************************************************************************)

Add(s) ==
  /\ Running
  /\ s \notin quit
  /\ at[s] = "idle"
  /\ streamIn[s] # <<>>
  /\ work' = [work EXCEPT ![s] = Head(streamIn[s])]
  /\ streamIn' = [streamIn EXCEPT ![s] = Tail(@)]
  /\ recorded' = IF s \in Persistent /\ ~DbIsOpen
                 THEN recorded
                 ELSE [recorded EXCEPT ![s] = @ \cup {Head(streamIn[s])}]
  /\ at' = [at EXCEPT ![s] = "added"]
  /\ UNCHANGED <<jetstream, ingest, fan, fanNext, remaining, process, history, seen, faults>>

\* The barrier's countdown; an envelope that came over HTTP has no barrier.
CountDown(s) ==
  /\ at[s] = "added"
  /\ IF work[s].msg \in Posts
     THEN UNCHANGED remaining
     ELSE remaining' = [remaining EXCEPT ![work[s]] = @ - 1]
  /\ IF work[s].msg \in Msgs /\ remaining[work[s]] = 1
     THEN at' = [at EXCEPT ![s] = "mark"] /\ UNCHANGED work
     ELSE at' = [at EXCEPT ![s] = "idle"] /\ work' = [work EXCEPT ![s] = None]
  /\ UNCHANGED <<jetstream, ingest, fan, fanNext, streamIn, recorded, process, history, seen,
                 faults>>

\* Mutant of MarkSeen: nothing is marked.
MarkNothing(m) == UNCHANGED <<seen, faults, excused>>

\* An error of Mark is ignored.
MarkSeen(m) ==
  \/ Dedupe /\ DbIsOpen /\ seen' = seen \cup {m} /\ UNCHANGED <<faults, excused>>
  \/ Dedupe /\ DbError /\ excused' = excused \cup {m} /\ UNCHANGED seen
  \/ ~Dedupe /\ UNCHANGED <<seen, faults, excused>>

Mark(s) ==
  /\ at[s] = "mark"
  /\ MarkSeen(work[s].msg)
  /\ done' = done \cup {work[s].msg}
  /\ at' = [at EXCEPT ![s] = "ack"]
  /\ UNCHANGED <<jetstream, ingest, fanning, work, recorded, process, accepted>>

MsgAck(s) ==
  /\ at[s] = "ack"
  /\ Settle(work[s].msg)
  /\ at' = [at EXCEPT ![s] = "idle"]
  /\ work' = [work EXCEPT ![s] = None]
  /\ UNCHANGED <<delivered, ingest, fanning, recorded, process, history, seen>>

\* The entry's TTL is over.
Expire(m) ==
  /\ m \in seen
  /\ seen' = seen \ {m}
  /\ excused' = excused \cup {m}
  /\ UNCHANGED <<jetstream, ingest, fanning, managers, process, accepted, done, faults>>

ManagerQuit(s) ==
  /\ CtxDone
  /\ at[s] = "idle"
  /\ s \notin quit
  /\ quit' = quit \cup {s}
  /\ UNCHANGED <<jetstream, ingest, fanning, managers, phase, stops, history, seen, faults>>

-----------------------------------------------------------------------------
(***************************************************************************)
(* The process.                                                            *)
(***************************************************************************)

\* SIGINT or SIGTERM.
Cancel ==
  /\ phase = "up"
  /\ stops < MaxStops
  /\ phase' = "cancelled"
  /\ stops' = stops + 1
  /\ UNCHANGED <<jetstream, ingest, fanning, managers, quit, history, seen, faults>>

\* ListenAndServe returns an error: so does runServer, ni.Stop before anything else.
ServeFails ==
  /\ phase = "up"
  /\ stops < MaxStops
  /\ phase' = "severed"
  /\ stops' = stops + 1
  /\ UNCHANGED <<jetstream, ingest, fanning, managers, quit, history, seen, faults>>

\* The deferred calls of runServer: ni.Stop, cancel, db.Close.
Deferred == [cancelled |-> "disconnected", severed |-> "disconnected", disconnected |-> "closed"]

Unwind ==
  /\ phase \in DOMAIN Deferred
  /\ phase' = Deferred[phase]
  /\ UNCHANGED <<jetstream, ingest, fanning, managers, stops, quit, history, seen, faults>>

\* The process ends.  The receipts of a Manager without a store are lost; messages
\* not acked fall due again.
Ends ==
  /\ phase' = "down"
  /\ sub' = <<>> /\ handler' = None /\ eventCh' = <<>>
  /\ fan' = None /\ fanNext' = 1
  /\ streamIn' = [s \in Streams |-> <<>>]
  /\ remaining' = [e \in Envelope |-> 0]
  /\ at' = [s \in Streams |-> "idle"]
  /\ work' = [s \in Streams |-> None]
  /\ quit' = {}
  /\ recorded' = [s \in Streams |-> IF s \in Persistent THEN recorded[s] ELSE {}]
  /\ outstanding' = {}
  /\ excused' = excused \cup (outstanding \ done)
  /\ UNCHANGED <<owed, delivered, seen, faults, accepted, done>>

Exit == phase = "closed" /\ Ends /\ UNCHANGED stops

Crash == Running /\ stops < MaxStops /\ Ends /\ stops' = stops + 1

\* runServer starts.  If a stream's Restore fails, engine.Run returns without fanOut; the
\* ingesters go on, and so do Managers that nobody feeds.
Start ==
  /\ phase = "down"
  /\ phase' = "up"
  /\ \/ quit' = {} /\ UNCHANGED faults
     \/ /\ Persistent # {}
        /\ faults < MaxFaults
        /\ faults' = faults + 1
        /\ quit' = Streams \cup {"fanOut"}
  /\ UNCHANGED <<jetstream, ingest, fanning, managers, stops, history, seen>>

EngineIsDead == phase = "up" /\ "fanOut" \in quit

-----------------------------------------------------------------------------
Handle == HandleSeen \/ HandleMalformed \/ HandleEvent \/ Enqueue \/ Nak

FanOut == FanTake \/ FanSend \/ FanQuit

Manager(s) == Add(s) \/ CountDown(s) \/ Mark(s) \/ MsgAck(s) \/ ManagerQuit(s)

Next ==
  \/ \E m \in Msgs : Deliver(m) \/ AckWaitExpires(m) \/ Expire(m)
  \/ Handle
  \/ \E p \in Posts : Post(p)
  \/ FanOut
  \/ \E s \in Streams : Manager(s)
  \/ Cancel
  \/ ServeFails
  \/ Unwind
  \/ Exit
  \/ Crash
  \/ Start

Spec == Init /\ [][Next]_vars

\* The server keeps delivering what is owed, AckWait ends, every goroutine keeps
\* running, a process told to stop ends and a stopped one is started again.  Nobody
\* has to post, and nothing has to fail.
Fairness ==
  /\ \A m \in Msgs : /\ WF_vars(Deliver(m))
                     /\ WF_vars(m \notin InPipeline /\ AckWaitExpires(m))
  /\ WF_vars(Handle)
  /\ WF_vars(FanOut)
  /\ \A s \in Streams : WF_vars(Manager(s))
  /\ WF_vars(Unwind)
  /\ WF_vars(Exit)
  /\ WF_vars(Start)

FairSpec == Spec /\ Fairness

-----------------------------------------------------------------------------
(***************************************************************************)
(* Properties.                                                             *)
(***************************************************************************)

Copies(m, s) == {e \in recorded[s] : e.msg = m}

\* End-to-end ack (handle, ackBarrier): a message the server may forget, or whose
\* redelivery the dedupe store will swallow, is recorded by every stream that has a
\* store, whatever was lost, redelivered or killed on the way.
SettledIsRecorded ==
  \A m \in Msgs \ Malformed :
    m \notin owed \/ m \in seen => \A s \in Persistent : Copies(m, s) # {}

\* The barrier (ackBarrier): until the database is closed, the Ack callback runs after
\* every stream has recorded this very receipt, and no two Managers run it for the
\* same receipt.
AckAfterAllStreams ==
  DbIsOpen =>
    \A s \in Streams :
      at[s] \in {"mark", "ack"} =>
        /\ \A t \in Streams : work[s] \in recorded[t]
        /\ \A t \in Streams \ {s} : at[t] \in {"mark", "ack"} => work[t] # work[s]

\* Deduplication (handle, Seen and Mark): a stream counts a message once, however
\* many acks are lost, unless it fell due again before its Ack callback had marked it,
\* or the dedupe store failed or has let its entry expire.
CountedOnceUnlessExcused ==
  Dedupe =>
    \A m \in Msgs \ excused, s \in Streams : Cardinality(Copies(m, s)) <= 1

\* At-least-once: every message is acked or terminated in the end, unless the process
\* stays up with an engine that could not start.
EveryMessageSettles ==
  \A m \in Msgs : <>(m \notin owed) \/ <>[]EngineIsDead

\* A post answered with 202 reaches every stream, if the process is not stopped and
\* its engine could start.
AcceptedIsRecorded ==
  \A p \in Posts : p \in accepted ~>
    \/ stops > 0
    \/ EngineIsDead
    \/ \A s \in Streams : Copies(p, s) # {}

-----------------------------------------------------------------------------
(***************************************************************************)
(* What a comment says and the code does not do.                           *)
(***************************************************************************)

\* handle and DedupeStore, "preventing double-counting on redelivery".
CountedOnce ==
  \A m \in Msgs, s \in Streams : Cardinality(Copies(m, s)) <= 1

=====
