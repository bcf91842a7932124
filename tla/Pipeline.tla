------------------------------ MODULE Pipeline ------------------------------
(***************************************************************************)
(* engine.Run of internal/engine/engine.go: the grouping of the rules into *)
(* streams, the start of the streams, and the way of a batch from a        *)
(* Manager over its out channel, its forwarder and batchCh to the loop     *)
(* that evaluates it for each rule and hands it to each notifier.          *)
(*                                                                         *)
(* A Manager is reduced to the batches it sends: a window is opened,       *)
(* flushed, and then corrected, or opened and flushed once more, any       *)
(* number of times; what the batches hold is the matter of Tumbling and    *)
(* Sliding.  A batch is known by its window and its number among the       *)
(* batches of that window.  The model is one life of the process.          *)
(***************************************************************************)
EXTENDS Integers, Sequences, FiniteSets, SequencesExt

CONSTANTS
  Rules,          \* the rules, in the order of the configuration
  DefaultWindow,  \* the window size of a rule that has none
  Notifiers,      \* how many notifiers there are
  Windows,        \* the windows of each stream (bounds a run)
  MaxBatches,     \* bound: batches sent of one window
  OutCap,         \* capacity of a stream's out channel
  BatchCap,       \* capacity of batchCh
  Stored,         \* is there a store to restore tumbling windows from?
  None            \* no batch

\* A field is a sequence of atoms, one of which may be the separator.
Field == Seq(STRING)

ASSUME PipelineAssumption ==
  /\ Rules \in Seq([size : Nat, slide : Nat, groupBy : Seq(Field)])
  /\ Rules # <<>>
  /\ DefaultWindow \in Nat \ {0}
  /\ Notifiers \in Nat \ {0}
  /\ MaxBatches \in Nat \ {0}
  /\ OutCap \in Nat \ {0}
  /\ BatchCap \in Nat \ {0}
  /\ Stored \in BOOLEAN

-----------------------------------------------------------------------------
(***************************************************************************)
(* The streams: one for each size, slide and normalised grouping.          *)
(***************************************************************************)

Service == <<"service">>

\* normalizeGroupBy: the fields, joined with the separator.
Normalize(fields) ==
  IF fields = <<>>
  THEN Service
  ELSE FoldLeft(LAMBDA joined, f : joined \o <<"|">> \o f, Head(fields), Tail(fields))

SizeOf(r) == IF r.size = 0 THEN DefaultWindow ELSE r.size

StreamKey(r) == [size |-> SizeOf(r), slide |-> r.slide, groupBy |-> Normalize(r.groupBy)]

Streams    == {StreamKey(Rules[i]) : i \in DOMAIN Rules}
IsSliding(s) == s.slide > 0

\* byGroup: the indices of the rules of a stream.
RulesOf(s) == {i \in DOMAIN Rules : StreamKey(Rules[i]) = s}

Batch == [stream : Streams, window : Windows, number : 1..MaxBatches]
Call  == [rule : DOMAIN Rules, notifier : 1..Notifiers]

\* Mutant of Calls: only the first rule of the stream is evaluated.
CallsOfFirstRule(s) == {c \in Call : c.rule \in RulesOf(s) /\ \A i \in RulesOf(s) : c.rule <= i}

\* The calls of Emit for one batch: each rule of its stream, for each of these each
\* notifier.
Calls(s) == {c \in Call : c.rule \in RulesOf(s)}

\* The loops over the rules and the notifiers go in order.
Before(c, d) == c.rule < d.rule \/ (c.rule = d.rule /\ c.notifier < d.notifier)

ASSUME NoneIsNoBatch == None \notin Batch

-----------------------------------------------------------------------------
VARIABLES
  engine,     \* where engine.Run is
  started,    \* the streams whose goroutines run
  manager,    \* where each Manager is
  pending,    \* the batch each Manager wants to send
  open,       \* the windows each Manager holds open
  sent,       \* how many batches of each window were sent
  out,        \* the out channels
  forwarder,  \* the batch each forwarder has in hand
  quit,       \* the forwarders that have returned
  batchCh,    \* the channel all forwarders send to
  current,    \* the batch under evaluation
  calls,      \* the calls of Emit still to be made for it
  cancelled,  \* has the context been cancelled?
  evaluated   \* history: the batches each call of Emit was made for

managers   == <<manager, pending, open, sent>>
forwarders == <<forwarder, quit>>
loop       == <<current, calls, evaluated>>
vars       == <<engine, started, managers, out, forwarders, batchCh, loop, cancelled>>

TypeOK ==
  /\ engine \in {"starting", "running", "failed", "returned"}
  /\ started \subseteq Streams
  /\ manager \in [Streams -> {"none", "idle", "flush", "correct", "returned"}]
  /\ pending \in [Streams -> Batch \cup {None}]
  /\ open \in [Streams -> SUBSET Windows]
  /\ sent \in [Streams -> [Windows -> 0..MaxBatches]]
  /\ out \in [Streams -> Seq(Batch)]
  /\ \A s \in Streams : Len(out[s]) <= OutCap
  /\ forwarder \in [Streams -> Batch \cup {None}]
  /\ quit \subseteq started
  /\ batchCh \in Seq(Batch) /\ Len(batchCh) <= BatchCap
  /\ current \in Batch \cup {None}
  /\ calls \subseteq Call
  /\ cancelled \in BOOLEAN
  /\ evaluated \in [Call -> Seq(Batch)]

Init ==
  /\ engine = "starting" /\ started = {}
  /\ manager = [s \in Streams |-> "none"]
  /\ pending = [s \in Streams |-> None]
  /\ open = [s \in Streams |-> {}]
  /\ sent = [s \in Streams |-> [w \in Windows |-> 0]]
  /\ out = [s \in Streams |-> <<>>]
  /\ forwarder = [s \in Streams |-> None]
  /\ quit = {} /\ batchCh = <<>> /\ current = None /\ calls = {}
  /\ cancelled = FALSE
  /\ evaluated = [c \in Call |-> <<>>]

-----------------------------------------------------------------------------
(***************************************************************************)
(* The start: the streams come up in an arbitrary order, as a range over a *)
(* Go map has it, each with the open windows its store returns.            *)
(***************************************************************************)

Restorable(s) == IF Stored /\ ~IsSliding(s) THEN SUBSET Windows ELSE {{}}

StartStream(s) ==
  /\ engine = "starting"
  /\ s \notin started
  /\ \E restored \in Restorable(s) : open' = [open EXCEPT ![s] = restored]
  /\ started' = started \cup {s}
  /\ manager' = [manager EXCEPT ![s] = "idle"]
  /\ UNCHANGED <<engine, pending, sent, out, forwarders, batchCh, loop, cancelled>>

\* Restore returns an error: so does Run, and what was started goes on without it.
RestoreFails(s) ==
  /\ engine = "starting"
  /\ s \notin started
  /\ Stored /\ ~IsSliding(s)
  /\ engine' = "failed"
  /\ UNCHANGED <<started, managers, out, forwarders, batchCh, loop, cancelled>>

\* Every stream is up: fanOut starts, and the loop.
StartLoop ==
  /\ engine = "starting"
  /\ started = Streams
  /\ engine' = "running"
  /\ UNCHANGED <<started, managers, out, forwarders, batchCh, loop, cancelled>>

-----------------------------------------------------------------------------
(***************************************************************************)
(* The Managers.  Events come once fanOut runs; it may still do for a      *)
(* while after the loop has returned.                                      *)
(***************************************************************************)

Fed(s) == engine \in {"running", "returned"} /\ manager[s] = "idle"

\* A sliding window is never opened again once it was flushed.
MayOpen(s, w) == sent[s][w] < (IF IsSliding(s) THEN 1 ELSE MaxBatches)

OpenWindow(s, w) ==
  /\ Fed(s)
  /\ w \notin open[s]
  /\ MayOpen(s, w)
  /\ open' = [open EXCEPT ![s] = @ \cup {w}]
  /\ UNCHANGED <<engine, started, manager, pending, sent, out, forwarders, batchCh, loop, cancelled>>

NextBatch(s, w) == [stream |-> s, window |-> w, number |-> sent[s][w] + 1]

\* A late event: emitBlocking, which does not watch the context.
Correct(s, w) ==
  /\ Fed(s)
  /\ ~IsSliding(s)
  /\ w \notin open[s]
  /\ MayOpen(s, w)
  /\ manager' = [manager EXCEPT ![s] = "correct"]
  /\ pending' = [pending EXCEPT ![s] = NextBatch(s, w)]
  /\ UNCHANGED <<engine, started, open, sent, out, forwarders, batchCh, loop, cancelled>>

\* A tick finds an expired window.
Flush(s, w) ==
  /\ manager[s] = "idle"
  /\ w \in open[s]
  /\ manager' = [manager EXCEPT ![s] = "flush"]
  /\ pending' = [pending EXCEPT ![s] = NextBatch(s, w)]
  /\ UNCHANGED <<engine, started, open, sent, out, forwarders, batchCh, loop, cancelled>>

\* Mutant of HasRoom: the out channel is never full.
AlwaysRoom(s) == TRUE

HasRoom(s) == Len(out[s]) < OutCap

Send(s) ==
  LET b == pending[s] IN
  /\ manager[s] \in {"flush", "correct"}
  /\ HasRoom(s)
  /\ out' = [out EXCEPT ![s] = Append(@, b)]
  /\ sent' = [sent EXCEPT ![s][b.window] = b.number]
  /\ open' = [open EXCEPT ![s] = @ \ {b.window}]
  /\ manager' = [manager EXCEPT ![s] = "idle"]
  /\ pending' = [pending EXCEPT ![s] = None]
  /\ UNCHANGED <<engine, started, forwarders, batchCh, loop, cancelled>>

\* closeExpired gives up when the context is done.
AbortFlush(s) ==
  /\ manager[s] = "flush"
  /\ cancelled
  /\ manager' = [manager EXCEPT ![s] = "idle"]
  /\ pending' = [pending EXCEPT ![s] = None]
  /\ UNCHANGED <<engine, started, open, sent, out, forwarders, batchCh, loop, cancelled>>

ManagerReturns(s) ==
  /\ manager[s] = "idle"
  /\ cancelled
  /\ manager' = [manager EXCEPT ![s] = "returned"]
  /\ UNCHANGED <<engine, started, pending, open, sent, out, forwarders, batchCh, loop, cancelled>>

-----------------------------------------------------------------------------
(***************************************************************************)
(* The forwarders.                                                         *)
(***************************************************************************)

ForwarderRuns(s) == s \in started \ quit

TakeBatch(s) ==
  /\ ForwarderRuns(s)
  /\ forwarder[s] = None
  /\ out[s] # <<>>
  /\ forwarder' = [forwarder EXCEPT ![s] = Head(out[s])]
  /\ out' = [out EXCEPT ![s] = Tail(@)]
  /\ UNCHANGED <<engine, started, managers, quit, batchCh, loop, cancelled>>

\* Mutant of HandOver: a batch that finds no room is dropped.
HandOverOrDrop(s) ==
  /\ forwarder[s] # None
  /\ batchCh' = IF Len(batchCh) < BatchCap THEN Append(batchCh, forwarder[s]) ELSE batchCh
  /\ forwarder' = [forwarder EXCEPT ![s] = None]
  /\ UNCHANGED <<engine, started, managers, out, quit, loop, cancelled>>

HandOver(s) ==
  /\ forwarder[s] # None
  /\ Len(batchCh) < BatchCap
  /\ batchCh' = Append(batchCh, forwarder[s])
  /\ forwarder' = [forwarder EXCEPT ![s] = None]
  /\ UNCHANGED <<engine, started, managers, out, quit, loop, cancelled>>

\* The context is done: a batch in hand is lost.
ForwarderReturns(s) ==
  /\ ForwarderRuns(s)
  /\ cancelled
  /\ quit' = quit \cup {s}
  /\ forwarder' = [forwarder EXCEPT ![s] = None]
  /\ UNCHANGED <<engine, started, managers, out, batchCh, loop, cancelled>>

-----------------------------------------------------------------------------
(***************************************************************************)
(* The loop.                                                               *)
(***************************************************************************)

TakeTagged ==
  /\ engine = "running"
  /\ current = None
  /\ batchCh # <<>>
  /\ current' = Head(batchCh)
  /\ batchCh' = Tail(batchCh)
  /\ calls' = Calls(Head(batchCh).stream)
  /\ UNCHANGED <<engine, started, managers, out, forwarders, cancelled, evaluated>>

\* Aggregate and one Emit, whether or not its HAVING is satisfied and its alert
\* arrives: its result is ignored.
Emit(c) ==
  /\ c \in calls
  /\ \A d \in calls \ {c} : Before(c, d)
  /\ evaluated' = [evaluated EXCEPT ![c] = Append(@, current)]
  /\ calls' = calls \ {c}
  /\ current' = IF calls' = {} THEN None ELSE current
  /\ UNCHANGED <<engine, started, managers, out, forwarders, batchCh, cancelled>>

RunReturns ==
  /\ engine = "running"
  /\ current = None
  /\ cancelled
  /\ engine' = "returned"
  /\ UNCHANGED <<started, managers, out, forwarders, batchCh, loop, cancelled>>

Cancel ==
  /\ ~cancelled
  /\ cancelled' = TRUE
  /\ UNCHANGED <<engine, started, managers, out, forwarders, batchCh, loop>>

-----------------------------------------------------------------------------
Start == StartLoop \/ \E s \in Streams : StartStream(s) \/ RestoreFails(s)

Blocked(s) == Send(s) \/ AbortFlush(s)

Loop == TakeTagged \/ (\E c \in Call : Emit(c)) \/ RunReturns

Next ==
  \/ Start
  \/ \E s \in Streams :
       \/ \E w \in Windows : OpenWindow(s, w) \/ Correct(s, w) \/ Flush(s, w)
       \/ Blocked(s)
       \/ ManagerReturns(s)
       \/ TakeBatch(s)
       \/ HandOver(s)
       \/ ForwarderReturns(s)
  \/ Loop
  \/ Cancel

Spec == Init /\ [][Next]_vars

(***************************************************************************)
(* Fairness: the goroutines run, and a call of Emit ends, as a webhook's   *)
(* client has a timeout.  batchCh has several senders: one that waits may  *)
(* find it filled by another each time there was room, but Go serves the   *)
(* senders that wait in their order.                                       *)
(***************************************************************************)
Fairness ==
  /\ WF_vars(Start)
  /\ WF_vars(Loop)
  /\ \A s \in Streams : WF_vars(TakeBatch(s)) /\ SF_vars(HandOver(s)) /\ WF_vars(Send(s))

FairSpec == Spec /\ Fairness

-----------------------------------------------------------------------------
(***************************************************************************)
(* Properties.                                                             *)
(***************************************************************************)

SameWindow(x, y) == x.stream = y.stream /\ x.window = y.window

\* Each notifier sees, for each rule, the batches of a window in the order in which the
\* Manager sent them, each once and none left out: a correction never comes before
\* what it corrects, nor twice (forwarders, batchCh and the loop of engine.Run).
EvaluatedInOrder ==
  \A c \in Call : \A i \in DOMAIN evaluated[c] :
    LET b == evaluated[c][i]
        earlier == {j \in 1..(i - 1) : SameWindow(evaluated[c][j], b)} IN
    {evaluated[c][j].number : j \in earlier} = 1..(b.number - 1)

\* A batch that a Manager has sent is evaluated for each rule of its stream and handed
\* to each notifier, however full the channels are, unless the context is cancelled
\* or Run could not start.
SentIsEvaluated ==
  \A b \in Batch :
    sent[b.stream][b.window] >= b.number ~>
      \/ cancelled
      \/ engine = "failed"
      \/ \A c \in Call :
           StreamKey(Rules[c.rule]) = b.stream =>
             \E i \in DOMAIN evaluated[c] : evaluated[c][i] = b

=============================================================================
