# StreamRail in TLA+

TLA+ models of the StreamRail event processor (`src/`), TLC runs that check
them on small instances, and TLAPS proofs that every safety property of these
runs holds for all values of the constants. Paths below are relative to `src/`.

## 1. The system

StreamRail takes log events over HTTP and from NATS JetStream, groups them into
time windows per group key, and evaluates alert rules on every closed window.

```
HTTP POST /events --+
                    +--> event channel --> fanOut --+--> stream 1: in --> Manager --> out --> forwarder --+
NATS handler -------+        (1024)                 +--> stream 2: in --> Manager --> out --> forwarder --+--> batchCh --> evaluation loop --> notifiers
  |  dedupe store                                       (1024)    |        (1000)                            (1000)
  +--<------------- ack, when every stream has added ----<--------+--> BadgerDB buckets, checkpoint
```

| Component | State | Operations | What makes it correct |
|---|---|---|---|
| Tumbling Manager, `internal/window/tumbling.go` | open buckets `windows`, flushed buckets `closed`, `maxTS`; one goroutine owns them | `add` (four cases), `closeExpired`, `gcClosed`, `Restore`, `Run` | no acknowledged event is lost to the aggregation; a kill at any point is invisible after `Restore`; only late events cause corrections; a batch holds all that was acknowledged |
| Sliding Manager, `internal/window/sliding.go` | `windows`, `closedK`, `maxTS`; nothing persisted | `add`, `closeExpired`, `Run` | a window is emitted once; an event in order is in every window that holds its timestamp |
| Bucket store and checkpoint, `internal/store/badger.go` | buckets with a Closed flag, the watermark, by namespace | `Save`, `Delete`, `LoadAll`, `SaveCheckpoint`, `LoadCheckpoint` | a stream gets back what it wrote last, nothing of another's |
| Dedupe store, `internal/store/badger.go` | seen message ids with a TTL | `Seen`, `Mark` | a marked message is recognised for as long as it can be delivered again |
| NATS ingester, `internal/ingester/nats.go` | the subscription and the message in hand | `handle`, the Ack callback, `Start`, `Stop` | at least once, and not twice where it can be told |
| HTTP ingester, `internal/ingester/http.go` | none | `ServeHTTP` | 202 only for what is on the channel |
| Engine, `internal/engine/engine.go` | stream channels, `batchCh`, the ack barriers | `Run`, `fanOut`, `ackBarrier`, forwarders, evaluation | the ack fires once, after every stream has added |
| Aggregator, `internal/aggregator/agg.go` | none | `Aggregate` | COUNT, SUM, AVG, MIN, MAX of the matching events, in any order of theirs |
| Rules and configuration, `internal/rule/` | the rules | `LoadConfig`, `Match`, `Having` | a configuration that cannot work is refused |
| Notifiers, `internal/notifier/` | none | `Emit` | an alert fires when HAVING is met |
| Process, `cmd/streamrail/main.go` | context, database, connection | start, signals, deferred calls | the order of shutdown never acks what is not held |
| Metrics, `internal/metrics/` | counters | - | (no other part reads them) |

**How they interact.** Messages travel on bounded Go channels; the way back is
a chain of callbacks: the Manager calls the copy's `Ack`, `ackBarrier` counts
the copies down with an atomic, and the last one runs the ingester's closure,
which marks the message in the dedupe store and acks it at the server. The
store is written by the Manager's own goroutine. Shutdown is a context
cancellation every goroutine looks at only where it selects on it, followed by
the deferred calls of `runServer`, which waits for none of them.

**What is hard.** The process may be killed between any two writes (checkpoint,
bucket, Closed flag, seen mark, ack), and each order of those writes has its own
failure. Redelivery races the first receipt. The Managers of several streams ack
the same envelope concurrently. Channels fill up, in the middle of a flush or of
a correction. Watermark and wall clock flush the same windows independently.
Window ends are compared in whole seconds. `PROJECT.json` lists each hazard with
its line and the properties that would catch it.

## 2. The modules

```
WindowPromise  <--implements--  Tumbling  <--extends--  TumblingProofs, PromiseProofs
Delivery       messages, acks, the database and the life of the process    DeliveryProofs
Sliding        the Manager without a store                                 SlidingProofs
Pipeline       from the Managers' batches to the calls of Emit             PipelineProofs
Alerting       from rules.yaml to the value of a batch and its alert       AlertingProofs
BucketStore    the key space under all streams                             BucketStoreProofs
```

### Tumbling.tla: the tumbling Manager and its store

The Manager's goroutine is a program counter between its effects on the world:

| Action | Code |
|---|---|
| `Receive(e)` | `Run` takes an envelope; `add` advances and checkpoints `maxTS` |
| `AppendOpen` | `add`, first and last case: open bucket, `append`, `Save` |
| `AppendLate`, `EmitCorrection` | `add`, second and third case: closed bucket, `append`, `Save`, then `emitBlocking` |
| `Ack` | `env.Ack()` in `Run` |
| `Tick`, `CloseWindow(k)`, `SaveClosed`, `AbortClose` | `closeExpired`: the expired windows, the send, the save of the Closed flag, the early return when the context is done |
| `StartGc`, `DropClosed(k)`, `EndTick` | `gcClosed`, with the `now` and watermark `closeExpired` had |
| `Forward`, `AdvanceClock` | the engine's forwarder, the wall clock |
| `Cancel`, `Exit`, `Crash`, `Restart` | signal, end of the process (after a signal or not), `NewManager` and `Restore` |

`windows`, `closed`, `maxTS` are the fields of `Manager`; `disk`, `diskClosed`
and `checkpoint` what BadgerDB holds. A bucket is the set of its events; an
absent map entry is the empty set, as the code never leaves an empty bucket in
a map. `Count` is the size of the set. A receipt is an event of its own, so a
double count shows as two events. The constant `StoreMayFail` lets any write
return an error, which every caller ignores; the properties that speak of the
store assume it is FALSE and the run `tumbling_store_fails` shows the price.

Abstractions: the tick's phase is free (a tick may come whenever the goroutine
is idle; the code's ticker fires once per window size). The clock counts units
of which `Second` make a second, so that sizes with fractions of a second can
be expressed; its origin is some instant that `Truncate` maps to itself.
`Restore` is one step, as nothing else runs before it ends.

### WindowPromise.tla: what Tumbling implements

An abstract Manager without goroutine, clock, memory or process: the events
`held`, `published` in a batch and `acked`, and the windows `settled`, those whose
correction horizon has passed. `Record` holds an event, `Publish` sends a batch,
which has all that is acked of a window not settled, `Ack` needs what it acks to be
held, `Forget` drops a settled window to which no batch is owed. `Tumbling`
instantiates it as `Promise`:

| `WindowPromise` | `Tumbling` |
|---|---|
| `held` | the events in the buckets on disk |
| `published` | `sent`, the events in the batches sent |
| `acked` | `acked` |
| `settled` | the windows of which `HorizonPassed` |

`KeepsPromise == Promise!Spec` is a property of the run `tumbling`: `append`'s
`Save` is `Record`, a send is `Publish`, `env.Ack` is `Ack`, `gcClosed`'s `Delete` is
`Forget`, a checkpoint or a step of the clock is `Settle`, and everything else, a
crash and `Restore` among it, is no step at all.

### Delivery.tla: from JetStream to the Managers and back

| Action | Code |
|---|---|
| `Deliver`, `AckWaitExpires`, `Settle` | JetStream (external): push, redelivery when AckWait is over, an ack or term that may be lost |
| `HandleSeen`, `HandleMalformed`, `HandleEvent`, `Enqueue`, `Nak` | the paths through `NATSIngester.handle`; `SeenSaysNo` is an answer of `Seen` for want of an entry or for an error |
| `Post` | `ServeHTTP`: the non-blocking send; a 503 changes nothing |
| `FanTake`, `FanSend`, `FanQuit` | `fanOut`: take and make the barrier, one copy, the return at `ctx.Done` between copies |
| `Add(s)`, `CountDown(s)`, `Mark(s)`, `MsgAck(s)`, `ManagerQuit(s)` | a Manager's `Run`: `add`, the copy's Ack, and for the last one the ingester's closure, whose `Mark` may fail |
| `Expire(m)` | the TTL of a seen entry is over, at any time |
| `Start` | `runServer` up to `ListenAndServe`; `engine.Run` may have failed at a `Restore` |
| `Cancel`, `ServeFails`, `Unwind`, `Exit`, `Crash` | signal; an error of `ListenAndServe`; the deferred `ni.Stop`, `cancel` and `db.Close`, one by one; the end of `runServer`; a kill |

A receipt is a message and the number of its delivery. `recorded[s]` is the set
of receipts stream `s` holds; a stream in `Persistent` (a tumbling one with a
store) has them again after a restart, any other (sliding, or no `--data`) has
lost them. That this is what a Manager does, is what `Tumbling` proves.

`phase` is where the process stands: `up`; `cancelled` by a signal, or `severed`
(`ListenAndServe` failed and `ni.Stop` was called first, the context still live);
`disconnected` with the context done; `closed`, the database too; `down`. The
goroutines run on through all of these, as `runServer` waits for none. Once the
database is closed, saves, marks and reads fail. With a failed `Restore` there is
no `fanOut` (`quit` has it from the start), while the ingesters go on:
`EngineIsDead`.

`excused` is a history variable: messages that fell due again before their Ack
callback had marked them, or that the dedupe store failed to mark, to find or to
keep.

Abstractions: every message has an id, as JetStream's metadata gives it one.
Redelivered and new messages may come in any order. The server
pushes nothing more to a process told to stop; what it would push shares the
fate of what is pending in the subscription. `Add` is one step: what lies between
its writes is in `Tumbling`, and so is a `Save` that fails with the database open.
A lost ack, an early AckWait expiry and an error of the database are faults,
bounded by `MaxFaults`. The consumer outlives the process: whether `Drain`
deletes it is up to the client library.

### Sliding.tla: the sliding Manager

`add` touches memory only and is the single action `Add`; `Ack`, `Tick`,
`CloseWindow(k)`, `EndTick` and `Return` are the rest of `Run` and
`closeExpired`. `WindowsOf` is the code's loop over `size / slide` starts,
`Covering` the windows `[start, start + size)` that hold the instant: the
property `InOrderIsComplete` is stated with the latter. Nothing survives the
process, so the model is one life of it.

### Pipeline.tla: the engine

| Action | Code |
|---|---|
| `StreamKey`, `Streams`, `RulesOf` | the grouping of rules in `Engine.Run`, `normalizeGroupBy` |
| `StartStream(s)`, `RestoreFails(s)`, `StartLoop` | the loop over the streams: Manager, `Restore` or its error, goroutines; then `fanOut` and the loop |
| `OpenWindow`, `Correct`, `Flush`, `Send`, `AbortFlush`, `ManagerReturns` | a Manager, as far as its batches go |
| `TakeBatch(s)`, `HandOver(s)`, `ForwarderReturns(s)` | a stream's forwarder, which loses the batch in hand when the context is done |
| `TakeTagged`, `Emit(c)`, `RunReturns` | the loop: a batch, the next of the remaining `calls` of `Emit` for a rule and a notifier, `ctx.Done` |

A window may be flushed once more (`tumbling.go`, last case of `add` after
`gcClosed`) or corrected without a first flush (third case), so the Manager here
numbers the batches of a window and does not say of which kind they are.
`Emit` stands for `Aggregate` and the notifier: neither has state, and the loop
ignores what they return. A `group_by` field is a sequence of atoms, because
`normalizeGroupBy` joins fields with a bar, and a field may have one in its name. When `Restore` fails, `Run`
returns with the streams started before running on: their Managers flush what
they restored, and nobody evaluates it.

### Alerting.tla: rules, aggregation, HAVING

`Accept`, `Refuse` and `UseBuiltIn` are `loadRules` with a file of one rule and its
`notify` list: `IsAccepted`, `IsSink`, `IsLoadable` are the checks of `toRule`,
`toNotifyConfig` and `LoadConfig`, `ToRule` and `Sinks` what comes of a file that
passes. `Evaluate(more)` is a round of the loop for one rule and one window: `Match`,
`FieldFloat`, `Aggregate`, `Having.Satisfied`. Of the Manager only the batches are left. As long as it holds
the window, the next batch has the events of the last one and `more`, any number that has
arrived since, or none when a window is flushed again after a restart. `LetGo` is `gcClosed`
dropping the window: what comes of it then is a batch of `more` alone. When `gcClosed` may do so
is in `Tumbling`; here it may at any time. A sliding window has one batch only, which is less.

A `float64` is a fraction `<<n, d>>` with `d` >= 0, where `<<1, 0>>`, `<<-1, 0>>` and `NaN`
(`<<0, 0>>`) are what `math.Inf` and `ParseFloat` may yield; comparison with a NaN is
false. Rounding is not modelled, nor is a field that holds an infinity (`MAX` and `MIN` of
nothing do); a threshold may be any `float64`. `Visited` has the accumulator of `Aggregate`'s
loop after each of the events. A duration of the file is set or not, parses or not, and has a length. An event
has a level and one more field, which may be absent; one of a type that is no number is
to the aggregation as if it were absent.

### BucketStore.tla: the key space

The database is a set of entries, a key a sequence of atoms in which `"/"` is
one: `KeyPrefix`, `BucketKey`, `CheckpointKey`, `SeenKey` are translated piece by
piece, and `LoadAll` is a prefix scan. `saved`, `marks` and `seen` are histories of what each
stream and the ingester wrote. Two assumptions name what the code leaves to its
user: `NamesAreFlat`, no slash in the names of `group_by` fields, and
`OneStartASecond`, no two windows of a size whose starts print as the same second. Group values are
free: slashes, digits, the empty name, and words that look like other keys.

### MC modules

`MCTumbling`, `MCDelivery`, `MCSliding`, `MCPipeline`, `MCAlerting` and `MCBucketStore` declare the model values and the
symmetry set (receipts of `tumbling`) of the instances. Operators that say "Mutant of" are
altered forms of the definition that follows them, used to see that each
property is able to fail.

## 3. The runs

| Run | Shows |
|---|---|
| `tumbling` | `TypeOK`, `RestartTransparent`, `AckedNeverLost`, `RetainedForHorizon`, `OnlyLateEventsCorrect`, `BatchesAreComplete`, and `KeepsPromise`: `Tumbling` implements `WindowPromise` |
| `tumbling_live` | `AckedIsSent` |
| `delivery` | `TypeOK`, `SettledIsRecorded`, `AckAfterAllStreams`, `CountedOnceUnlessExcused` |
| `delivery_live` | `EveryMessageSettles`, `AcceptedIsRecorded` |
| `sliding` | `TypeOK`, `EmittedOnce`, `InOrderIsComplete`, `HeldIsEmitted` |
| `pipeline` | `TypeOK`, `EvaluatedInOrder`, `SentIsEvaluated` |
| `alerting` | `TypeOK`, `ValueIsAggregate`, `CorrectionsRealert` |
| `bucket_store` | `TypeOK`, `RestoreIsOwn`, `LookupsAreOwn` |
| `tumbling_store_fails` | counterexample to `AckedIsDurable`: `append` drops the error of `Save` |
| `tumbling_zero_lateness` | counterexample to `ZeroLatenessDisablesCorrection` |
| `delivery_double_count` | counterexample to `CountedOnce`: AckWait ends while the receipt is queued |
| `sliding_uneven` | counterexample to `InOrderIsComplete` with a slide that does not divide the default window |

What the properties say, in the words of the code:

- *RestartTransparent*: at every point of `add`, `closeExpired` and `gcClosed`,
  the maps `Restore` would build are those in memory, but for one window whose
  batch is sent and whose Closed flag is not saved. That window is flushed
  again, which is at-least-once, never lost.
- *AckedNeverLost*, *RetainedForHorizon*: an acknowledged event is in an open
  persisted bucket or was part of a batch, and it is not deleted before
  a full lateness after its window was due.
- *OnlyLateEventsCorrect*: a corrected batch is caused by an event behind the
  watermark, or by one whose window the clock had flushed.
- *BatchesAreComplete*: up to the horizon a batch, first or corrected, holds all
  acknowledged events of its window and all events of the batches before; a correction
  never falls behind what it replaces, restarts included.
- *SettledIsRecorded*: a message the server forgets, or that the dedupe store
  would swallow, is held by every stream with a store.
- *AckAfterAllStreams*: the callback runs once per receipt, after all.
- *CountedOnceUnlessExcused*: lost acks never cause a double count. A message that
  falls due while its first receipt is in the pipeline, whose process dies
  between `Save` and `Mark`, or whose seen entry is not written, not read or
  expires, may be counted twice, and this is all that may be.
- *EveryMessageSettles*, *AcceptedIsRecorded*: the one thing that keeps a message or
  an accepted post from its streams for good is an engine that could not start in
  a process that goes on without it.
- *InOrderIsComplete*: stated for events that are not late, against the windows
  a reader of `docs/` expects, not against the loop of the code.
- *EvaluatedInOrder*: every notifier gets the batches of a window for a rule in
  the order they were sent, without gap or repetition, so that the last alert is
  the current one.
- *SentIsEvaluated*: no full channel and no slow notifier makes the engine drop
  a batch.
- *ValueIsAggregate*: event by event, `Aggregate` arrives at the sum, mean, maximum or
  minimum as mathematics has it, wherever that is defined.
- *CorrectionsRealert*: where more events can only make the condition more true (COUNT and
  MAX above a threshold, MIN below one), a correction does not withdraw the alert, as long as
  the Manager holds the window. That a correction has the events of the batch it replaces until the
  horizon is `BatchesAreComplete`. After it, and always with a lateness of 0, `gcClosed` has
  dropped the window: a late event is then emitted alone, and its correction may well not fire
  where the first batch did. The property says nothing of that case.
- *RestoreIsOwn*, *LookupsAreOwn*: prefix scan and lookups return to each stream, and
  to the ingester, exactly what they wrote.

**Bounds.** *Tumbling*: three receipts over three windows of size 2, lateness 1,
an out channel of one batch, two stops, the clock up to 6. Three receipts are
what it takes to open a window, move the watermark past it and correct it;
timestamps 1, 2, 3, 5 hit the first and the last second of a window and a jump
over one; at 5 the watermark, and at 4 the clock, have passed the horizon of the
first window, so that `gcClosed` drops it; two stops allow a crash during the
recovery from one, and a graceful stop with a crash in it. With a channel of one
a second send in the same tick already blocks. *TumblingLive* lets the clock go
to 7, past the end of the last window plus the lateness, or the fallback would
never fire. *Delivery*: one message, one that does not decode, one post, two
streams of which one persists, channels of one, two faults (one for liveness) and one
stop; a message is then delivered up to four times, as many as two faults and a stop
can cause, and each channel can be full. Two faults are a lost ack and the database
error or early expiry that makes it matter. *Sliding*: a size of two slides, two receipts, the
clock to the end of the last window.
*Pipeline*: two rules on a tumbling stream and one on a
sliding one, two notifiers, one window per stream with up to three batches,
channels of one: out channel, forwarder, `batchCh` and loop hold a batch each, so
all three are on the way at once and the two forwarders meet at a full `batchCh`.
*Alerting*: all files that are wrong in one place or right, every aggregation, filter and
operator, batches of up to three events with values that are missing, NaN, negative,
positive or tied, thresholds of 0, 1 and infinity; a correction adds up to three events, and after
the window is let go of any batch may follow any other. *BucketStore*: two sizes of which one begins as the other
ends, fields and groups with prefixes, slashes and empty names, two starts, three writes:
two to collide and one to be lost by it.

`CHECK_DEADLOCK FALSE` stands in the configurations of `Delivery`, `Sliding`,
`Pipeline` and `Alerting`, where the system may come to rest: every message settled and stops
used up, the goroutines returned, the file refused or the batch full. `Tumbling` always has a tick to take and is checked for
deadlock; `emitBlocking` into a full channel after the forwarder returned is a
goroutine that hangs until the process ends, which `Exit` allows.

**Fairness.** Weak fairness only. *Tumbling*: goroutine, ticker and clock keep
going, the forwarder reads as long as the context is not cancelled (it returns
then), a process told to stop ends (`runServer` does not wait for the
goroutines) and is started again. *Delivery*: the server delivers what is due,
AckWait ends for a receipt that is no longer in the pipeline, each goroutine runs,
processes end and restart. Nobody has to send an event, lose an ack or
stop the process, and early expiries are never fair. *Sliding*: as *Tumbling*,
without the process; `HeldIsEmitted` excuses a cancelled context. *Pipeline*: the
goroutines run and `Emit` returns (a webhook's client has a timeout of five
seconds). `HandOver` is strongly fair: several forwarders send to `batchCh`, and
Go serves waiting senders in their order.

Findings come from runs with counterexamples, each against a sentence of the
repository quoted in `PROJECT.json`. Also noticed, without a run:

- with windows of one and a half seconds (any size that is no whole number of seconds)
  `end.Unix()` drops the fraction, and the first event of a window is taken for late:
  `OnlyLateEventsCorrect` fails for `Second = 2`, `Size = 3`, `Lateness = 0`; and two windows
  of 700ms may start in one second and share a key in the database;
- a sliding Manager acks what it holds in memory only, where `engine.go:215` has the
  ack fire after all managers have durably processed the event;
- a `group_by` field with a slash, `size/x`, makes one namespace the prefix of another,
  where `badger.go:38` has buckets never collide; `group_by` fields are joined with a bar, so that
  the fields `host` and `path` and the one field `host|path` share a Manager, which groups by
  those of the first rule (`engine.go:85` says distinct combinations have distinct keys), and so
  are the values of a group key;
- MAX and MIN of matching events without the field are infinite, which may satisfy HAVING,
  and the default webhook template (`rule.go:66`) renders it as `+Inf`, which is not JSON; AVG
  divides by the events without the field too; a field `"NaN"` makes the SUM of its window NaN
  and silences the rule;
- `window.slide` of a tumbling rule, and `filter.eq` without `filter.field`, are ignored,
  where `config.go:73` has misconfiguration fail fast; a rule without `window.size` is not
  checked against its slide (`sliding_uneven`);
- a window the clock flushed and `gcClosed` dropped is opened anew by an event the
  watermark has not passed, and its second batch is not marked as corrected; a
  late event for a dropped window is emitted as a correction that holds that event
  alone (`tumbling.go:213` speaks of windows never held open);
- `docs/implementation-guide.md:9` says 429 where `ServeHTTP` answers 503;
  `docs/data-model.md` gives a channel size of 10,000 where the code has 1024.

## 4. The proofs

Every invariant and action property that a passing run checks is a theorem of its
specification, for any number of events, messages, streams, rules, crashes and clock steps,
any bound on the faults and any capacity of the channels. The theorems rest on the
`ASSUME`s of the modules, which say of what kind the constants are, and on what the tables
name. In each `...Proofs` module `IInv` is the inductive invariant; it was checked with TLC on
the instance of the run before it was proved. A step is proved per action, one conjunct at a time.

### Tumbling

| Theorem | Says |
|---|---|
| `TypeCorrect` | `Spec => []TypeOK` |
| `Invariance` | `Spec => []IInv` |
| `RestartIsTransparent` | `Spec => []RestartTransparent` |
| `AckedIsNeverLost` | `Spec => []AckedNeverLost` |
| `AckedIsRetained` | `Spec => []RetainedForHorizon` |
| `CorrectionsAreForLateEvents` | `Second = 1 => (Spec => []OnlyLateEventsCorrect)` |
| `BatchesHoldAllAcked` | `Spec => BatchesAreComplete` |
| `PromiseIsKept` (`PromiseProofs`) | `~StoreMayFail => (Spec => KeepsPromise)`: the refinement of `WindowPromise` |
| `PromiseLosesNothing` (`WindowPromiseProofs`) | `Spec => []NothingLost` of `WindowPromise`, for any events and windows |

The properties are not inductive. `IInv` adds what they rest on:
`ControlInv` ties each program point to the variables it uses (an event in hand
in `append`, `emit`, `ack`, a key in `save` and only there), `TodoInv` says that
the keys a tick still has to handle are expired windows or closed ones past
their horizon *for the `now` and the watermark the tick started with*,
`PendingInv` that the event between its `append` and its `Ack` is in the bucket
it was saved to, and was part of a batch if that bucket is closed, and
`ClosedInv` why a window is closed: the watermark or the clock has passed it.
`ClosedInv` is what makes a correction evidence of lateness;
`PendingInv` carries an event from the save to the ack, across a flush that
cannot come in between. `Second = 1` in one theorem is needed: with half
seconds and a size of three of them the property fails.

Two invariants more are about the persisted buckets. `Filed`: each holds events of its own window
only. With it three things are all that ever happens to them (`StoreSteps`): the event
in hand is added to its own (`Recorded`), a closed one past its horizon is deleted (`Dropped`), or
nothing, the save of the Closed flag included. Hence `SentInv`: an event of a batch is still on disk
until the horizon of its window. A batch is the persisted bucket (`BucketIsSent`, by
`RestartTransparent`), so that `BatchesAreComplete`, an action property, follows from `SentInv` for the
events of earlier batches and from `RetainedForHorizon` for those acknowledged.

`PromiseIsKept` rests on the same three cases: the first is `Record`, the second `Forget`,
as `AckedNeverLost` says that nothing is owed to a closed bucket. A send is a `Publish` of the
persisted bucket, complete by `RetainedForHorizon`; what moves only the watermark or the clock is `Settle`.

### Delivery

| Theorem | Says |
|---|---|
| `TypeCorrect`, `Invariance` | `Spec => []TypeOK`, `Spec => []IInv` |
| `AckIsLast` | `Spec => []AckAfterAllStreams` |
| `SettledNeverLost` | `Spec => []SettledIsRecorded` |
| `CountsOnce` | `Spec => []CountedOnceUnlessExcused` |

`ackBarrier` counts copies and does not look at who counts. That its zero means "all have
added" is an argument about the way of a receipt. The places on that way (the subscription, the
handler, the event channel, `fanOut`'s hand, a stream's channel, its Manager) hold each receipt
at most once per Manager (`OnceInv`), and a fresh delivery or post is a receipt that none of
them holds yet (`IssuedInv`). So while a stream's copy is under way the stream has not
counted, and `BarrierInv` can say how far the barrier is from zero: it has at least as many to count
as there are copies on their way and streams that have not recorded the receipt. `AckInv` is what is
left of it at zero: whoever runs the callback waits for nobody. `SettledIsRecorded` joins
`IInv` because a message that is marked or acked must stay recorded, restarts included, and
only `AckInv` says that it was. `CountedInv` follows a message that is not excused from its
first delivery: until it is done nothing delivers it again, and once it is, the dedupe store has it, so that its only receipt
beyond the handler is the first. `WorkInv` and `DownInv` say what a Manager has in hand and what
a process that is down has not.

### Sliding

| Theorem | Says |
|---|---|
| `TypeCorrect`, `Invariance` | `Spec => []TypeOK`, `Spec => []IInv` |
| `WindowsAreEmittedOnce` | `Spec => []EmittedOnce` |
| `InOrderIsCounted` | `EvenWindows => (Spec => []InOrderIsComplete)` |

`TodoInv` says that what a tick has still to flush is open and expired, `ClosedInv` that what was
emitted is in `closedK`, and what is in `closedK` is expired and not open. For `InOrderIsComplete` the theorem
needs that the loop of `add` finds all windows that hold the instant (`CoveringIsVisited`), and that a window an event in order finds closed was closed by the clock.
`EvenWindows`, `Slide % Second = 0 /\ Size % Slide = 0`, is what this rests on. The second half is
what `LoadConfig` checks of a rule with a `window.size` (`SlideFits`; `sliding_uneven` shows the property
without it). The first half it does not check: with fractions of a second `End().Unix()` is
earlier than the end, and a window may be flushed before an event in order reaches it.

### Pipeline

| Theorem | Says |
|---|---|
| `TypeCorrect`, `Invariance` | `Spec => []TypeOK`, `Spec => []IInv` |
| `BatchesComeInOrder` | `Spec => []EvaluatedInOrder` |

A batch passes four stages: out channel, forwarder, `batchCh`, evaluation. `OrderInv` says that the
numbers of a window only fall along them and within each channel, `CompleteInv` that a batch that was
sent is evaluated or on its way as long as its forwarder runs, and that of a window whose batch was
lost at shutdown nothing that comes later is beyond the forwarder. `LoopInv` says which calls of the
current batch are made. Together a call finds exactly the numbers below its own.
`OwnInv` and `ManagerInv` say whose batches are where and what a Manager sends next.

### BucketStore

| Theorem | Says |
|---|---|
| `TypeCorrect`, `Invariance` | `Spec => []TypeOK`, `Spec => []IInv` |
| `RestoresOwn` | `Spec => []RestoreIsOwn` |
| `FindsOwn` | `Spec => []LookupsAreOwn` |

The invariant, `DbInv`, says that the database is the histories: an entry for each bucket saved last, each
watermark, each mark, and nothing else. All the work is in the keys, which are read back from
both ends: the kind is the first atom, the start the last, and the namespace ends at the
second slash after the size, as the `group_by` has none (`NamesAreFlat`),
whatever slashes the group has (`PrefixTells`, `BucketTells`, `CheckpointTells`, `SeenTells`, `KindsDiffer`).

### Alerting

| Theorem | Says |
|---|---|
| `TypeCorrect`, `Invariance` | `Spec => []TypeOK`, `Spec => []IInv` |
| `ValueIsRight` | `Spec => []ValueIsAggregate` |
| `CorrectionsKeepAlert` | `Spec => CorrectionsRealert` |

`Fits` says what the accumulator of `Aggregate`'s loop is to the events: `count` the number of those that
match, `sum` the sum of their numbers unless there is a NaN, `max` and `min` one of the numbers that no
other passes, or the infinity they began with. With one event more the loop ends one round later
(`VisitedGrows`), and a round keeps it (`RoundFits`); so it holds of every batch (`AlwaysFits`). `BatchInv` says
that `result` and `fired` are what comes of the last batch while the window is held. `Visited` and `SumFunction` are
recursive functions; that there is such a function, and only one, is proved by looking at the least index,
or the smallest part of the set, for which it fails (`RoundsExist`, `SumsExist`, `SumsByAny`). For
`CorrectionsRealert` a round raises `count` and `max` and lowers `min` (`RoundMoves`), and a value
that moves away from a threshold stays on its side, whichever of the infinities, fractions or NaN
the threshold is (`StaysAbove`, `StaysBelow`): one event keeps an alert (`RoundKeeps`), and so do all
that a correction adds (`MoreKeep`).

### Model-checked only

Liveness, which is outside the prover: `AckedIsSent`, `EveryMessageSettles`, `AcceptedIsRecorded`,
`HeldIsEmitted`, `SentIsEvaluated`. And the counterexamples, those with `StoreMayFail` among them.

## 5. Not modelled

Rendering and sending of notifications, metrics, command line parsing, start-up errors
that end the process at once, the NATS connection and the creation of the stream, HTTP,
JSON and YAML decoding: I/O without state another part reads. `Manager` with a nil out
channel and the closing of input channels occur in unit tests only. Delivery of alerts
across a crash is promised nowhere: a batch with its Closed flag saved exists in
channels only. `closedK` of the sliding Manager grows for ever, which no model with
finitely many windows can show.

Which files are refused, and which rules share a Manager, has no property of its own: one would only
restate `IsAccepted` or `StreamKey`. Both are modelled because they decide which rules are evaluated,
in `alerting`, and on which batches, in `pipeline`; `sliding_uneven` shows a check that is skipped.

What is left is an abstract specification of `Delivery` and of the engine, as `WindowPromise` is of
`Tumbling`, and the proofs that these implement it.
