------------------------------ MODULE Alerting ------------------------------
(***************************************************************************)
(* From rules.yaml to an alert: loadRules of cmd/streamrail/main.go with   *)
(* the checks of internal/rule/config.go, then, for one of the rules and   *)
(* one window, the aggregation of internal/aggregator/agg.go, HAVING, and  *)
(* the notifiers.  Of the Manager only the batches it makes of that window *)
(* are left: as long as it holds the window, each holds the events of the  *)
(* one before and what has arrived since; once it has let go of it, a late *)
(* event begins anew.  When it may do so is Tumbling's matter.             *)
(*                                                                         *)
(* A float64 is a fraction <<n, d>>: d is 0 for the infinities, <<1, 0>>   *)
(* and <<-1, 0>>, and for NaN, <<0, 0>>; rounding is left out.  An event   *)
(* has a level and at most one numeric field, v; a field of any other type *)
(* is to the aggregation as if it were absent.  A duration of the file is  *)
(* set or not, parses or not, and has a length.                            *)
(***************************************************************************)
EXTENDS Integers, Sequences, FiniteSets, Functions

CONSTANTS
  Files,      \* what rules.yaml may hold
  Threshold,  \* --threshold
  Values,     \* what an event may hold in v: <<>> if it is absent
  MaxEvents,  \* bound: events of the window
  None        \* no file, no rule

Event == [level : {"ERROR", "INFO"}, v : Values]

-----------------------------------------------------------------------------
(***************************************************************************)
(* float64                                                                 *)
(***************************************************************************)

Zero == <<0, 1>>
NaN  == <<0, 0>>
Inf  == <<1, 0>>
Float == {x \in Int \X Nat : x[2] = 0 => x[1] \in {-1, 0, 1}}

Less(x, y) ==
  /\ NaN \notin {x, y}
  /\ x[1] * y[2] < y[1] * x[2] \/ (x[2] = 0 /\ y[2] = 0 /\ x[1] < y[1])

AtMost(x, y) == NaN \notin {x, y} /\ ~Less(y, x)
Plus(x, y) == <<x[1] * y[2] + y[1] * x[2], x[2] * y[2]>>

\* A field may hold NaN, but no infinity; what HAVING compares with may be any float64.
ASSUME AlertingAssumption ==
  /\ Values \subseteq {<<>>, NaN} \cup (Int \X {1})
  /\ MaxEvents \in Nat
  /\ Threshold \in Float
  /\ \A f \in Files : f.notify \in Seq(Range(f.notify))
  /\ \A f \in Files : \A i \in DOMAIN f.rules : LET yr == f.rules[i] IN
       /\ yr.size.length \in Int /\ yr.slide.length \in Int
       /\ \A op \in DOMAIN yr.having : yr.having[op] \in Float

-----------------------------------------------------------------------------
(***************************************************************************)
(* LoadConfig: every rule and every sink is checked, one error refuses the *)
(* whole file.                                                             *)
(***************************************************************************)

NumericFuncs == {"sum", "max", "min", "avg"}
Operators    == {"gt", "gte", "lt", "lte"}

IsPositive(duration) == duration.parses /\ duration.length > 0

SlideFits(yr) ==
  yr.size.set => /\ yr.size.length % yr.slide.length = 0
                 /\ yr.slide.length <= yr.size.length

\* toRule returns no error; parseHaving wants exactly one operator.
IsAccepted(yr) ==
  /\ yr.named
  /\ yr.type \in {"", "tumbling", "sliding"}
  /\ yr.size.set => IsPositive(yr.size)
  /\ yr.type = "sliding" => yr.slide.set /\ IsPositive(yr.slide) /\ SlideFits(yr)
  /\ yr.func = "count" \/ (yr.func \in NumericFuncs /\ yr.field # "")
  /\ Cardinality(DOMAIN yr.having) = 1 /\ DOMAIN yr.having \subseteq Operators
  /\ yr.emit \in {"", "console"}

ToRule(yr) ==
  LET op == CHOOSE o \in DOMAIN yr.having : TRUE IN
  [filter |-> yr.filter, eq |-> yr.eq, func |-> yr.func, field |-> yr.field,
   op |-> op, value |-> yr.having[op],
   size |-> IF yr.size.set THEN yr.size.length ELSE 0,
   slide |-> IF yr.type = "sliding" THEN yr.slide.length ELSE 0]

\* Mutant of IsSink: any entry will do.
AnySink(yn) == TRUE

\* toNotifyConfig, and NewWebhook's parsing of the template.
IsSink(yn) == yn.type = "console" \/ (yn.type = "webhook" /\ yn.url /\ yn.template)

IsLoadable(file) ==
  /\ file.parses
  /\ file.rules # <<>>
  /\ \A i \in DOMAIN file.rules : IsAccepted(file.rules[i])
  /\ \A i \in DOMAIN file.notify : IsSink(file.notify[i])

\* loadRules without a file.
ErrorSpike ==
  [filter |-> "level", eq |-> <<"ERROR">>, func |-> "count", field |-> "",
   op |-> "gt", value |-> Threshold, size |-> 0, slide |-> 0]

\* buildNotifiers; no sinks leave the engine its console.
Sinks(notify) ==
  IF notify = <<>> THEN {"console"} ELSE {notify[i].type : i \in DOMAIN notify}

ASSUME NoneIsNothing ==
  /\ None # ErrorSpike
  /\ \A f \in Files : \A i \in DOMAIN f.rules :
       IsAccepted(f.rules[i]) => None # ToRule(f.rules[i])

-----------------------------------------------------------------------------
(***************************************************************************)
(* Aggregate and HAVING.  A field of an event is <<>> if it is absent.     *)
(***************************************************************************)

FieldString(ev, field) ==
  IF field = "level" THEN <<ev.level>> ELSE IF field = "v" THEN ev.v ELSE <<>>

\* A field that is absent equals nothing, not even an empty eq.
Match(r, ev) ==
  r.filter = "" \/ LET f == FieldString(ev, r.filter) IN f # <<>> /\ f = r.eq

\* FieldFloat: level is a string, whatever it holds.
FieldFloat(ev, field) == IF field = "v" THEN ev.v ELSE <<>>

Nothing == [count |-> 0, sum |-> Zero, max |-> <<-1, 0>>, min |-> Inf]

\* Mutant of Visit: MAX and MIN keep what came last.
VisitLast(r, acc, ev) ==
  LET f == FieldFloat(ev, r.field) IN
  IF ~Match(r, ev) THEN acc
  ELSE [count |-> acc.count + 1, sum |-> acc.sum,
        max |-> IF f # <<>> THEN f ELSE acc.max, min |-> IF f # <<>> THEN f ELSE acc.min]

\* One round of Aggregate's loop.
Visit(r, acc, ev) ==
  LET f == FieldFloat(ev, r.field) IN
  IF ~Match(r, ev) THEN acc
  ELSE [count |-> acc.count + 1,
        sum   |-> IF f # <<>> THEN Plus(acc.sum, f) ELSE acc.sum,
        max   |-> IF f # <<>> /\ Less(acc.max, f) THEN f ELSE acc.max,
        min   |-> IF f # <<>> /\ Less(f, acc.min) THEN f ELSE acc.min]

\* The loop, after each of the events.
Visited(r, events) ==
  LET acc[n \in 0..Len(events)] ==
        IF n = 0 THEN Nothing ELSE Visit(r, acc[n - 1], events[n])
  IN  acc

Aggregate(r, events) ==
  LET acc == Visited(r, events)[Len(events)] IN
  CASE r.func = "sum" -> acc.sum
    [] r.func = "max" /\ acc.count > 0 -> acc.max
    [] r.func = "min" /\ acc.count > 0 -> acc.min
    [] r.func = "avg" /\ acc.count > 0 -> <<acc.sum[1], acc.sum[2] * acc.count>>
    [] r.func = "count" -> <<acc.count, 1>>
    [] OTHER -> Zero

Satisfied(r, value) ==
  CASE r.op = "gt"  -> Less(r.value, value)
    [] r.op = "gte" -> AtMost(r.value, value)
    [] r.op = "lt"  -> Less(value, r.value)
    [] r.op = "lte" -> AtMost(value, r.value)

-----------------------------------------------------------------------------
VARIABLES
  file,    \* the file, None if --config is not set
  phase,   \* of runServer: "load", "refused" or "run"
  rule,    \* the rule under evaluation
  sinks,   \* the kinds of notifier each alert goes to
  batch,   \* the events of the last batch, while the Manager holds the window
  result,  \* what Aggregate made of the last batch
  fired    \* did Emit report an alert for it?

config == <<file, phase, rule, sinks>>
vars   == <<config, batch, result, fired>>

TypeOK ==
  /\ phase \in {"load", "refused", "run"}
  /\ phase = "run" <=> rule # None
  /\ sinks \subseteq {"console", "webhook"}
  /\ batch \in Seq(Event) /\ Len(batch) <= MaxEvents
  /\ result \in Int \X Nat
  /\ fired \in BOOLEAN

Init ==
  /\ file \in Files \cup {None}
  /\ phase = "load" /\ rule = None /\ sinks = {}
  /\ batch = <<>> /\ result = Zero /\ fired = FALSE

UseBuiltIn ==
  /\ phase = "load" /\ file = None
  /\ phase' = "run" /\ rule' = ErrorSpike /\ sinks' = Sinks(<<>>)
  /\ UNCHANGED <<file, batch, result, fired>>

Accept ==
  /\ phase = "load" /\ file # None
  /\ IsLoadable(file)
  /\ phase' = "run" /\ sinks' = Sinks(file.notify)
  /\ \E i \in DOMAIN file.rules : rule' = ToRule(file.rules[i])
  /\ UNCHANGED <<file, batch, result, fired>>

\* runServer returns the error before anything is started.
Refuse ==
  /\ phase = "load" /\ file # None
  /\ ~IsLoadable(file)
  /\ phase' = "refused"
  /\ UNCHANGED <<file, rule, sinks, batch, result, fired>>

\* The next batch of the window: Aggregate, then Emit, which asks HAVING first.  A window
\* of a Manager that was stopped before the Closed flag is saved is flushed again as it is.
Evaluate(more) ==
  /\ phase = "run"
  /\ batch' = batch \o more /\ batch' # <<>>
  /\ result' = Aggregate(rule, batch')
  /\ fired' = Satisfied(rule, result')
  /\ UNCHANGED config

\* gcClosed drops the window: the next batch of it holds late events only.
LetGo ==
  /\ phase = "run" /\ batch # <<>>
  /\ batch' = <<>>
  /\ UNCHANGED <<config, result, fired>>

Next ==
  \/ UseBuiltIn
  \/ Accept
  \/ Refuse
  \/ \E n \in 0..(MaxEvents - Len(batch)) : \E more \in [1..n -> Event] : Evaluate(more)
  \/ LetGo

Spec == Init /\ [][Next]_vars

-----------------------------------------------------------------------------
(***************************************************************************)
(* Properties.                                                             *)
(***************************************************************************)

Matching  == {i \in DOMAIN batch : Match(rule, batch[i])}
Number(i) == FieldFloat(batch[i], rule.field)
Numbers   == {i \in Matching : Number(i) \notin {<<>>, NaN}}
Total     == SumFunction([i \in Numbers |-> Number(i)[1]])

\* Aggregate computes the function the rule names, in whatever order the events came and
\* whichever of them the filter leaves out or the field is missing from: SUM unless
\* there is a NaN, MAX and MIN where there is a number, AVG where there are only these.
ValueIsAggregate ==
  phase = "run" /\ batch # <<>> =>
    CASE rule.func = "count" -> result = <<Cardinality(Matching), 1>>
      [] rule.func = "sum" ->
           (\A i \in Matching : Number(i) # NaN) => result = <<Total, 1>>
      [] rule.func = "avg" ->
           Matching # {} /\ Numbers = Matching =>
             result[1] * Cardinality(Matching) = Total * result[2]
      [] rule.func = "max" ->
           Numbers # {} => /\ \E i \in Numbers : result = Number(i)
                           /\ \A i \in Numbers : AtMost(Number(i), result)
      [] rule.func = "min" ->
           Numbers # {} => /\ \E i \in Numbers : result = Number(i)
                           /\ \A i \in Numbers : AtMost(result, Number(i))

\* "Late-event correction and re-alerting", while the Manager holds the window: where more
\* events can only move the value away from the threshold, COUNT and MAX above it and MIN
\* below it, no correction takes back an alert that some event has matched.  Matching is
\* empty once the Manager has let go: the batch of a later event may well not fire.  That
\* a batch leaves out none of the window before that is BatchesAreComplete of Tumbling.
CorrectionsRealert ==
  [][ /\ phase = "run" /\ fired /\ Matching # {}
      /\ \/ rule.func \in {"count", "max"} /\ rule.op \in {"gt", "gte"}
         \/ rule.func = "min" /\ rule.op \in {"lt", "lte"}
      => fired' ]_vars

=============================================================================
