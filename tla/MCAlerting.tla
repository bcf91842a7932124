----------------------------- MODULE MCAlerting -----------------------------
(***************************************************************************)
(* Instances of Alerting for TLC: files with one rule, each wrong or right *)
(* in its window, its sinks or its aggregation, and one with two rules.    *)
(***************************************************************************)
EXTENDS Alerting

Unset     == [set |-> FALSE, parses |-> FALSE, length |-> 0]
Garbage   == [set |-> TRUE, parses |-> FALSE, length |-> 0]
Length(n) == [set |-> TRUE, parses |-> TRUE, length |-> n]

Plain ==
  [named |-> TRUE, type |-> "", size |-> Unset, slide |-> Unset, filter |-> "", eq |-> <<>>,
   func |-> "count", field |-> "", having |-> [gt |-> <<1, 1>>], emit |-> "console"]

Windows ==
  {[Plain EXCEPT !.type = t, !.size = size, !.slide = slide] :
     t \in {"", "tumbling", "sliding", "session"},
     size \in {Unset, Garbage, Length(-2), Length(0), Length(2), Length(4)},
     slide \in {Unset, Garbage, Length(-2), Length(0), Length(2), Length(3), Length(6)}}

\* The last of them asks for an empty field, which no event has.
Filters ==
  {<<"", <<>>>>, <<"level", <<"ERROR">>>>, <<"v", <<2, 1>>>>, <<"host", <<"a">>>>, <<"v", <<>>>>}

Aggregations ==
  {[Plain EXCEPT !.filter = f[1], !.eq = f[2], !.func = func, !.field = field,
                 !.having = [o \in {op} |-> value]] :
     f \in Filters, func \in NumericFuncs \cup {"count", "COUNT"}, field \in {"", "level", "v"},
     op \in Operators \cup {"eq"}, value \in {Zero, <<1, 1>>, Inf}}

Misshapen ==
  {[Plain EXCEPT !.named = FALSE], [Plain EXCEPT !.emit = "webhook"],
   [Plain EXCEPT !.having = <<>>], [Plain EXCEPT !.having = [gt |-> <<1, 1>>, lt |-> <<1, 1>>]]}

FileOf(rules, notify) == [parses |-> TRUE, rules |-> rules, notify |-> notify]

Console    == [type |-> "console", url |-> FALSE, template |-> TRUE]
Webhook    == [type |-> "webhook", url |-> TRUE, template |-> TRUE]
NotifyLists ==
  {<<>>, <<Console, Webhook>>, <<[Webhook EXCEPT !.url = FALSE]>>,
   <<[Webhook EXCEPT !.template = FALSE]>>, <<[Webhook EXCEPT !.type = "slack"]>>}

SomeFiles ==
  {FileOf(<<r>>, <<>>) : r \in Windows \cup Aggregations \cup Misshapen}
  \cup {FileOf(<<Plain>>, notify) : notify \in NotifyLists}
  \cup {FileOf(<<>>, <<>>), [FileOf(<<Plain>>, <<>>) EXCEPT !.parses = FALSE],
        FileOf(<<Plain, [Plain EXCEPT !.func = "sum"]>>, <<>>),
        FileOf(<<Plain, [Plain EXCEPT !.func = "sum", !.field = "v"]>>, <<>>)}

Twenty     == <<20, 1>>
SomeValues == {<<>>, <<-1, 1>>, <<2, 1>>, NaN}
=============================================================================
