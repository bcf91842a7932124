---------------------------- MODULE BucketStore ----------------------------
(***************************************************************************)
(* internal/store/badger.go: one key-value database for the buckets and    *)
(* the watermarks of every tumbling stream and for the messages the        *)
(* ingester has seen.  A stream is a namespace, its size and its group_by  *)
(* (streamKey.namespace), and a namespace is a prefix of keys.             *)
(*                                                                         *)
(* A name, be it a group_by or the value of one, is a sequence of atoms,   *)
(* and the keys are what the code's format strings make of them.  Every    *)
(* operation is one transaction.  What a caller has stored, and may expect *)
(* to find again, is kept in histories.                                    *)
(***************************************************************************)
EXTENDS Integers, SequencesExt

CONSTANTS
  Sizes,       \* window sizes, as String prints them
  Fields,      \* values of group_by
  Groups,      \* values of the group key
  Instants,    \* the starts of windows, in clock units
  Second,      \* clock units in one second
  Messages,    \* ids of messages
  MaxWrites    \* bound: writes to the database

ASSUME BucketStoreAssumption ==
  /\ Fields \cup Groups \subseteq Seq(STRING)
  /\ Instants \subseteq Nat
  /\ Second \in Nat \ {0}
  /\ MaxWrites \in Nat

\* No group_by has a slash in it.  The code does not check it.
ASSUME NamesAreFlat == \A f \in Fields : \A i \in DOMAIN f : f[i] # "/"

Namespace == [size : Sizes, groupBy : Fields]
Key       == [grp : Groups, start : Instants]

\* time.Time.Unix, in decimal.
Unix(t) == <<ToString(t \div Second)>>

\* No two windows of a stream start in the same second, as they do with some sizes below
\* one.  The code does not check that either.
ASSUME OneStartASecond == \A s, t \in Instants : Unix(s) = Unix(t) => s = t

\* namespace: the size and the grouping, with a slash.
Name(ns) == <<ns.size, "/">> \o ns.groupBy

\* Mutant of KeyPrefix: nothing ends the namespace.
OpenPrefix(ns) == <<"window", "/">> \o Name(ns)

KeyPrefix(ns) == <<"window", "/">> \o Name(ns) \o <<"/">>

BucketKey(ns, k) == KeyPrefix(ns) \o k.grp \o <<"/">> \o Unix(k.start)

\* Mutant of CheckpointKey: all streams of a size share a watermark.
SizeOnly(ns) == <<"checkpoint", "/", ns.size>>

CheckpointKey(ns) == <<"checkpoint", "/">> \o Name(ns)

SeenKey(m) == <<"seen", "/", m>>

VARIABLES
  db,      \* the database: entries, no two of them with one key
  writes,  \* how many writes there were
  saved,   \* history: the buckets of each namespace, as last saved
  marks,   \* history: the watermark each namespace saved last, if any
  seen     \* history: the messages marked and not expired

vars == <<db, writes, saved, marks, seen>>

Bucket == [key : Key, version : 1..MaxWrites]

TypeOK ==
  /\ writes \in 0..MaxWrites
  /\ \A x, y \in db : x.key = y.key => x = y
  /\ saved \in [Namespace -> SUBSET Bucket]
  /\ marks \in [Namespace -> 0..MaxWrites]
  /\ seen \subseteq Messages

Init ==
  /\ db = {} /\ writes = 0
  /\ saved = [ns \in Namespace |-> {}]
  /\ marks = [ns \in Namespace |-> 0]
  /\ seen = {}

\* Mutant of Without: what was there stays.
Everything(key) == db

Without(key) == {entry \in db : entry.key # key}

\* One db.Update: what it writes is told apart by its number.
Put(key, value) ==
  /\ writes < MaxWrites
  /\ writes' = writes + 1
  /\ db' = Without(key) \cup {[key |-> key, value |-> value]}

OthersOf(ns, k) == {b \in saved[ns] : b.key # k}

Save(ns, k) ==
  LET bucket == [key |-> k, version |-> writes + 1] IN
  /\ Put(BucketKey(ns, k), bucket)
  /\ saved' = [saved EXCEPT ![ns] = OthersOf(ns, k) \cup {bucket}]
  /\ UNCHANGED <<marks, seen>>

Delete(ns, k) ==
  /\ db' = Without(BucketKey(ns, k))
  /\ saved' = [saved EXCEPT ![ns] = OthersOf(ns, k)]
  /\ UNCHANGED <<writes, marks, seen>>

SaveCheckpoint(ns) ==
  /\ Put(CheckpointKey(ns), [maxTS |-> writes + 1])
  /\ marks' = [marks EXCEPT ![ns] = writes + 1]
  /\ UNCHANGED <<saved, seen>>

Mark(m) ==
  /\ Put(SeenKey(m), [mark |-> m])
  /\ seen' = seen \cup {m}
  /\ UNCHANGED <<saved, marks>>

\* The entry's TTL is over.
Expire(m) ==
  /\ m \in seen
  /\ db' = Without(SeenKey(m))
  /\ seen' = seen \ {m}
  /\ UNCHANGED <<writes, saved, marks>>

Next ==
  \/ \E ns \in Namespace : \/ \E k \in Key : Save(ns, k) \/ Delete(ns, k)
                           \/ SaveCheckpoint(ns)
  \/ \E m \in Messages : Mark(m) \/ Expire(m)

Spec == Init /\ [][Next]_vars

-----------------------------------------------------------------------------
LoadAll(ns)        == {entry.value : entry \in {x \in db : IsPrefix(KeyPrefix(ns), x.key)}}
LoadCheckpoint(ns) == {entry.value.maxTS : entry \in {x \in db : x.key = CheckpointKey(ns)}}
Seen(m)            == \E entry \in db : entry.key = SeenKey(m)

(***************************************************************************)
(* Properties.                                                             *)
(***************************************************************************)

\* Buckets, "so buckets from managers of different sizes never collide", and LoadAll's
\* prefix scan: a stream gets back the buckets it saved and has not deleted, each as it
\* saved it last, none of another stream's and none twice, whatever slashes, digits or
\* empty names the values of its group_by hold.
RestoreIsOwn ==
  \A ns \in Namespace : LoadAll(ns) = saved[ns]

\* The watermark a stream finds and the messages the ingester recognises are those it
\* saved last and marked, whatever the buckets beside them are called.
LookupsAreOwn ==
  /\ \A ns \in Namespace : LoadCheckpoint(ns) = {marks[ns]} \ {0}
  /\ \A m \in Messages : Seen(m) <=> m \in seen

=============================================================================
