------------------------- MODULE BucketStoreProofs -------------------------
(***************************************************************************)
(* What holds of BucketStore for any names, instants and messages.  All    *)
(* rests on the keys: from the key of a bucket its namespace can be read   *)
(* back, as the first slash behind the size ends it, and then its group,   *)
(* as the last slash ends it, whatever slashes it has itself.  So the      *)
(* database is what the histories say it is (DbInv).                       *)
(***************************************************************************)
EXTENDS BucketStore, SequenceTheorems, TLAPS

\* The entries that buckets, watermarks and marked messages make.
BucketEntries(S) ==
  UNION {{[key |-> BucketKey(ns, b.key), value |-> b] : b \in S[ns]} : ns \in Namespace}

MarkEntries(M) ==
  {[key |-> CheckpointKey(ns), value |-> [maxTS |-> M[ns]]] :
     ns \in {n \in Namespace : M[n] # 0}}

SeenEntries(W) == {[key |-> SeenKey(m), value |-> [mark |-> m]] : m \in W}

\* The database holds what was stored last and nothing else.
DbInv == db = BucketEntries(saved) \cup MarkEntries(marks) \cup SeenEntries(seen)

HistoryInv ==
  /\ writes \in 0..MaxWrites
  /\ saved \in [Namespace -> SUBSET Bucket]
  /\ marks \in [Namespace -> 0..MaxWrites]
  /\ seen \subseteq Messages
  /\ \A ns \in Namespace : \A b, c \in saved[ns] : b.key = c.key => b = c

IInv == HistoryInv /\ DbInv

-----------------------------------------------------------------------------
(***************************************************************************)
(* Keys.                                                                   *)
(***************************************************************************)

\* What keys are made of.
Atom == STRING \cup {"window", "checkpoint", "seen", "/"} \cup Sizes \cup Messages \cup {ToString(t \div Second) : t \in Instants}

LEMMA Concat ==
  ASSUME NEW p \in Seq(Atom), NEW q \in Seq(Atom)
  PROVE  /\ p \o q \in Seq(Atom)
         /\ Len(p) \in Nat /\ Len(q) \in Nat
         /\ Len(p \o q) = Len(p) + Len(q)
         /\ \A i \in 1..Len(p) : (p \o q)[i] = p[i]
         /\ \A i \in 1..Len(q) : (p \o q)[Len(p) + i] = q[i]
  <1>1. /\ p \o q \in Seq(Atom) /\ Len(p \o q) = Len(p) + Len(q)
        /\ \A i \in 1..(Len(p) + Len(q)) : (p \o q)[i] =
             IF i <= Len(p) THEN p[i] ELSE q[i - Len(p)]
        /\ Len(p) \in Nat /\ Len(q) \in Nat
    BY ConcatProperties, LenProperties
  <1>2. ASSUME NEW i \in 1..Len(p) PROVE (p \o q)[i] = p[i]
    BY <1>1
  <1>3. ASSUME NEW i \in 1..Len(q) PROVE (p \o q)[Len(p) + i] = q[i]
    <2>1. Len(p) + i \in 1..(Len(p) + Len(q)) /\ ~(Len(p) + i <= Len(p)) /\ (Len(p) + i) - Len(p) = i
      BY <1>1
    <2>2. QED
      BY <1>1, <2>1
  <1>4. QED
    BY <1>1, <1>2, <1>3

\* Short sequences of atoms.
LEMMA Short ==
  ASSUME NEW a \in Atom, NEW b \in Atom
  PROVE  /\ <<a>> \in Seq(Atom) /\ Len(<<a>>) = 1 /\ <<a>>[1] = a
         /\ <<a, b>> \in Seq(Atom) /\ Len(<<a, b>>) = 2
         /\ <<a, b>>[1] = a /\ <<a, b>>[2] = b
  <1> HIDE DEF Atom
  <1>1. <<a>> \in Seq(Atom) /\ Len(<<a>>) = 1 /\ <<a>>[1] = a
    OBVIOUS
  <1>2. <<a, b>> \in Seq(Atom) /\ Len(<<a, b>>) = 2
    OBVIOUS
  <1>3. <<a, b>>[1] = a /\ <<a, b>>[2] = b
    OBVIOUS
  <1>4. QED
    BY <1>1, <1>2, <1>3

LEMMA Names == \A s \in Seq(STRING) : s \in Seq(Atom)
  BY DEF Atom

LEMMA NamespaceType ==
  ASSUME NEW ns \in Namespace
  PROVE  /\ ns.size \in Sizes /\ ns.groupBy \in Fields
         /\ ns.groupBy \in Seq(Atom) /\ Len(ns.groupBy) \in Nat
         /\ \A i \in 1..Len(ns.groupBy) : ns.groupBy[i] # "/"
         /\ ns = [size |-> ns.size, groupBy |-> ns.groupBy]
  <1>1. ns.size \in Sizes /\ ns.groupBy \in Fields /\ ns = [size |-> ns.size, groupBy |-> ns.groupBy]
    BY DEF Namespace
  <1>2. ns.groupBy \in Seq(STRING)
    BY <1>1, BucketStoreAssumption
  <1>3. ns.groupBy \in Seq(Atom) /\ Len(ns.groupBy) \in Nat /\ DOMAIN ns.groupBy = 1..Len(ns.groupBy)
    BY <1>2, LenProperties DEF Atom
  <1>4. QED
    BY <1>1, <1>3, NamesAreFlat

\* Name, with what the two kinds of key that hold it put before it.
LEMMA NameShape ==
  ASSUME NEW ns \in Namespace, NEW kind \in {"window", "checkpoint"}
  PROVE  LET q == <<kind, "/">> \o Name(ns) IN
         /\ q \in Seq(Atom)
         /\ Len(q) = Len(ns.groupBy) + 4
         /\ q[1] = kind /\ q[3] = ns.size
         /\ \A i \in 1..Len(ns.groupBy) : q[i + 4] = ns.groupBy[i]
  <1> DEFINE head == <<kind, "/">>
             size == <<ns.size, "/">>
  <1>1. /\ head \in Seq(Atom) /\ size \in Seq(Atom) /\ Len(head) = 2 /\ Len(size) = 2
        /\ head[1] = kind /\ size[1] = ns.size
    <2>1. kind \in Atom /\ "/" \in Atom /\ ns.size \in Atom
      BY NamespaceType DEF Atom
    <2>2. QED
      BY <2>1, Short
  <1>2. ns.groupBy \in Seq(Atom) /\ Len(ns.groupBy) \in Nat
    BY NamespaceType
  <1>3. Name(ns) = size \o ns.groupBy
    BY DEF Name
  <1> HIDE DEF head, size
  <1>4. /\ Name(ns) \in Seq(Atom) /\ Len(Name(ns)) = Len(ns.groupBy) + 2
        /\ Name(ns)[1] = ns.size
        /\ \A i \in 1..Len(ns.groupBy) : Name(ns)[2 + i] = ns.groupBy[i]
    <2>1. /\ size \o ns.groupBy \in Seq(Atom)
          /\ Len(size \o ns.groupBy) = Len(size) + Len(ns.groupBy)
          /\ \A i \in 1..Len(size) : (size \o ns.groupBy)[i] = size[i]
          /\ \A i \in 1..Len(ns.groupBy) : (size \o ns.groupBy)[Len(size) + i] = ns.groupBy[i]
      BY <1>1, <1>2, Concat
    <2>2. 1 \in 1..Len(size)
      BY <1>1
    <2>3. QED
      BY <1>1, <1>2, <1>3, <2>1, <2>2
  <1> DEFINE q == head \o Name(ns)
  <1>5. /\ q \in Seq(Atom) /\ Len(q) = 2 + Len(Name(ns))
        /\ \A i \in 1..2 : q[i] = head[i]
        /\ \A i \in 1..Len(Name(ns)) : q[2 + i] = Name(ns)[i]
    <2>1. /\ q \in Seq(Atom) /\ Len(q) = Len(head) + Len(Name(ns))
          /\ \A i \in 1..Len(head) : q[i] = head[i]
          /\ \A i \in 1..Len(Name(ns)) : q[Len(head) + i] = Name(ns)[i]
      BY <1>1, <1>4, Concat
    <2>2. QED
      BY <1>1, <2>1
  <1> HIDE DEF q
  <1>6. q[1] = kind /\ q[3] = ns.size
    <2>1. 1 \in 1..2 /\ 1 \in 1..Len(Name(ns)) /\ 2 + 1 = 3
      BY <1>2, <1>4
    <2>2. QED
      BY <1>1, <1>4, <1>5, <2>1
  <1>7. ASSUME NEW i \in 1..Len(ns.groupBy) PROVE q[i + 4] = ns.groupBy[i]
    <2>1. 2 + i \in 1..Len(Name(ns)) /\ 2 + (2 + i) = i + 4
      BY <1>2, <1>4
    <2>2. QED
      BY <1>4, <1>5, <2>1
  <1>8. Len(q) = Len(ns.groupBy) + 4
    BY <1>2, <1>4, <1>5
  <1>9. QED
    BY <1>5, <1>6, <1>7, <1>8 DEF q, head

LEMMA PrefixShape ==
  ASSUME NEW ns \in Namespace
  PROVE  /\ KeyPrefix(ns) \in Seq(Atom)
         /\ Len(KeyPrefix(ns)) = Len(ns.groupBy) + 5
         /\ KeyPrefix(ns)[1] = "window" /\ KeyPrefix(ns)[3] = ns.size
         /\ \A i \in 1..Len(ns.groupBy) : KeyPrefix(ns)[i + 4] = ns.groupBy[i]
         /\ KeyPrefix(ns)[Len(ns.groupBy) + 5] = "/"
  <1> DEFINE q == <<"window", "/">> \o Name(ns)
             slash == <<"/">>
             n == Len(ns.groupBy)
  <1>1. /\ q \in Seq(Atom) /\ Len(q) = n + 4
        /\ q[1] = "window" /\ q[3] = ns.size
        /\ \A i \in 1..n : q[i + 4] = ns.groupBy[i]
    BY NameShape
  <1>2. slash \in Seq(Atom) /\ Len(slash) = 1 /\ slash[1] = "/"
    <2>1. "/" \in Atom
      BY DEF Atom
    <2>2. QED
      BY <2>1, Short
  <1>3. KeyPrefix(ns) = q \o slash /\ n \in Nat
    BY NamespaceType DEF KeyPrefix
  <1> HIDE DEF q, slash, n
  <1>4. /\ KeyPrefix(ns) \in Seq(Atom) /\ Len(KeyPrefix(ns)) = n + 5
        /\ \A i \in 1..(n + 4) : KeyPrefix(ns)[i] = q[i]
        /\ KeyPrefix(ns)[(n + 4) + 1] = slash[1]
    <2>1. /\ q \o slash \in Seq(Atom) /\ Len(q \o slash) = Len(q) + Len(slash)
          /\ \A i \in 1..Len(q) : (q \o slash)[i] = q[i]
          /\ \A i \in 1..Len(slash) : (q \o slash)[Len(q) + i] = slash[i]
      BY <1>1, <1>2, Concat
    <2>2. 1 \in 1..Len(slash) /\ (n + 4) + 1 = n + 5
      BY <1>2, <1>3
    <2>3. QED
      BY <1>1, <1>2, <1>3, <2>1, <2>2
  <1>5. /\ 1 \in 1..(n + 4) /\ 3 \in 1..(n + 4) /\ \A i \in 1..n : i + 4 \in 1..(n + 4)
        /\ (n + 4) + 1 = n + 5
    BY <1>3
  <1>6. QED
    BY <1>1, <1>2, <1>4, <1>5 DEF n

\* Two prefixes that agree as far as both go are one.
LEMMA PrefixTells ==
  ASSUME NEW s \in Namespace, NEW t \in Namespace,
         \A i \in 1..Len(KeyPrefix(s)) : i <= Len(KeyPrefix(t)) => KeyPrefix(s)[i] = KeyPrefix(t)[i]
  PROVE  s = t
  <1> DEFINE m == Len(s.groupBy)
             n == Len(t.groupBy)
             p == KeyPrefix(s)
             q == KeyPrefix(t)
  <1>1. /\ m \in Nat /\ n \in Nat
        /\ Len(p) = m + 5 /\ Len(q) = n + 5
        /\ p[3] = s.size /\ q[3] = t.size
        /\ \A i \in 1..m : p[i + 4] = s.groupBy[i] /\ s.groupBy[i] # "/"
        /\ \A i \in 1..n : q[i + 4] = t.groupBy[i] /\ t.groupBy[i] # "/"
        /\ p[m + 5] = "/" /\ q[n + 5] = "/"
    BY PrefixShape, NamespaceType
  <1>2. \A i \in 1..(m + 5) : i <= n + 5 => p[i] = q[i]
    BY <1>1
  <1> HIDE DEF m, n, p, q
  <1>3. ~(m < n)
    <2> SUFFICES ASSUME m < n PROVE FALSE
      OBVIOUS
    <2>1. m + 5 \in 1..(m + 5) /\ m + 5 <= n + 5 /\ m + 1 \in 1..n /\ (m + 1) + 4 = m + 5
      BY <1>1
    <2>2. QED
      BY <1>1, <1>2, <2>1
  <1>4. ~(n < m)
    <2> SUFFICES ASSUME n < m PROVE FALSE
      OBVIOUS
    <2>1. n + 5 \in 1..(m + 5) /\ n + 5 <= n + 5 /\ n + 1 \in 1..m /\ (n + 1) + 4 = n + 5
      BY <1>1
    <2>2. QED
      BY <1>1, <1>2, <2>1
  <1>5. m = n
    BY <1>1, <1>3, <1>4
  <1>6. \A i \in 1..m : s.groupBy[i] = t.groupBy[i]
    <2>1. \A i \in 1..m : i + 4 \in 1..(m + 5) /\ i + 4 <= n + 5
      BY <1>1, <1>5
    <2>2. QED
      BY <1>1, <1>2, <1>5, <2>1
  <1>7. s.groupBy = t.groupBy
    BY <1>5, <1>6, NamespaceType, SeqEqual DEF m, n
  <1>8. s.size = t.size
    <2>1. 3 \in 1..(m + 5) /\ 3 <= n + 5
      BY <1>1
    <2>2. QED
      BY <1>1, <1>2, <2>1
  <1>9. QED
    BY <1>7, <1>8, NamespaceType

LEMMA BucketShape ==
  ASSUME NEW ns \in Namespace, NEW k \in Key
  PROVE  LET m == Len(KeyPrefix(ns))
             n == Len(k.grp) IN
         /\ m \in Nat /\ n \in Nat /\ k.grp \in Seq(Atom)
         /\ Len(BucketKey(ns, k)) = m + n + 2
         /\ \A i \in 1..m : BucketKey(ns, k)[i] = KeyPrefix(ns)[i]
         /\ \A i \in 1..n : BucketKey(ns, k)[m + i] = k.grp[i]
         /\ BucketKey(ns, k)[m + n + 2] = Unix(k.start)[1]
         /\ BucketKey(ns, k) \in Seq(Atom)
  <1> DEFINE p == KeyPrefix(ns)
             m == Len(p)
             n == Len(k.grp)
             slash == <<"/">>
             sec == Unix(k.start)
             front == p \o k.grp
             middle == front \o slash
  <1>1. p \in Seq(Atom)
    BY PrefixShape
  <1>2. k.grp \in Seq(Atom)
    <2>1. k.grp \in Seq(STRING)
      BY BucketStoreAssumption DEF Key
    <2>2. QED
      BY <2>1, Names
  <1>3. slash \in Seq(Atom) /\ Len(slash) = 1
    <2>1. "/" \in Atom
      BY DEF Atom
    <2>2. QED
      BY <2>1, Short
  <1>4. sec \in Seq(Atom) /\ Len(sec) = 1
    <2>1. k.start \in Instants
      BY DEF Key
    <2>2. ToString(k.start \div Second) \in Atom
      BY <2>1 DEF Atom
    <2>3. QED
      BY <2>2, Short DEF Unix
  <1>5. BucketKey(ns, k) = middle \o sec
    BY DEF BucketKey
  <1> HIDE DEF p, slash, sec
  <1>6. /\ front \in Seq(Atom) /\ Len(front) = m + n /\ m \in Nat /\ n \in Nat
        /\ \A i \in 1..m : front[i] = p[i]
        /\ \A i \in 1..n : front[m + i] = k.grp[i]
    BY <1>1, <1>2, Concat
  <1> HIDE DEF front
  <1>7. /\ middle \in Seq(Atom) /\ Len(middle) = Len(front) + 1
        /\ \A i \in 1..Len(front) : middle[i] = front[i]
    <2>1. /\ middle \in Seq(Atom) /\ Len(middle) = Len(front) + Len(slash)
          /\ \A i \in 1..Len(front) : middle[i] = front[i]
      BY <1>3, <1>6, Concat
    <2>2. QED
      BY <1>3, <2>1
  <1> HIDE DEF middle
  <1>8. /\ BucketKey(ns, k) \in Seq(Atom) /\ Len(BucketKey(ns, k)) = Len(middle) + 1
        /\ \A i \in 1..Len(middle) : BucketKey(ns, k)[i] = middle[i]
        /\ \A i \in 1..Len(sec) : BucketKey(ns, k)[Len(middle) + i] = sec[i]
    <2>1. LET q == middle \o sec IN
          /\ q \in Seq(Atom) /\ Len(q) = Len(middle) + Len(sec)
          /\ \A i \in 1..Len(middle) : q[i] = middle[i]
          /\ \A i \in 1..Len(sec) : q[Len(middle) + i] = sec[i]
      BY <1>4, <1>7, Concat
    <2>2. QED
      BY <1>4, <1>5, <2>1
  <1> HIDE DEF m, n
  <1>9. Len(middle) = m + n + 1 /\ Len(front) = m + n
    BY <1>6, <1>7
  <1>10. \A i \in 1..m : BucketKey(ns, k)[i] = p[i]
    <2>1. \A i \in 1..m : i \in 1..Len(front) /\ i \in 1..Len(middle)
      BY <1>6, <1>9
    <2>2. QED
      BY <1>6, <1>7, <1>8, <2>1
  <1>11. \A i \in 1..n : BucketKey(ns, k)[m + i] = k.grp[i]
    <2>1. \A i \in 1..n : m + i \in 1..Len(front) /\ m + i \in 1..Len(middle)
      BY <1>6, <1>9
    <2>2. QED
      BY <1>6, <1>7, <1>8, <2>1
  <1>12. BucketKey(ns, k)[m + n + 2] = sec[1]
    <2>1. 1 \in 1..Len(sec) /\ Len(middle) + 1 = m + n + 2
      BY <1>4, <1>6, <1>9
    <2>2. QED
      BY <1>8, <2>1
  <1>13. Len(BucketKey(ns, k)) = m + n + 2
    BY <1>6, <1>8, <1>9
  <1>14. QED
    BY <1>2, <1>6, <1>8, <1>10, <1>11, <1>12, <1>13 DEF p, m, n, sec

\* The key of a bucket tells its stream and its window.
LEMMA BucketTells ==
  ASSUME NEW s \in Namespace, NEW t \in Namespace, NEW k \in Key, NEW l \in Key,
         BucketKey(s, k) = BucketKey(t, l)
  PROVE  s = t /\ k = l
  <1>1. s = t
    <2>1. \A i \in 1..Len(KeyPrefix(s)) : i <= Len(KeyPrefix(t)) => KeyPrefix(s)[i] = KeyPrefix(t)[i]
      <3> SUFFICES ASSUME NEW i \in 1..Len(KeyPrefix(s)), i <= Len(KeyPrefix(t))
                   PROVE  KeyPrefix(s)[i] = KeyPrefix(t)[i]
        OBVIOUS
      <3>1. Len(KeyPrefix(s)) \in Nat /\ Len(KeyPrefix(t)) \in Nat
        BY BucketShape
      <3>2. i \in 1..Len(KeyPrefix(t))
        BY <3>1
      <3>3. BucketKey(s, k)[i] = KeyPrefix(s)[i] /\ BucketKey(t, l)[i] = KeyPrefix(t)[i]
        BY <3>2, BucketShape
      <3>4. QED
        BY <3>3
    <2>2. QED
      BY <2>1, PrefixTells
  <1> DEFINE m == Len(KeyPrefix(s))
             n == Len(k.grp)
  <1>2. /\ m \in Nat /\ n \in Nat /\ k.grp \in Seq(Atom)
        /\ Len(BucketKey(s, k)) = m + n + 2
        /\ \A i \in 1..n : BucketKey(s, k)[m + i] = k.grp[i]
        /\ BucketKey(s, k)[m + n + 2] = Unix(k.start)[1]
    BY BucketShape
  <1>3. /\ Len(l.grp) \in Nat /\ l.grp \in Seq(Atom)
        /\ Len(BucketKey(s, k)) = m + Len(l.grp) + 2
        /\ \A i \in 1..Len(l.grp) : BucketKey(s, k)[m + i] = l.grp[i]
        /\ BucketKey(s, k)[m + Len(l.grp) + 2] = Unix(l.start)[1]
    <2>1. LET p == Len(KeyPrefix(t)) IN
          /\ Len(l.grp) \in Nat /\ l.grp \in Seq(Atom)
          /\ Len(BucketKey(t, l)) = p + Len(l.grp) + 2
          /\ \A i \in 1..Len(l.grp) : BucketKey(t, l)[p + i] = l.grp[i]
          /\ BucketKey(t, l)[p + Len(l.grp) + 2] = Unix(l.start)[1]
      BY BucketShape
    <2>2. QED
      BY <1>1, <2>1
  <1> HIDE DEF m, n
  <1>4. Len(l.grp) = n
    BY <1>2, <1>3
  <1>5. k.grp = l.grp
    <2>1. \A i \in 1..n : k.grp[i] = l.grp[i]
      BY <1>2, <1>3, <1>4
    <2>2. QED
      BY <1>2, <1>3, <1>4, <2>1, SeqEqual DEF n
  <1>6. Unix(k.start) = Unix(l.start)
    <2>1. Unix(k.start)[1] = Unix(l.start)[1]
      BY <1>2, <1>3, <1>4
    <2>2. QED
      BY <2>1 DEF Unix
  <1>7. k = l
    BY <1>5, <1>6, OneStartASecond DEF Key
  <1>8. QED
    BY <1>1, <1>7

\* Of the buckets, a scan for a stream's prefix finds those of the stream.
LEMMA ScanFinds ==
  ASSUME NEW s \in Namespace, NEW t \in Namespace, NEW k \in Key
  PROVE  IsPrefix(KeyPrefix(s), BucketKey(t, k)) <=> s = t
  <1> DEFINE p == KeyPrefix(s)
             m == Len(p)
             q == BucketKey(t, k)
  <1>1. p \in Seq(Atom) /\ m \in Nat /\ q \in Seq(Atom) /\ Len(q) \in Nat
    <2>1. p \in Seq(Atom) /\ q \in Seq(Atom)
      BY PrefixShape, BucketShape
    <2>2. QED
      BY <2>1, LenProperties
  <1>2. \A i \in 1..Len(KeyPrefix(t)) : q[i] = KeyPrefix(t)[i]
    BY BucketShape
  <1>3. Len(KeyPrefix(t)) \in Nat /\ Len(KeyPrefix(t)) <= Len(q)
    <2>1. /\ Len(KeyPrefix(t)) \in Nat /\ Len(k.grp) \in Nat
          /\ Len(q) = Len(KeyPrefix(t)) + Len(k.grp) + 2
      BY BucketShape
    <2>2. QED
      BY <2>1
  <1> HIDE DEF q
  <1>4. ASSUME m <= Len(q)
        PROVE  /\ SubSeq(p, 1, m) \in Seq(Atom) /\ SubSeq(q, 1, m) \in Seq(Atom)
               /\ Len(SubSeq(p, 1, m)) = m /\ Len(SubSeq(q, 1, m)) = m
               /\ \A i \in 1..m : SubSeq(p, 1, m)[i] = p[i] /\ SubSeq(q, 1, m)[i] = q[i]
    <2> HIDE DEF p
    <2>1. /\ 1 \in 1..(Len(p) + 1) /\ m \in (1 - 1)..Len(p)
          /\ 1 \in 1..(Len(q) + 1) /\ m \in (1 - 1)..Len(q)
          /\ m - 1 + 1 = m /\ \A i \in 1..m : 1 + i - 1 = i
      BY <1>1, <1>4
    <2>2. /\ SubSeq(p, 1, m) \in Seq(Atom) /\ Len(SubSeq(p, 1, m)) = m - 1 + 1
          /\ \A i \in 1..(m - 1 + 1) : SubSeq(p, 1, m)[i] = p[1 + i - 1]
      BY <1>1, <2>1, SubSeqProperties
    <2>3. /\ SubSeq(q, 1, m) \in Seq(Atom) /\ Len(SubSeq(q, 1, m)) = m - 1 + 1
          /\ \A i \in 1..(m - 1 + 1) : SubSeq(q, 1, m)[i] = q[1 + i - 1]
      BY <1>1, <2>1, SubSeqProperties
    <2>4. QED
      BY <2>1, <2>2, <2>3
  <1>5. ASSUME IsPrefix(p, q) PROVE s = t
    <2>1. m <= Len(q) /\ SubSeq(p, 1, m) = SubSeq(q, 1, m)
      BY <1>5 DEF IsPrefix
    <2>2. \A i \in 1..m : p[i] = q[i]
      BY <1>4, <2>1
    <2>3. \A i \in 1..m : i <= Len(KeyPrefix(t)) => p[i] = KeyPrefix(t)[i]
      BY <1>1, <1>2, <1>3, <2>2
    <2>4. QED
      BY <2>3, PrefixTells
  <1>6. ASSUME s = t PROVE IsPrefix(p, q)
    <2>1. m <= Len(q)
      BY <1>3, <1>6
    <2>2. \A i \in 1..m : SubSeq(p, 1, m)[i] = SubSeq(q, 1, m)[i]
      BY <1>2, <1>4, <1>6, <2>1
    <2>3. SubSeq(p, 1, m) = SubSeq(q, 1, m)
      BY <1>4, <2>1, <2>2, SeqEqual
    <2>4. QED
      BY <2>1, <2>3 DEF IsPrefix
  <1>7. QED
    BY <1>5, <1>6 DEF q

\* The key of a watermark tells its stream.
LEMMA CheckpointTells ==
  ASSUME NEW s \in Namespace, NEW t \in Namespace, CheckpointKey(s) = CheckpointKey(t)
  PROVE  s = t
  <1> DEFINE p == <<"checkpoint", "/">> \o Name(s)
             q == <<"checkpoint", "/">> \o Name(t)
  <1>1. /\ p \in Seq(Atom) /\ Len(p) = Len(s.groupBy) + 4 /\ p[3] = s.size
        /\ \A i \in 1..Len(s.groupBy) : p[i + 4] = s.groupBy[i]
    BY NameShape
  <1>2. /\ q \in Seq(Atom) /\ Len(q) = Len(t.groupBy) + 4 /\ q[3] = t.size
        /\ \A i \in 1..Len(t.groupBy) : q[i + 4] = t.groupBy[i]
    BY NameShape
  <1>3. p = q
    BY DEF CheckpointKey
  <1> HIDE DEF p, q
  <1>4. /\ s.groupBy \in Seq(Atom) /\ t.groupBy \in Seq(Atom)
        /\ Len(s.groupBy) \in Nat /\ Len(t.groupBy) \in Nat
    BY NamespaceType
  <1>5. Len(s.groupBy) = Len(t.groupBy)
    BY <1>1, <1>2, <1>3, <1>4
  <1>6. s.groupBy = t.groupBy
    <2>1. \A i \in 1..Len(s.groupBy) : s.groupBy[i] = t.groupBy[i]
      BY <1>1, <1>2, <1>3, <1>5
    <2>2. QED
      BY <1>4, <1>5, <2>1, SeqEqual
  <1>7. s.size = t.size
    BY <1>1, <1>2, <1>3
  <1>8. QED
    BY <1>6, <1>7, NamespaceType

\* The three kinds of key have nothing in common, and a scan stays with one of them.
LEMMA KindsDiffer ==
  ASSUME NEW s \in Namespace, NEW t \in Namespace
  PROVE  /\ \A k \in Key : BucketKey(s, k) # CheckpointKey(t)
         /\ \A k \in Key, m \in Messages : BucketKey(s, k) # SeenKey(m)
         /\ \A m \in Messages : CheckpointKey(t) # SeenKey(m)
         /\ ~IsPrefix(KeyPrefix(s), CheckpointKey(t))
         /\ \A m \in Messages : ~IsPrefix(KeyPrefix(s), SeenKey(m))
  <1>1. KeyPrefix(s) \in Seq(Atom) /\ Len(KeyPrefix(s)) \in Nat \ {0} /\ KeyPrefix(s)[1] = "window"
    BY PrefixShape, NamespaceType
  <1>2. ASSUME NEW k \in Key PROVE BucketKey(s, k)[1] = "window"
    <2>1. 1 \in 1..Len(KeyPrefix(s))
      BY <1>1
    <2>2. QED
      BY <1>1, <2>1, BucketShape
  <1>3. CheckpointKey(t)[1] = "checkpoint" /\ CheckpointKey(t) \in Seq(Atom)
    BY NameShape DEF CheckpointKey
  <1>4. ASSUME NEW m \in Messages PROVE SeenKey(m)[1] = "seen" /\ SeenKey(m) \in Seq(Atom)
    <2>1. "seen" \in Atom /\ "/" \in Atom /\ m \in Atom
      BY DEF Atom
    <2>2. QED
      BY <2>1 DEF SeenKey
  <1>5. ASSUME NEW q \in Seq(Atom), IsPrefix(KeyPrefix(s), q) PROVE q[1] = "window"
    <2> DEFINE p == KeyPrefix(s)
               n == Len(p)
    <2> HIDE DEF p
    <2>1. p \in Seq(Atom) /\ n \in Nat \ {0} /\ p[1] = "window" /\ Len(q) \in Nat
      BY <1>1, LenProperties DEF p
    <2>2. n <= Len(q) /\ SubSeq(p, 1, n) = SubSeq(q, 1, n)
      BY <1>5 DEF IsPrefix, p
    <2>3. /\ 1 \in 1..(Len(p) + 1) /\ n \in (1 - 1)..Len(p)
          /\ 1 \in 1..(Len(q) + 1) /\ n \in (1 - 1)..Len(q)
          /\ 1 \in 1..(n - 1 + 1) /\ 1 + 1 - 1 = 1
      BY <2>1, <2>2
    <2>4. SubSeq(p, 1, n)[1] = p[1 + 1 - 1]
      BY <2>1, <2>3, SubSeqProperties
    <2>5. SubSeq(q, 1, n)[1] = q[1 + 1 - 1]
      BY <2>1, <2>3, SubSeqProperties
    <2>6. QED
      BY <2>1, <2>2, <2>3, <2>4, <2>5
  <1>6. QED
    BY <1>2, <1>3, <1>4, <1>5

LEMMA SeenTells ==
  ASSUME NEW m \in Messages, NEW n \in Messages, SeenKey(m) = SeenKey(n)
  PROVE  m = n
  BY DEF SeenKey

-----------------------------------------------------------------------------
(***************************************************************************)
(* Entries: each write of a history writes the entries the operations do.  *)
(***************************************************************************)

Other(E, key) == {x \in E : x.key # key}

\* The buckets of all namespaces but the one with the key.
AllBut(S, ns, k) == [S EXCEPT ![ns] = {b \in S[ns] : b.key # k}]

LEMMA BucketGone ==
  ASSUME NEW S \in [Namespace -> SUBSET Bucket], NEW ns \in Namespace, NEW k \in Key
  PROVE  Other(BucketEntries(S), BucketKey(ns, k)) = BucketEntries(AllBut(S, ns, k))
  <1> DEFINE T == AllBut(S, ns, k)
  <1>1. \A t \in Namespace : \A b \in S[t] : b.key \in Key
    BY DEF Bucket
  <1>2. \A t \in Namespace : \A b :
          b \in T[t] <=> b \in S[t] /\ BucketKey(t, b.key) # BucketKey(ns, k)
    <2> SUFFICES ASSUME NEW t \in Namespace, NEW b
                 PROVE  b \in T[t] <=> b \in S[t] /\ BucketKey(t, b.key) # BucketKey(ns, k)
      OBVIOUS
    <2>0. T[t] = IF t = ns THEN {c \in S[ns] : c.key # k} ELSE S[t]
      BY DEF AllBut
    <2> HIDE DEF T
    <2>1. CASE t = ns
      <3>1. \A c \in S[ns] : BucketKey(ns, c.key) = BucketKey(ns, k) <=> c.key = k
        BY <1>1, BucketTells
      <3>2. QED
        BY <2>0, <2>1, <3>1
    <2>2. CASE t # ns
      <3>1. \A c \in S[t] : BucketKey(t, c.key) # BucketKey(ns, k)
        BY <1>1, <2>2, BucketTells
      <3>2. T[t] = S[t]
        BY <2>0, <2>2
      <3>3. QED
        BY <3>1, <3>2
    <2>3. QED
      BY <2>1, <2>2
  <1> HIDE DEF T
  <1>3. Other(BucketEntries(S), BucketKey(ns, k)) = BucketEntries(T)
    BY <1>2 DEF Other, BucketEntries
  <1>4. QED
    BY <1>3 DEF T

LEMMA BucketPut ==
  ASSUME NEW S \in [Namespace -> SUBSET Bucket], NEW ns \in Namespace, NEW B, NEW new
  PROVE  BucketEntries([S EXCEPT ![ns] = B \cup {new}]) =
           BucketEntries([S EXCEPT ![ns] = B]) \cup {[key |-> BucketKey(ns, new.key), value |-> new]}
  <1> DEFINE T == [S EXCEPT ![ns] = B]
             U == [S EXCEPT ![ns] = B \cup {new}]
  <1>1. \A t \in Namespace : \A b : b \in U[t] <=> b \in T[t] \/ (t = ns /\ b = new)
    OBVIOUS
  <1> HIDE DEF T, U
  <1>2. BucketEntries(U) = BucketEntries(T) \cup {[key |-> BucketKey(ns, new.key), value |-> new]}
    BY <1>1 DEF BucketEntries
  <1>3. QED
    BY <1>2 DEF T, U

LEMMA MarkPut ==
  ASSUME NEW M \in [Namespace -> 0..MaxWrites], NEW ns \in Namespace, NEW v \in Nat \ {0}
  PROVE  MarkEntries([M EXCEPT ![ns] = v]) =
           Other(MarkEntries(M), CheckpointKey(ns))
             \cup {[key |-> CheckpointKey(ns), value |-> [maxTS |-> v]]}
  <1> DEFINE N == [M EXCEPT ![ns] = v]
  <1>1. \A t \in Namespace : CheckpointKey(t) = CheckpointKey(ns) <=> t = ns
    BY CheckpointTells
  <1>2. N[ns] = v /\ \A t \in Namespace : t # ns => N[t] = M[t]
    OBVIOUS
  <1> HIDE DEF N
  <1>3. MarkEntries(N) = Other(MarkEntries(M), CheckpointKey(ns))
                           \cup {[key |-> CheckpointKey(ns), value |-> [maxTS |-> v]]}
    BY <1>1, <1>2 DEF MarkEntries, Other
  <1>4. QED
    BY <1>3 DEF N

LEMMA SeenGone ==
  ASSUME NEW W \in SUBSET Messages, NEW m \in Messages
  PROVE  Other(SeenEntries(W), SeenKey(m)) = SeenEntries(W \ {m})
  BY SeenTells DEF Other, SeenEntries

LEMMA SeenPut ==
  ASSUME NEW W \in SUBSET Messages, NEW m \in Messages
  PROVE  SeenEntries(W \cup {m}) =
           Other(SeenEntries(W), SeenKey(m)) \cup {[key |-> SeenKey(m), value |-> [mark |-> m]]}
  BY SeenTells DEF Other, SeenEntries

\* Removing what one kind of key names leaves the entries of the others.
LEMMA OthersStay ==
  ASSUME NEW S \in [Namespace -> SUBSET Bucket], NEW M, NEW W \in SUBSET Messages
  PROVE  /\ \A ns \in Namespace : \A k \in Key :
              /\ Other(MarkEntries(M), BucketKey(ns, k)) = MarkEntries(M)
              /\ Other(SeenEntries(W), BucketKey(ns, k)) = SeenEntries(W)
         /\ \A ns \in Namespace :
              /\ Other(BucketEntries(S), CheckpointKey(ns)) = BucketEntries(S)
              /\ Other(SeenEntries(W), CheckpointKey(ns)) = SeenEntries(W)
         /\ \A m \in Messages :
              /\ Other(BucketEntries(S), SeenKey(m)) = BucketEntries(S)
              /\ Other(MarkEntries(M), SeenKey(m)) = MarkEntries(M)
  <1>1. \A x \in BucketEntries(S) : \E ns \in Namespace : \E k \in Key : x.key = BucketKey(ns, k)
    BY DEF BucketEntries, Bucket
  <1>2. \A x \in MarkEntries(M) : \E ns \in Namespace : x.key = CheckpointKey(ns)
    BY DEF MarkEntries
  <1>3. \A x \in SeenEntries(W) : \E m \in Messages : x.key = SeenKey(m)
    BY DEF SeenEntries
  <1>4. \A ns \in Namespace : \A k \in Key :
          /\ Other(MarkEntries(M), BucketKey(ns, k)) = MarkEntries(M)
          /\ Other(SeenEntries(W), BucketKey(ns, k)) = SeenEntries(W)
    BY <1>2, <1>3, KindsDiffer DEF Other
  <1>5. \A ns \in Namespace :
          /\ Other(BucketEntries(S), CheckpointKey(ns)) = BucketEntries(S)
          /\ Other(SeenEntries(W), CheckpointKey(ns)) = SeenEntries(W)
    BY <1>1, <1>3, KindsDiffer DEF Other
  <1>6. \A m \in Messages :
          /\ Other(BucketEntries(S), SeenKey(m)) = BucketEntries(S)
          /\ Other(MarkEntries(M), SeenKey(m)) = MarkEntries(M)
    BY <1>1, <1>2, KindsDiffer DEF Other
  <1>7. QED
    BY <1>4, <1>5, <1>6

-----------------------------------------------------------------------------
(***************************************************************************)
(* The invariant.                                                          *)
(***************************************************************************)

LEMMA WithoutIs ==
  ASSUME IInv, NEW key
  PROVE  Without(key) = Other(BucketEntries(saved), key) \cup Other(MarkEntries(marks), key)
                          \cup Other(SeenEntries(seen), key)
  BY DEF IInv, DbInv, Without, Other

LEMMA InitIsIInv ==
  ASSUME Init
  PROVE  IInv
  <1>1. HistoryInv
    BY BucketStoreAssumption DEF Init, HistoryInv
  <1>2. BucketEntries(saved) = {}
    BY DEF Init, BucketEntries
  <1>3. MarkEntries(marks) = {}
    BY DEF Init, MarkEntries
  <1>4. SeenEntries(seen) = {}
    BY DEF Init, SeenEntries
  <1>5. QED
    BY <1>1, <1>2, <1>3, <1>4 DEF IInv, DbInv, Init

LEMMA SaveKeepsIInv ==
  ASSUME IInv, NEW ns \in Namespace, NEW k \in Key, Save(ns, k)
  PROVE  IInv'
  <1> DEFINE bucket == [key |-> k, version |-> writes + 1]
             key == BucketKey(ns, k)
             rest == [saved EXCEPT ![ns] = OthersOf(ns, k)]
             entry == [key |-> key, value |-> bucket]
  <1>1. /\ writes < MaxWrites /\ writes' = writes + 1
        /\ db' = Without(key) \cup {entry}
        /\ saved' = [saved EXCEPT ![ns] = OthersOf(ns, k) \cup {bucket}]
        /\ marks' = marks /\ seen' = seen
    BY DEF Save, Put
  <1>2. /\ writes \in 0..MaxWrites /\ saved \in [Namespace -> SUBSET Bucket]
        /\ marks \in [Namespace -> 0..MaxWrites] /\ seen \in SUBSET Messages
        /\ MaxWrites \in Nat
        /\ \A t \in Namespace : \A b, c \in saved[t] : b.key = c.key => b = c
    BY BucketStoreAssumption DEF IInv, HistoryInv
  <1>3. bucket \in Bucket /\ bucket.key = k
    BY <1>1, <1>2 DEF Bucket
  <1>4. OthersOf(ns, k) = {b \in saved[ns] : b.key # k}
    BY DEF OthersOf
  <1> HIDE DEF bucket
  <1>5. HistoryInv'
    <2>1. writes' \in 0..MaxWrites
      BY <1>1, <1>2
    <2>2. saved' \in [Namespace -> SUBSET Bucket]
      <3>1. OthersOf(ns, k) \cup {bucket} \in SUBSET Bucket
        BY <1>2, <1>3, <1>4
      <3>2. QED
        BY <1>1, <1>2, <3>1
    <2>3. ASSUME NEW t \in Namespace, NEW b \in saved'[t], NEW c \in saved'[t], b.key = c.key
          PROVE  b = c
      <3>1. CASE t = ns
        <4>1. saved'[t] = OthersOf(ns, k) \cup {bucket}
          BY <1>1, <1>2, <3>1
        <4>2. QED
          BY <1>2, <1>3, <1>4, <2>3, <3>1, <4>1
      <3>2. CASE t # ns
        BY <1>1, <1>2, <2>3, <3>2
      <3>3. QED
        BY <3>1, <3>2
    <2>4. QED
      BY <1>1, <1>2, <2>1, <2>2, <2>3 DEF HistoryInv
  <1>6. DbInv'
    <2>1. BucketEntries(saved') = BucketEntries(rest) \cup {entry}
      <3>1. \A B, new :
              BucketEntries([saved EXCEPT ![ns] = B \cup {new}]) =
                BucketEntries([saved EXCEPT ![ns] = B])
                  \cup {[key |-> BucketKey(ns, new.key), value |-> new]}
        BY <1>2, BucketPut
      <3>2. QED
        BY <1>1, <1>3, <3>1
    <2>2. Other(BucketEntries(saved), key) = BucketEntries(rest)
      <3>1. rest = AllBut(saved, ns, k)
        BY <1>4 DEF AllBut
      <3> HIDE DEF rest, key
      <3>2. Other(BucketEntries(saved), BucketKey(ns, k)) = BucketEntries(AllBut(saved, ns, k))
        BY <1>2, BucketGone
      <3>3. QED
        BY <3>1, <3>2 DEF key
    <2>3. /\ Other(MarkEntries(marks), key) = MarkEntries(marks)
          /\ Other(SeenEntries(seen), key) = SeenEntries(seen)
      BY <1>2, OthersStay
    <2>4. db' = BucketEntries(saved') \cup MarkEntries(marks) \cup SeenEntries(seen)
      BY <1>1, <2>1, <2>2, <2>3, WithoutIs
    <2>5. BucketEntries(saved)' = BucketEntries(saved')
      BY DEF BucketEntries
    <2>6. MarkEntries(marks)' = MarkEntries(marks) /\ SeenEntries(seen)' = SeenEntries(seen)
      BY <1>1 DEF MarkEntries, SeenEntries
    <2>7. QED
      BY <2>4, <2>5, <2>6 DEF DbInv
  <1>7. QED
    BY <1>5, <1>6 DEF IInv

LEMMA DeleteKeepsIInv ==
  ASSUME IInv, NEW ns \in Namespace, NEW k \in Key, Delete(ns, k)
  PROVE  IInv'
  <1> DEFINE key == BucketKey(ns, k)
  <1>1. /\ db' = Without(key)
        /\ saved' = [saved EXCEPT ![ns] = OthersOf(ns, k)]
        /\ writes' = writes /\ marks' = marks /\ seen' = seen
    BY DEF Delete
  <1>2. /\ saved \in [Namespace -> SUBSET Bucket] /\ seen \in SUBSET Messages
        /\ \A t \in Namespace : \A b, c \in saved[t] : b.key = c.key => b = c
    BY DEF IInv, HistoryInv
  <1>3. OthersOf(ns, k) = {b \in saved[ns] : b.key # k}
    BY DEF OthersOf
  <1>4. HistoryInv'
    <2>1. \A t \in Namespace : saved'[t] \subseteq saved[t]
      BY <1>1, <1>2, <1>3
    <2>2. saved' \in [Namespace -> SUBSET Bucket]
      BY <1>1, <1>2, <1>3
    <2>3. \A t \in Namespace : \A b, c \in saved'[t] : b.key = c.key => b = c
      BY <1>2, <2>1
    <2>4. QED
      BY <1>1, <2>2, <2>3 DEF IInv, HistoryInv
  <1>5. DbInv'
    <2>1. Other(BucketEntries(saved), key) = BucketEntries(saved')
      <3>1. saved' = AllBut(saved, ns, k)
        BY <1>1, <1>3 DEF AllBut
      <3> HIDE DEF key
      <3>2. Other(BucketEntries(saved), BucketKey(ns, k)) = BucketEntries(AllBut(saved, ns, k))
        BY <1>2, BucketGone
      <3>3. QED
        BY <3>1, <3>2 DEF key
    <2>2. /\ Other(MarkEntries(marks), key) = MarkEntries(marks)
          /\ Other(SeenEntries(seen), key) = SeenEntries(seen)
      BY <1>2, OthersStay
    <2>3. db' = BucketEntries(saved') \cup MarkEntries(marks) \cup SeenEntries(seen)
      BY <1>1, <2>1, <2>2, WithoutIs
    <2>4. BucketEntries(saved)' = BucketEntries(saved')
      BY DEF BucketEntries
    <2>5. MarkEntries(marks)' = MarkEntries(marks) /\ SeenEntries(seen)' = SeenEntries(seen)
      BY <1>1 DEF MarkEntries, SeenEntries
    <2>6. QED
      BY <2>3, <2>4, <2>5 DEF DbInv
  <1>6. QED
    BY <1>4, <1>5 DEF IInv

LEMMA SaveCheckpointKeepsIInv ==
  ASSUME IInv, NEW ns \in Namespace, SaveCheckpoint(ns)
  PROVE  IInv'
  <1> DEFINE key == CheckpointKey(ns)
             entry == [key |-> key, value |-> [maxTS |-> writes + 1]]
  <1>1. /\ writes < MaxWrites /\ writes' = writes + 1
        /\ db' = Without(key) \cup {entry}
        /\ marks' = [marks EXCEPT ![ns] = writes + 1]
        /\ saved' = saved /\ seen' = seen
    BY DEF SaveCheckpoint, Put
  <1>2. /\ writes \in 0..MaxWrites /\ saved \in [Namespace -> SUBSET Bucket]
        /\ marks \in [Namespace -> 0..MaxWrites] /\ seen \in SUBSET Messages
        /\ MaxWrites \in Nat
    BY BucketStoreAssumption DEF IInv, HistoryInv
  <1>3. HistoryInv'
    BY <1>1, <1>2 DEF IInv, HistoryInv
  <1>4. DbInv'
    <2>1. MarkEntries(marks') = Other(MarkEntries(marks), key) \cup {entry}
      <3>1. writes + 1 \in Nat \ {0}
        BY <1>2
      <3>2. QED
        BY <1>1, <1>2, <3>1, MarkPut
    <2>2. /\ Other(BucketEntries(saved), key) = BucketEntries(saved)
          /\ Other(SeenEntries(seen), key) = SeenEntries(seen)
      BY <1>2, OthersStay
    <2>3. db' = BucketEntries(saved) \cup MarkEntries(marks') \cup SeenEntries(seen)
      BY <1>1, <2>1, <2>2, WithoutIs
    <2>4. MarkEntries(marks)' = MarkEntries(marks')
      BY DEF MarkEntries
    <2>5. BucketEntries(saved)' = BucketEntries(saved) /\ SeenEntries(seen)' = SeenEntries(seen)
      BY <1>1 DEF BucketEntries, SeenEntries
    <2>6. QED
      BY <2>3, <2>4, <2>5 DEF DbInv
  <1>5. QED
    BY <1>3, <1>4 DEF IInv

LEMMA MarkKeepsIInv ==
  ASSUME IInv, NEW m \in Messages, Mark(m)
  PROVE  IInv'
  <1> DEFINE key == SeenKey(m)
             entry == [key |-> key, value |-> [mark |-> m]]
  <1>1. /\ writes < MaxWrites /\ writes' = writes + 1
        /\ db' = Without(key) \cup {entry}
        /\ seen' = seen \cup {m}
        /\ saved' = saved /\ marks' = marks
    BY DEF Mark, Put
  <1>2. /\ writes \in 0..MaxWrites /\ saved \in [Namespace -> SUBSET Bucket]
        /\ seen \in SUBSET Messages /\ MaxWrites \in Nat
    BY BucketStoreAssumption DEF IInv, HistoryInv
  <1>3. HistoryInv'
    BY <1>1, <1>2 DEF IInv, HistoryInv
  <1>4. DbInv'
    <2>1. SeenEntries(seen') = Other(SeenEntries(seen), key) \cup {entry}
      BY <1>1, <1>2, SeenPut
    <2>2. /\ Other(BucketEntries(saved), key) = BucketEntries(saved)
          /\ Other(MarkEntries(marks), key) = MarkEntries(marks)
      BY <1>2, OthersStay
    <2>3. db' = BucketEntries(saved) \cup MarkEntries(marks) \cup SeenEntries(seen')
      BY <1>1, <2>1, <2>2, WithoutIs
    <2>4. SeenEntries(seen)' = SeenEntries(seen')
      BY DEF SeenEntries
    <2>5. BucketEntries(saved)' = BucketEntries(saved) /\ MarkEntries(marks)' = MarkEntries(marks)
      BY <1>1 DEF BucketEntries, MarkEntries
    <2>6. QED
      BY <2>3, <2>4, <2>5 DEF DbInv
  <1>5. QED
    BY <1>3, <1>4 DEF IInv

LEMMA ExpireKeepsIInv ==
  ASSUME IInv, NEW m \in Messages, Expire(m)
  PROVE  IInv'
  <1> DEFINE key == SeenKey(m)
  <1>1. /\ db' = Without(key) /\ seen' = seen \ {m}
        /\ writes' = writes /\ saved' = saved /\ marks' = marks
    BY DEF Expire
  <1>2. saved \in [Namespace -> SUBSET Bucket] /\ seen \in SUBSET Messages
    BY DEF IInv, HistoryInv
  <1>3. HistoryInv'
    BY <1>1, <1>2 DEF IInv, HistoryInv
  <1>4. DbInv'
    <2>1. SeenEntries(seen') = Other(SeenEntries(seen), key)
      BY <1>1, <1>2, SeenGone
    <2>2. /\ Other(BucketEntries(saved), key) = BucketEntries(saved)
          /\ Other(MarkEntries(marks), key) = MarkEntries(marks)
      BY <1>2, OthersStay
    <2>3. db' = BucketEntries(saved) \cup MarkEntries(marks) \cup SeenEntries(seen')
      BY <1>1, <2>1, <2>2, WithoutIs
    <2>4. SeenEntries(seen)' = SeenEntries(seen')
      BY DEF SeenEntries
    <2>5. BucketEntries(saved)' = BucketEntries(saved) /\ MarkEntries(marks)' = MarkEntries(marks)
      BY <1>1 DEF BucketEntries, MarkEntries
    <2>6. QED
      BY <2>3, <2>4, <2>5 DEF DbInv
  <1>5. QED
    BY <1>3, <1>4 DEF IInv

LEMMA StutterKeepsIInv ==
  ASSUME IInv, UNCHANGED vars
  PROVE  IInv'
  BY DEF IInv, HistoryInv, DbInv, vars, BucketEntries, MarkEntries, SeenEntries

LEMMA StepKeepsIInv ==
  ASSUME IInv, [Next]_vars
  PROVE  IInv'
  <1>1. ASSUME NEW ns \in Namespace, NEW k \in Key, Save(ns, k) PROVE IInv'
    BY <1>1, SaveKeepsIInv
  <1>2. ASSUME NEW ns \in Namespace, NEW k \in Key, Delete(ns, k) PROVE IInv'
    BY <1>2, DeleteKeepsIInv
  <1>3. ASSUME NEW ns \in Namespace, SaveCheckpoint(ns) PROVE IInv'
    BY <1>3, SaveCheckpointKeepsIInv
  <1>4. ASSUME NEW m \in Messages, Mark(m) PROVE IInv'
    BY <1>4, MarkKeepsIInv
  <1>5. ASSUME NEW m \in Messages, Expire(m) PROVE IInv'
    BY <1>5, ExpireKeepsIInv
  <1>6. CASE UNCHANGED vars
    BY <1>6, StutterKeepsIInv
  <1>7. QED
    BY <1>1, <1>2, <1>3, <1>4, <1>5, <1>6 DEF Next

\* Whatever the names, the database of badger.go holds what was saved last and not deleted,
\* under keys that are read back.
THEOREM Invariance == Spec => []IInv
  <1>1. Init => IInv
    BY InitIsIInv
  <1>2. IInv /\ [Next]_vars => IInv'
    BY StepKeepsIInv
  <1>3. QED
    BY <1>1, <1>2, PTL DEF Spec

\* The types of the state, and that no two entries have one key: of any two operations of
\* badger.go that write one, the later one replaces the earlier one's and no other.
THEOREM TypeCorrect == Spec => []TypeOK
  <1>1. IInv => TypeOK
    <2> SUFFICES ASSUME IInv PROVE TypeOK
      OBVIOUS
    <2>1. HistoryInv /\ db = BucketEntries(saved) \cup MarkEntries(marks) \cup SeenEntries(seen)
      BY DEF IInv, DbInv
    <2>2. \A x, y \in BucketEntries(saved) : x.key = y.key => x = y
      <3> SUFFICES ASSUME NEW x \in BucketEntries(saved), NEW y \in BucketEntries(saved),
                          x.key = y.key
                   PROVE  x = y
        OBVIOUS
      <3>1. PICK s \in Namespace : \E b \in saved[s] :
                     x = [key |-> BucketKey(s, b.key), value |-> b]
        BY DEF BucketEntries
      <3>2. PICK t \in Namespace : \E c \in saved[t] :
                     y = [key |-> BucketKey(t, c.key), value |-> c]
        BY DEF BucketEntries
      <3>3. PICK b \in saved[s] : x = [key |-> BucketKey(s, b.key), value |-> b]
        BY <3>1
      <3>4. PICK c \in saved[t] : y = [key |-> BucketKey(t, c.key), value |-> c]
        BY <3>2
      <3>5. b.key \in Key /\ c.key \in Key
        BY <2>1 DEF HistoryInv, Bucket
      <3>6. s = t /\ b.key = c.key
        BY <3>3, <3>4, <3>5, BucketTells
      <3>7. b = c
        BY <2>1, <3>6 DEF HistoryInv
      <3>8. QED
        BY <3>3, <3>4, <3>6, <3>7
    <2>3. \A x, y \in MarkEntries(marks) : x.key = y.key => x = y
      BY CheckpointTells DEF MarkEntries
    <2>4. \A x, y \in SeenEntries(seen) : x.key = y.key => x = y
      BY <2>1, SeenTells DEF SeenEntries, HistoryInv
    <2>5. \A x \in BucketEntries(saved) : \E ns \in Namespace : \E k \in Key : x.key = BucketKey(ns, k)
      BY <2>1 DEF BucketEntries, Bucket, HistoryInv
    <2>6. \A x \in MarkEntries(marks) : \E ns \in Namespace : x.key = CheckpointKey(ns)
      BY DEF MarkEntries
    <2>7. \A x \in SeenEntries(seen) : \E m \in Messages : x.key = SeenKey(m)
      BY <2>1 DEF SeenEntries, HistoryInv
    <2>8. /\ \A x \in BucketEntries(saved), y \in MarkEntries(marks) : x.key # y.key
          /\ \A x \in BucketEntries(saved), y \in SeenEntries(seen) : x.key # y.key
          /\ \A x \in MarkEntries(marks), y \in SeenEntries(seen) : x.key # y.key
      BY <2>5, <2>6, <2>7, KindsDiffer
    <2>9. \A x, y \in db : x.key = y.key => x = y
      BY <2>1, <2>2, <2>3, <2>4, <2>8
    <2>10. QED
      BY <2>1, <2>9 DEF TypeOK, HistoryInv
  <1>2. QED
    BY <1>1, Invariance, PTL

\* LoadAll's prefix scan gives a stream its own buckets, each as saved last, for any sizes,
\* fields without a slash and values of them with any number of slashes.
THEOREM RestoresOwn == Spec => []RestoreIsOwn
  <1>1. IInv => RestoreIsOwn
    <2> SUFFICES ASSUME IInv, NEW ns \in Namespace PROVE LoadAll(ns) = saved[ns]
      BY DEF RestoreIsOwn
    <2>1. HistoryInv /\ db = BucketEntries(saved) \cup MarkEntries(marks) \cup SeenEntries(seen)
      BY DEF IInv, DbInv
    <2>2. \A t \in Namespace : \A b \in saved[t] : b.key \in Key
      BY <2>1 DEF HistoryInv, Bucket
    <2>3. \A x \in MarkEntries(marks) : ~IsPrefix(KeyPrefix(ns), x.key)
      BY KindsDiffer DEF MarkEntries
    <2>4. \A x \in SeenEntries(seen) : ~IsPrefix(KeyPrefix(ns), x.key)
      BY <2>1, KindsDiffer DEF SeenEntries, HistoryInv
    <2> DEFINE found == {x \in db : IsPrefix(KeyPrefix(ns), x.key)}
    <2>5. found = {[key |-> BucketKey(ns, b.key), value |-> b] : b \in saved[ns]}
      <3>1. \A t \in Namespace : \A b \in saved[t] :
              IsPrefix(KeyPrefix(ns), BucketKey(t, b.key)) <=> ns = t
        BY <2>2, ScanFinds
      <3>2. \A x \in db : IsPrefix(KeyPrefix(ns), x.key) =>
              \E b \in saved[ns] : x = [key |-> BucketKey(ns, b.key), value |-> b]
        BY <2>1, <2>3, <2>4, <3>1 DEF BucketEntries
      <3>3. \A b \in saved[ns] : [key |-> BucketKey(ns, b.key), value |-> b] \in found
        BY <2>1, <3>1 DEF BucketEntries
      <3>4. QED
        BY <3>2, <3>3
    <2> HIDE DEF found
    <2>6. {entry.value : entry \in found} = saved[ns]
      <3>1. \A x \in found : x.value \in saved[ns]
        BY <2>5
      <3>2. \A b \in saved[ns] : \E x \in found : x.value = b
        <4> SUFFICES ASSUME NEW b \in saved[ns] PROVE \E x \in found : x.value = b
          OBVIOUS
        <4> DEFINE x == [key |-> BucketKey(ns, b.key), value |-> b]
        <4>1. x \in found /\ x.value = b
          BY <2>5
        <4>2. QED
          BY <4>1
      <3>3. QED
        BY <3>1, <3>2
    <2>7. QED
      BY <2>6 DEF LoadAll, found
  <1>2. QED
    BY <1>1, Invariance, PTL

\* LoadCheckpoint and Seen find the watermark of the stream that asks and the message asked
\* for, whatever else the database holds.
THEOREM FindsOwn == Spec => []LookupsAreOwn
  <1>1. IInv => LookupsAreOwn
    <2> SUFFICES ASSUME IInv PROVE LookupsAreOwn
      OBVIOUS
    <2>1. HistoryInv /\ db = BucketEntries(saved) \cup MarkEntries(marks) \cup SeenEntries(seen)
      BY DEF IInv, DbInv
    <2>2. \A x \in BucketEntries(saved) : \E ns \in Namespace : \E k \in Key : x.key = BucketKey(ns, k)
      BY <2>1 DEF BucketEntries, Bucket, HistoryInv
    <2>3. ASSUME NEW ns \in Namespace PROVE LoadCheckpoint(ns) = {marks[ns]} \ {0}
      <3> DEFINE found == {x \in db : x.key = CheckpointKey(ns)}
      <3>1. \A x \in BucketEntries(saved) : x.key # CheckpointKey(ns)
        BY <2>2, KindsDiffer
      <3>2. \A x \in SeenEntries(seen) : x.key # CheckpointKey(ns)
        BY <2>1, KindsDiffer DEF SeenEntries, HistoryInv
      <3>3. \A x \in MarkEntries(marks) : x.key = CheckpointKey(ns) =>
              marks[ns] # 0 /\ x = [key |-> CheckpointKey(ns), value |-> [maxTS |-> marks[ns]]]
        BY CheckpointTells DEF MarkEntries
      <3>4. marks[ns] # 0 =>
              [key |-> CheckpointKey(ns), value |-> [maxTS |-> marks[ns]]] \in MarkEntries(marks)
        BY DEF MarkEntries
      <3>5. \A x \in found :
              marks[ns] # 0 /\ x = [key |-> CheckpointKey(ns), value |-> [maxTS |-> marks[ns]]]
        BY <2>1, <3>1, <3>2, <3>3
      <3>6. marks[ns] # 0 =>
              [key |-> CheckpointKey(ns), value |-> [maxTS |-> marks[ns]]] \in found
        BY <2>1, <3>4
      <3> HIDE DEF found
      <3>7. {entry.value.maxTS : entry \in found} = {marks[ns]} \ {0}
        BY <3>5, <3>6
      <3>8. QED
        BY <3>7 DEF LoadCheckpoint, found
    <2>4. ASSUME NEW m \in Messages PROVE Seen(m) <=> m \in seen
      <3>1. \A x \in BucketEntries(saved) : x.key # SeenKey(m)
        BY <2>2, KindsDiffer
      <3>2. \A x \in MarkEntries(marks) : x.key # SeenKey(m)
        BY KindsDiffer DEF MarkEntries
      <3>3. \A x \in SeenEntries(seen) : x.key = SeenKey(m) => m \in seen
        BY <2>1, SeenTells DEF SeenEntries, HistoryInv
      <3>4. m \in seen => \E x \in SeenEntries(seen) : x.key = SeenKey(m)
        <4> DEFINE x == [key |-> SeenKey(m), value |-> [mark |-> m]]
        <4>1. m \in seen => x \in SeenEntries(seen)
          BY DEF SeenEntries
        <4>2. x.key = SeenKey(m)
          OBVIOUS
        <4> HIDE DEF x
        <4>3. QED
          BY <4>1, <4>2
      <3>5. QED
        BY <2>1, <3>1, <3>2, <3>3, <3>4 DEF Seen
    <2>5. QED
      BY <2>3, <2>4 DEF LookupsAreOwn
  <1>2. QED
    BY <1>1, Invariance, PTL

=============================================================================
