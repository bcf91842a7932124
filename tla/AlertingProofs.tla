--------------------------- MODULE AlertingProofs ---------------------------
(***************************************************************************)
(* What holds of Alerting for any files, values and batches.               *)
(*                                                                         *)
(* That Aggregate computes what the rule names is shown along the events   *)
(* of a batch: with one event more its loop ends one round later           *)
(* (VisitedGrows), and a round keeps what the accumulator is to the events *)
(* (RoundFits).  That a correction keeps an alert is shown along the       *)
(* events that have arrived since the batch before, whose value each of    *)
(* them can only move away from the threshold (RoundKeeps).                *)
(*                                                                         *)
(* Visited and SumFunction are recursive functions; that there is a        *)
(* function as they want it, and one only, is shown by looking at the      *)
(* least index where it fails.                                             *)
(***************************************************************************)
EXTENDS Alerting, SequenceTheorems, FiniteSetTheorems, WellFoundedInduction, TLAPS

-----------------------------------------------------------------------------
(***************************************************************************)
(* The loop of Aggregate.                                                  *)
(***************************************************************************)

LEMMA Least ==
  ASSUME NEW S \in SUBSET Nat, S # {}
  PROVE  \E i \in S : \A j \in S : i <= j
  <1>1. PICK i \in S : \A j \in S : ~ (<<j, i>> \in OpToRel(<, Nat))
    BY NatLessThanWellFounded, WFMin
  <1>2. ASSUME NEW j \in S PROVE i <= j
    <2>1. i \in Nat /\ j \in Nat /\ <<j, i>> \in Nat \X Nat
      OBVIOUS
    <2>2. ~(j < i)
      BY <1>1, <2>1 DEF OpToRel
    <2>3. QED
      BY <2>1, <2>2
  <1>3. QED
    BY <1>2

LEMMA UpFrom ==
  ASSUME NEW a \in Nat, NEW b \in Nat, NEW S, a \in S,
         \A n \in a..(b - 1) : n \in S => n + 1 \in S
  PROVE  \A n \in a..b : n \in S
  <1> DEFINE Bad == {n \in a..b : n \notin S}
  <1> SUFFICES ASSUME Bad # {} PROVE FALSE
    OBVIOUS
  <1>1. Bad \in SUBSET Nat
    OBVIOUS
  <1>2. PICK n \in Bad : \A m \in Bad : n <= m
    BY <1>1, Least
  <1>3. n \in a..b /\ n \notin S /\ n # a
    OBVIOUS
  <1>4. n - 1 \in a..(b - 1) /\ n - 1 \in a..b /\ ~(n <= n - 1) /\ (n - 1) + 1 = n
    BY <1>3
  <1>5. n - 1 \in S
    BY <1>2, <1>4
  <1>6. QED
    BY <1>3, <1>4, <1>5

\* The first events of a batch.
First(s, k) == SubSeq(s, 1, k)

LEMMA FirstGrows ==
  /\ \A s \in Seq(Event) :
       /\ Len(s) \in Nat /\ First(s, 0) = <<>> /\ First(s, Len(s)) = s
       /\ \A k \in 0..(Len(s) - 1) :
            /\ First(s, k) \in Seq(Event) /\ s[k + 1] \in Event
            /\ First(s, k + 1) = Append(First(s, k), s[k + 1])
  /\ \A s, t \in Seq(Event) :
       /\ s \o t \in Seq(Event) /\ Len(s \o t) = Len(s) + Len(t)
       /\ First(s \o t, Len(s)) = s
  <1>1. ASSUME NEW s \in Seq(Event)
        PROVE  Len(s) \in Nat /\ First(s, 0) = <<>> /\ First(s, Len(s)) = s
    BY LenProperties, SubSeqEmpty, SubSeqFull DEF First
  <1>2. ASSUME NEW s \in Seq(Event), NEW k \in 0..(Len(s) - 1)
        PROVE  /\ First(s, k) \in Seq(Event) /\ s[k + 1] \in Event
               /\ First(s, k + 1) = Append(First(s, k), s[k + 1])
    <2>1. Len(s) \in Nat /\ \A i \in 1..Len(s) : s[i] \in Event
      BY LenProperties
    <2>2. k \in Int /\ k + 1 \in 1..Len(s) /\ 1 \in 1..Len(s) /\ 1..k \subseteq 1..Len(s)
      BY <2>1
    <2>3. First(s, k) \in Seq(Event)
      BY <2>1, <2>2, SubSeqProperties DEF First
    <2>4. First(s, k + 1) = First(s, k) \o <<s[k + 1]>>
      <3>1. k + 1 \in 1..Len(s) /\ (k + 1) - 1 = k
        BY <2>2
      <3>2. SubSeq(s, 1, k + 1) = SubSeq(s, 1, (k + 1) - 1) \o <<s[k + 1]>>
        BY <2>2, <3>1, SubSeqRecursiveSecond
      <3>3. QED
        BY <3>1, <3>2 DEF First
    <2>5. First(s, k) \o <<s[k + 1]>> = Append(First(s, k), s[k + 1])
      BY <2>1, <2>2, <2>3, AppendIsConcat
    <2>6. QED
      BY <2>1, <2>2, <2>3, <2>4, <2>5
  <1>3. ASSUME NEW s \in Seq(Event), NEW t \in Seq(Event)
        PROVE  /\ s \o t \in Seq(Event) /\ Len(s \o t) = Len(s) + Len(t)
               /\ First(s \o t, Len(s)) = s
    <2>1. s \o t \in Seq(Event) /\ Len(s \o t) = Len(s) + Len(t)
      BY ConcatProperties
    <2>2. CASE s = <<>>
      <3>1. Len(s) = 0 /\ Len(s) < 1 /\ 1 \in Int /\ Len(s) \in Int
        BY <2>2, EmptySeq
      <3>2. SubSeq(s \o t, 1, Len(s)) = <<>>
        BY <3>1, SubSeqEmpty
      <3>3. QED
        BY <2>1, <2>2, <3>2 DEF First
    <2>3. CASE s # <<>>
      <3>1. Len(s) \in Nat /\ Len(s) # 0
        BY <2>3, LenProperties, EmptySeq
      <3>2. 1 \in 1..Len(s) /\ Len(s) \in 1..Len(s)
        BY <3>1
      <3>3. SubSeq(s \o t, 1, Len(s)) = SubSeq(s, 1, Len(s))
        BY <3>2, SubSeqOfConcat1
      <3>4. QED
        BY <2>1, <3>3, SubSeqFull DEF First
    <2>4. QED
      BY <2>2, <2>3
  <1>4. QED
    BY <1>1, <1>2, <1>3

\* The accumulators after each of the first k events.
Rounds(f, r, s, k) ==
  f = [n \in 0..k |-> IF n = 0 THEN Nothing ELSE Visit(r, f[n - 1], s[n])]

LEMMA RoundsExist ==
  ASSUME NEW r, NEW s, NEW k \in Nat
  PROVE  \E f : Rounds(f, r, s, k)
  <1> DEFINE Bad == {n \in Nat : ~ \E f : Rounds(f, r, s, n)}
  <1>1. 0 \notin Bad
    <2> DEFINE f == [n \in 0..0 |-> Nothing]
    <2>1. f = [n \in 0..0 |-> IF n = 0 THEN Nothing ELSE Visit(r, f[n - 1], s[n])]
      OBVIOUS
    <2>2. QED
      BY <2>1 DEF Rounds
  <1>2. ASSUME NEW n \in Nat \ {0}, n - 1 \notin Bad PROVE n \notin Bad
    <2>1. n - 1 \in Nat /\ \E g : Rounds(g, r, s, n - 1)
      BY <1>2
    <2>2. PICK g : Rounds(g, r, s, n - 1)
      BY <2>1
    <2> DEFINE f == [m \in 0..n |-> IF m = n THEN Visit(r, g[n - 1], s[n]) ELSE g[m]]
               h == [m \in 0..n |-> IF m = 0 THEN Nothing ELSE Visit(r, f[m - 1], s[m])]
    <2>3. ASSUME NEW m \in 0..n PROVE f[m] = h[m]
      <3>1. CASE m = 0
        <4>1. g[0] = Nothing
          BY <2>1, <2>2 DEF Rounds
        <4>2. QED
          BY <3>1, <4>1
      <3>2. CASE m = n
        BY <2>1, <3>2
      <3>3. CASE m # 0 /\ m # n
        <4>1. m \in 0..(n - 1) /\ m - 1 \in 0..n /\ m - 1 # n
          BY <2>1, <3>3
        <4>2. g[m] = Visit(r, g[m - 1], s[m])
          BY <2>2, <3>3, <4>1 DEF Rounds
        <4>3. f[m] = g[m] /\ f[m - 1] = g[m - 1]
          BY <3>3, <4>1
        <4>4. QED
          BY <3>3, <4>2, <4>3
      <3>4. QED
        BY <3>1, <3>2, <3>3
    <2>4. f = h
      BY <2>3
    <2>5. QED
      BY <2>4 DEF Rounds
  <1>3. Bad = {}
    <2> SUFFICES ASSUME Bad # {} PROVE FALSE
      OBVIOUS
    <2>1. PICK n \in Bad : \A m \in Bad : n <= m
      BY Least
    <2> HIDE DEF Bad
    <2>2. n \in Nat
      BY DEF Bad
    <2>3. n # 0
      BY <1>1
    <2>4. n - 1 \notin Bad
      BY <2>1, <2>2
    <2>5. QED
      BY <1>2, <2>2, <2>3, <2>4
  <1>4. QED
    BY <1>3

\* They depend on these events only.
LEMMA RoundsAgree ==
  ASSUME NEW r, NEW s, NEW t, NEW f, NEW g, NEW k \in Nat, NEW l \in Nat, k <= l,
         Rounds(f, r, s, k), Rounds(g, r, t, l), \A i \in 1..k : s[i] = t[i]
  PROVE  \A n \in 0..k : f[n] = g[n]
  <1> DEFINE Bad == {n \in 0..k : f[n] # g[n]}
  <1>1. \A n \in 0..k : n \in 0..l
    OBVIOUS
  <1>2. \A n \in 0..k : /\ f[n] = IF n = 0 THEN Nothing ELSE Visit(r, f[n - 1], s[n])
                        /\ g[n] = IF n = 0 THEN Nothing ELSE Visit(r, g[n - 1], t[n])
    BY <1>1 DEF Rounds
  <1>3. Bad = {}
    <2> SUFFICES ASSUME Bad # {} PROVE FALSE
      OBVIOUS
    <2>0. Bad \in SUBSET Nat
      OBVIOUS
    <2>1. PICK n \in Bad : \A m \in Bad : n <= m
      BY <2>0, Least
    <2>2. n \in 0..k /\ f[n] # g[n]
      OBVIOUS
    <2>3. n # 0
      BY <1>2, <2>2
    <2>4. n - 1 \in 0..k /\ n \in 1..k /\ ~(n <= n - 1)
      BY <2>2, <2>3
    <2>5. f[n - 1] = g[n - 1]
      BY <2>1, <2>4
    <2>6. QED
      BY <1>2, <2>2, <2>3, <2>4, <2>5
  <1>4. QED
    BY <1>3

LEMMA VisitedIs ==
  ASSUME NEW r, NEW s, Len(s) \in Nat
  PROVE  Rounds(Visited(r, s), r, s, Len(s))
  <1>1. PICK f : Rounds(f, r, s, Len(s))
    BY RoundsExist
  <1>2. QED
    BY <1>1 DEF Rounds, Visited

Loop(r, s) == Visited(r, s)[Len(s)]

LEMMA VisitedGrows ==
  /\ \A r : Loop(r, <<>>) = Nothing
  /\ \A r : \A s \in Seq(Event) : \A ev \in Event :
       Loop(r, Append(s, ev)) = Visit(r, Loop(r, s), ev)
  <1>1. ASSUME NEW r PROVE Loop(r, <<>>) = Nothing
    <2>1. Len(<<>>) = 0
      OBVIOUS
    <2>2. Rounds(Visited(r, <<>>), r, <<>>, 0)
      BY <2>1, VisitedIs
    <2>3. Visited(r, <<>>)[0] = Nothing
      BY <2>2 DEF Rounds
    <2>4. QED
      BY <2>1, <2>3 DEF Loop
  <1>2. ASSUME NEW r, NEW s \in Seq(Event), NEW ev \in Event
        PROVE  Loop(r, Append(s, ev)) = Visit(r, Loop(r, s), ev)
    <2> DEFINE t == Append(s, ev)
               n == Len(s)
               f == Visited(r, s)
               g == Visited(r, t)
    <2>1. n \in Nat /\ Len(t) = n + 1 /\ t[n + 1] = ev /\ \A i \in 1..n : t[i] = s[i]
      BY LenProperties, AppendProperties
    <2>2. Rounds(f, r, s, n) /\ Rounds(g, r, t, n + 1)
      <3> HIDE DEF t
      <3>1. Rounds(f, r, s, Len(s))
        BY <2>1, VisitedIs
      <3>2. Rounds(g, r, t, Len(t))
        BY <2>1, VisitedIs
      <3>3. QED
        BY <2>1, <3>1, <3>2
    <2> HIDE DEF t, n, f, g
    <2>3. f[n] = g[n]
      <3>1. \A i \in 0..n : f[i] = g[i]
        BY <2>1, <2>2, RoundsAgree
      <3>2. QED
        BY <2>1, <3>1
    <2>4. g[n + 1] = Visit(r, g[n], t[n + 1])
      <3>1. n + 1 \in 0..(n + 1) /\ n + 1 # 0 /\ (n + 1) - 1 = n
        BY <2>1
      <3>2. QED
        BY <2>2, <3>1 DEF Rounds
    <2>5. QED
      BY <2>1, <2>3, <2>4 DEF Loop, t, n, f, g
  <1>3. QED
    BY <1>1, <1>2

-----------------------------------------------------------------------------
(***************************************************************************)
(* SumFunction.                                                            *)
(***************************************************************************)

LEMMA Parts ==
  ASSUME NEW T, IsFiniteSet(T)
  PROVE  /\ Cardinality(T) \in Nat
         /\ \A S \in SUBSET T :
              /\ IsFiniteSet(S) /\ Cardinality(S) \in Nat /\ Cardinality(S) <= Cardinality(T)
              /\ \A x \in S : /\ S \ {x} \in SUBSET T
                              /\ Cardinality(S \ {x}) = Cardinality(S) - 1
  <1>1. Cardinality(T) \in Nat
    BY FS_CardinalityType
  <1>2. ASSUME NEW S \in SUBSET T
        PROVE  IsFiniteSet(S) /\ Cardinality(S) \in Nat /\ Cardinality(S) <= Cardinality(T)
    <2>1. IsFiniteSet(S) /\ Cardinality(S) <= Cardinality(T)
      BY FS_Subset
    <2>2. QED
      BY <2>1, FS_CardinalityType
  <1>3. ASSUME NEW S \in SUBSET T, NEW x \in S
        PROVE  Cardinality(S \ {x}) = Cardinality(S) - 1
    BY <1>2, FS_RemoveElement
  <1>4. QED
    BY <1>1, <1>2, <1>3

\* Of some parts of a finite set, one that is no larger than the others.
LEMMA LeastPart ==
  ASSUME NEW T, IsFiniteSet(T), NEW C \in SUBSET SUBSET T, C # {}
  PROVE  \E S \in C : \A R \in C : Cardinality(S) <= Cardinality(R)
  <1> DEFINE Sizes == {Cardinality(S) : S \in C}
  <1>1. Sizes \in SUBSET Nat /\ Sizes # {}
    BY Parts
  <1>2. PICK n \in Sizes : \A m \in Sizes : n <= m
    BY <1>1, Least
  <1>3. QED
    BY <1>2

Some(S) == CHOOSE x \in S : TRUE

\* The sums of h over the parts of a set.
Sums(f, h, P) == f = [S \in P |-> IF S = {} THEN 0 ELSE h[Some(S)] + f[S \ {Some(S)}]]

LEMMA SumsExist ==
  ASSUME NEW h, NEW T, IsFiniteSet(T)
  PROVE  \E f : Sums(f, h, SUBSET T)
  <1> DEFINE Small(n) == {S \in SUBSET T : Cardinality(S) <= n}
             Bad == {n \in Nat : ~ \E f : Sums(f, h, Small(n))}
  <1>1. ASSUME NEW S \in SUBSET T, S # {}
        PROVE  Some(S) \in S /\ S \ {Some(S)} \in SUBSET T
    BY <1>1 DEF Some
  <1>2. 0 \notin Bad
    <2>1. Small(0) = {{}}
      <3>1. \A S \in SUBSET T : Cardinality(S) <= 0 <=> S = {}
        BY Parts, FS_EmptySet
      <3>2. QED
        BY <3>1
    <2> DEFINE f == [S \in {{}} |-> 0]
    <2>2. f = [S \in {{}} |-> IF S = {} THEN 0 ELSE h[Some(S)] + f[S \ {Some(S)}]]
      OBVIOUS
    <2>3. Sums(f, h, Small(0))
      BY <2>1, <2>2 DEF Sums
    <2>4. QED
      BY <2>3
  <1>3. ASSUME NEW n \in Nat \ {0}, n - 1 \notin Bad PROVE n \notin Bad
    <2>1. PICK g : Sums(g, h, Small(n - 1))
      BY <1>3
    <2> DEFINE Sum(k, S) == IF S = {} THEN 0 ELSE h[Some(S)] + k[S \ {Some(S)}]
               f == [S \in Small(n) |-> Sum(g, S)]
    <2>2. ASSUME NEW S \in Small(n - 1) PROVE g[S] = Sum(g, S)
      BY <2>1 DEF Sums
    <2>3. ASSUME NEW S \in Small(n), S # {} PROVE S \ {Some(S)} \in Small(n - 1)
      <3>1. /\ Some(S) \in S /\ S \in SUBSET T /\ S \ {Some(S)} \in SUBSET T
            /\ Cardinality(S) \in Nat /\ Cardinality(S) <= n
            /\ Cardinality(S \ {Some(S)}) = Cardinality(S) - 1
        BY <1>1, <2>3, Parts
      <3>2. Cardinality(S \ {Some(S)}) <= n - 1
        BY <3>1
      <3>3. QED
        BY <3>1, <3>2
    <2>4. ASSUME NEW S \in Small(n - 1) PROVE S \in Small(n)
      BY Parts
    <2>5. ASSUME NEW S \in Small(n - 1) PROVE f[S] = g[S]
      BY <2>2, <2>4
    <2> HIDE DEF Small
    <2>6. ASSUME NEW S \in Small(n) PROVE Sum(g, S) = Sum(f, S)
      BY <2>3, <2>5
    <2>7. f = [S \in Small(n) |-> Sum(f, S)]
      BY <2>6
    <2>8. Sums(f, h, Small(n))
      BY <2>7 DEF Sums
    <2>9. QED
      BY <2>8
  <1> HIDE DEF Small
  <1>4. Bad = {}
    <2> SUFFICES ASSUME Bad # {} PROVE FALSE
      OBVIOUS
    <2>1. Bad \in SUBSET Nat
      OBVIOUS
    <2>2. PICK n \in Bad : \A m \in Bad : n <= m
      BY <2>1, Least
    <2> HIDE DEF Bad
    <2>3. n \in Nat /\ n # 0 /\ ~(n <= n - 1)
      BY <1>2, <2>1
    <2>4. n - 1 \notin Bad
      BY <2>2, <2>3
    <2>5. QED
      BY <1>3, <2>3, <2>4
  <1>5. Cardinality(T) \in Nat /\ Small(Cardinality(T)) = SUBSET T
    BY Parts DEF Small
  <1>6. \E f : Sums(f, h, Small(Cardinality(T)))
    BY <1>4, <1>5
  <1>7. QED
    BY <1>5, <1>6

LEMMA SumFunctionIs ==
  ASSUME NEW h, IsFiniteSet(DOMAIN h)
  PROVE  \E f : Sums(f, h, SUBSET DOMAIN h) /\ SumFunction(h) = f[DOMAIN h]
  <1> DEFINE F == CHOOSE f : Sums(f, h, SUBSET DOMAIN h)
  <1>1. Sums(F, h, SUBSET DOMAIN h)
    BY SumsExist
  <1>2. SumFunction(h) = F[DOMAIN h]
    BY DEF SumFunction, SumFunctionOnSet, FoldFunctionOnSet, MapThenFoldSet, Sums, Some
  <1>3. QED
    BY <1>1, <1>2

BySome(f, h, P) ==
  \A S \in P : S # {} => Some(S) \in S /\ f[S] = h[Some(S)] + f[S \ {Some(S)}]

LEMMA SumsAre ==
  ASSUME NEW h, NEW f, NEW T, Sums(f, h, SUBSET T)
  PROVE  f[{}] = 0 /\ BySome(f, h, SUBSET T)
  <1>1. \A S \in SUBSET T : f[S] = IF S = {} THEN 0 ELSE h[Some(S)] + f[S \ {Some(S)}]
    BY DEF Sums
  <1>2. \A S : S # {} => Some(S) \in S
    BY DEF Some
  <1>3. {} \in SUBSET T
    OBVIOUS
  <1>4. QED
    BY <1>1, <1>2, <1>3 DEF BySome

\* Functions with integer values that agree on a set.
Agree(h, g, T) == \A x \in T : h[x] \in Int /\ g[x] = h[x]

\* They depend on the parts only, and are integers.
LEMMA SumsAgree ==
  ASSUME NEW T, IsFiniteSet(T), NEW U, T \subseteq U, NEW h, NEW g, Agree(h, g, T),
         NEW f, NEW e, Sums(f, h, SUBSET T), Sums(e, g, SUBSET U)
  PROVE  \A S \in SUBSET T : f[S] \in Int /\ f[S] = e[S]
  <1> DEFINE Bad == {S \in SUBSET T : ~(f[S] \in Int /\ f[S] = e[S])}
  <1> SUFFICES ASSUME Bad # {} PROVE FALSE
    OBVIOUS
  <1>1. Bad \in SUBSET SUBSET T
    OBVIOUS
  <1>2. PICK S \in Bad : \A R \in Bad : Cardinality(S) <= Cardinality(R)
    BY <1>1, LeastPart
  <1> DEFINE x == Some(S)
             R == S \ {x}
  <1>3. S \in SUBSET T /\ S \in SUBSET U /\ ~(f[S] \in Int /\ f[S] = e[S])
    OBVIOUS
  <1>4. S # {}
    <2>1. f[{}] = 0 /\ e[{}] = 0
      BY SumsAre
    <2>2. ASSUME S = {} PROVE f[S] = 0 /\ e[S] = 0
      BY <2>1, <2>2
    <2>3. QED
      BY <1>3, <2>2
  <1>5. x \in S /\ f[S] = h[x] + f[R] /\ e[S] = g[x] + e[R]
    <2>1. BySome(f, h, SUBSET T) /\ BySome(e, g, SUBSET U)
      BY SumsAre
    <2>2. QED
      BY <1>3, <1>4, <2>1 DEF BySome
  <1>6. R \in SUBSET T /\ Cardinality(R) = Cardinality(S) - 1 /\ Cardinality(S) \in Nat
    BY <1>3, <1>5, Parts
  <1>7. R \notin Bad
    BY <1>2, <1>6
  <1>8. f[R] \in Int /\ f[R] = e[R]
    BY <1>6, <1>7
  <1>9. h[x] \in Int /\ g[x] = h[x]
    BY <1>3, <1>5 DEF Agree
  <1> HIDE DEF x, R, Bad
  <1>10. QED
    BY <1>3, <1>5, <1>8, <1>9

ByAny(f, h, P) == \A S \in P : \A y \in S : f[S] = h[y] + f[S \ {y}]

\* The sum of a part does not depend on the element that comes first.
LEMMA SumsByAny ==
  ASSUME NEW T, IsFiniteSet(T), NEW h, Agree(h, h, T), NEW f, Sums(f, h, SUBSET T)
  PROVE  ByAny(f, h, SUBSET T)
  <1> DEFINE Bad == {S \in SUBSET T : \E y \in S : f[S] # h[y] + f[S \ {y}]}
  <1> SUFFICES ASSUME Bad # {} PROVE FALSE
    BY DEF ByAny
  <1>1. Bad \in SUBSET SUBSET T
    OBVIOUS
  <1>2. PICK S \in Bad : \A R \in Bad : Cardinality(S) <= Cardinality(R)
    BY <1>1, LeastPart
  <1>3. PICK y \in S : f[S] # h[y] + f[S \ {y}]
    OBVIOUS
  <1>4. S \in SUBSET T /\ S # {}
    BY <1>3
  <1> DEFINE x == Some(S)
  <1>5. x \in S /\ f[S] = h[x] + f[S \ {x}]
    <2>1. BySome(f, h, SUBSET T)
      BY SumsAre
    <2>2. QED
      BY <1>4, <2>1 DEF BySome
  <1> HIDE DEF x
  <1>6. x # y
    BY <1>3, <1>5
  <1>7. /\ S \ {x} \in SUBSET T /\ Cardinality(S \ {x}) = Cardinality(S) - 1
        /\ S \ {y} \in SUBSET T /\ Cardinality(S \ {y}) = Cardinality(S) - 1
        /\ Cardinality(S) \in Nat
    BY <1>4, <1>5, Parts
  <1>8. S \ {x} \notin Bad /\ S \ {y} \notin Bad
    <2>1. ASSUME NEW R \in Bad, Cardinality(R) = Cardinality(S) - 1 PROVE FALSE
      <3>1. Cardinality(S) <= Cardinality(R)
        BY <1>2
      <3>2. QED
        BY <1>7, <2>1, <3>1
    <2> HIDE DEF Bad
    <2>2. QED
      BY <1>7, <2>1
  <1>9. f[S \ {x}] = h[y] + f[(S \ {x}) \ {y}]
    BY <1>6, <1>7, <1>8
  <1>10. f[S \ {y}] = h[x] + f[(S \ {y}) \ {x}]
    BY <1>5, <1>6, <1>7, <1>8
  <1>11. (S \ {x}) \ {y} = (S \ {y}) \ {x} /\ (S \ {x}) \ {y} \in SUBSET T
    BY <1>4
  <1>12. \A R \in SUBSET T : f[R] \in Int
    <2>1. \A R \in SUBSET T : f[R] \in Int /\ f[R] = f[R]
      BY SumsAgree
    <2>2. QED
      BY <2>1
  <1>13. f[(S \ {x}) \ {y}] \in Int /\ h[x] \in Int /\ h[y] \in Int
    BY <1>4, <1>5, <1>11, <1>12 DEF Agree
  <1> DEFINE a == f[S \ {x}]
             b == f[S \ {y}]
             c == f[(S \ {x}) \ {y}]
  <1>14. f[S] = h[x] + a /\ f[S] # h[y] + b /\ a = h[y] + c /\ b = h[x] + c /\ c \in Int
    BY <1>3, <1>5, <1>9, <1>10, <1>11, <1>13
  <1> HIDE DEF a, b, c, Bad
  <1>15. QED
    BY <1>13, <1>14

LEMMA SumGrows ==
  ASSUME NEW T, IsFiniteSet(T), NEW x, x \notin T, NEW h \in [T \cup {x} -> Int],
         NEW g, DOMAIN g = T, Agree(g, h, T)
  PROVE  SumFunction(g) \in Int /\ SumFunction(h) = SumFunction(g) + h[x]
  <1> DEFINE U == T \cup {x}
  <1>1. IsFiniteSet(U)
    BY FS_AddElement
  <1>2. PICK f : Sums(f, g, SUBSET T) /\ SumFunction(g) = f[T]
    BY SumFunctionIs
  <1>3. PICK e : Sums(e, h, SUBSET U) /\ SumFunction(h) = e[U]
    BY <1>1, SumFunctionIs
  <1>4. T \subseteq U /\ U \ {x} = T /\ T \in SUBSET T /\ U \in SUBSET U /\ x \in U
    OBVIOUS
  <1>5. Agree(h, h, U)
    BY DEF Agree
  <1> HIDE DEF U
  <1>6. f[T] \in Int /\ f[T] = e[T]
    <2>1. \A S \in SUBSET T : f[S] \in Int /\ f[S] = e[S]
      BY <1>2, <1>3, <1>4, <1>5, SumsAgree
    <2>2. QED
      BY <1>4, <2>1
  <1>7. e[U] = h[x] + e[T]
    <2>1. ByAny(e, h, SUBSET U)
      BY <1>1, <1>3, <1>5, SumsByAny
    <2>2. e[U] = h[x] + e[U \ {x}]
      BY <1>4, <2>1 DEF ByAny
    <2>3. QED
      BY <1>4, <2>2
  <1>8. h[x] \in Int
    OBVIOUS
  <1> DEFINE a == e[T]
  <1>9. SumFunction(g) = a /\ a \in Int /\ SumFunction(h) = h[x] + a
    BY <1>2, <1>3, <1>6, <1>7
  <1> HIDE DEF a
  <1>10. QED
    BY <1>8, <1>9

LEMMA SumOfNone ==
  ASSUME NEW h, DOMAIN h = {}
  PROVE  SumFunction(h) = 0
  <1>1. \E f : Sums(f, h, SUBSET DOMAIN h) /\ SumFunction(h) = f[DOMAIN h]
    BY FS_EmptySet, SumFunctionIs
  <1>2. QED
    BY <1>1, SumsAre

-----------------------------------------------------------------------------
(***************************************************************************)
(* float64.                                                                *)
(***************************************************************************)

LEMMA FloatIs ==
  /\ \A a, b \in Int : /\ Less(<<a, 1>>, <<b, 1>>) <=> a < b
                       /\ AtMost(<<a, 1>>, <<b, 1>>) <=> a <= b
                       /\ Plus(<<a, 1>>, <<b, 1>>) = <<a + b, 1>>
  /\ \A a \in Int : /\ Less(<<-1, 0>>, <<a, 1>>) /\ Less(<<a, 1>>, Inf)
                    /\ <<a, 1>> # NaN /\ <<a, 1>> # <<>> /\ <<a, 1>>[1] = a
  /\ \A x : ~Less(x, NaN) /\ ~Less(NaN, x)
  /\ NaN # <<>>
  <1>1. \A a \in Int : /\ <<a, 1>> # NaN /\ <<a, 1>> # <<>> /\ <<a, 1>>[1] = a /\ <<a, 1>>[2] = 1
    BY DEF NaN
  <1>2. ASSUME NEW a \in Int, NEW b \in Int
        PROVE  /\ Less(<<a, 1>>, <<b, 1>>) <=> a < b
               /\ Less(<<b, 1>>, <<a, 1>>) <=> b < a
               /\ AtMost(<<a, 1>>, <<b, 1>>) <=> a <= b
    <2>1. Less(<<a, 1>>, <<b, 1>>) <=> a < b
      BY <1>1 DEF Less
    <2>2. Less(<<b, 1>>, <<a, 1>>) <=> b < a
      BY <1>1 DEF Less
    <2>3. AtMost(<<a, 1>>, <<b, 1>>) <=> ~Less(<<b, 1>>, <<a, 1>>)
      BY <1>1 DEF AtMost
    <2>4. QED
      BY <2>1, <2>2, <2>3
  <1>3. \A a, b \in Int : Plus(<<a, 1>>, <<b, 1>>) = <<a + b, 1>>
    BY DEF Plus
  <1>4. \A a \in Int : Less(<<-1, 0>>, <<a, 1>>) /\ Less(<<a, 1>>, Inf)
    BY DEF Less, Inf, NaN
  <1>5. \A x : ~Less(x, NaN) /\ ~Less(NaN, x)
    BY DEF Less
  <1>6. NaN # <<>>
    BY DEF NaN
  <1>7. QED
    BY <1>1, <1>2, <1>3, <1>4, <1>5, <1>6

LEMMA PlusType ==
  ASSUME NEW x \in Int \X Nat, NEW y \in {NaN} \cup (Int \X {1})
  PROVE  Plus(x, y) \in Int \X Nat
  <1>1. x[1] \in Int /\ x[2] \in Nat /\ y[1] \in Int /\ y[2] \in {0, 1}
    BY DEF NaN
  <1> DEFINE a == x[1] * y[2] + y[1] * x[2]
             b == x[2] * y[2]
  <1>2. x[1] * y[2] \in Int /\ y[1] * x[2] \in Int /\ b \in Nat
    BY <1>1
  <1>3. a \in Int
    BY <1>2
  <1> HIDE DEF a, b
  <1>4. <<a, b>> \in Int \X Nat
    BY <1>2, <1>3
  <1>5. QED
    BY <1>4 DEF Plus, a, b

LEMMA FieldType ==
  \A ev \in Event : \A field :
    FieldFloat(ev, field) \in {<<>>, NaN} \cup (Int \X {1})
  BY AlertingAssumption DEF Event, FieldFloat

-----------------------------------------------------------------------------
(***************************************************************************)
(* What the accumulator is to the events.                                  *)
(***************************************************************************)

Chosen(r, s)   == {i \in DOMAIN s : Match(r, s[i])}
Value(r, s, i) == FieldFloat(s[i], r.field)
Numeric(r, s)  == {i \in Chosen(r, s) : Value(r, s, i) \notin {<<>>, NaN}}
Addends(r, s)  == [i \in Numeric(r, s) |-> Value(r, s, i)[1]]

CountFits(r, s, acc) == acc.count = Cardinality(Chosen(r, s))

SumFits(r, s, acc) ==
  /\ acc.sum \in Int \X Nat
  /\ (\A i \in Chosen(r, s) : Value(r, s, i) # NaN) => acc.sum = <<SumFunction(Addends(r, s)), 1>>

MaxFits(r, s, acc) ==
  /\ Numeric(r, s) = {} => acc.max = <<-1, 0>>
  /\ Numeric(r, s) # {} =>
       /\ \E i \in Numeric(r, s) : acc.max = Value(r, s, i)
       /\ \A i \in Numeric(r, s) : AtMost(Value(r, s, i), acc.max)

MinFits(r, s, acc) ==
  /\ Numeric(r, s) = {} => acc.min = Inf
  /\ Numeric(r, s) # {} =>
       /\ \E i \in Numeric(r, s) : acc.min = Value(r, s, i)
       /\ \A i \in Numeric(r, s) : AtMost(acc.min, Value(r, s, i))

Fits(r, s, acc) ==
  CountFits(r, s, acc) /\ SumFits(r, s, acc) /\ MaxFits(r, s, acc) /\ MinFits(r, s, acc)

LEMMA NothingFits == \A r : Fits(r, <<>>, Nothing)
  <1> SUFFICES ASSUME NEW r PROVE Fits(r, <<>>, Nothing)
    OBVIOUS
  <1>1. Chosen(r, <<>>) = {} /\ Numeric(r, <<>>) = {}
    BY DEF Chosen, Numeric
  <1>2. CountFits(r, <<>>, Nothing)
    BY <1>1, FS_EmptySet DEF CountFits, Nothing
  <1>3. SumFits(r, <<>>, Nothing)
    <2>1. DOMAIN Addends(r, <<>>) = {}
      BY <1>1 DEF Addends
    <2>2. SumFunction(Addends(r, <<>>)) = 0
      BY <2>1, SumOfNone
    <2>3. QED
      BY <2>2 DEF SumFits, Nothing, Zero
  <1>4. MaxFits(r, <<>>, Nothing) /\ MinFits(r, <<>>, Nothing)
    BY <1>1 DEF MaxFits, MinFits, Nothing
  <1>5. QED
    BY <1>2, <1>3, <1>4 DEF Fits

LEMMA ChosenType ==
  ASSUME NEW r, NEW s \in Seq(Event)
  PROVE  /\ Chosen(r, s) \subseteq 1..Len(s) /\ Numeric(r, s) \subseteq Chosen(r, s)
         /\ Len(s) \in Nat /\ Len(s) + 1 \notin Chosen(r, s)
         /\ IsFiniteSet(Chosen(r, s)) /\ IsFiniteSet(Numeric(r, s))
         /\ Cardinality(Chosen(r, s)) \in Nat
         /\ Chosen(r, s) # {} <=> Cardinality(Chosen(r, s)) > 0
         /\ \A i \in Numeric(r, s) : Value(r, s, i) \in Int \X {1}
  <1>1. Len(s) \in Nat /\ DOMAIN s = 1..Len(s) /\ \A i \in 1..Len(s) : s[i] \in Event
    BY LenProperties
  <1>2. Chosen(r, s) \subseteq 1..Len(s) /\ Numeric(r, s) \subseteq Chosen(r, s)
    BY <1>1 DEF Chosen, Numeric
  <1>3. IsFiniteSet(1..Len(s))
    BY <1>1, FS_Interval
  <1>4. IsFiniteSet(Chosen(r, s)) /\ IsFiniteSet(Numeric(r, s))
    BY <1>2, <1>3, FS_Subset
  <1>5. Cardinality(Chosen(r, s)) \in Nat
    BY <1>4, FS_CardinalityType
  <1>6. Cardinality(Chosen(r, s)) = 0 <=> Chosen(r, s) = {}
    BY <1>4, FS_EmptySet
  <1>7. ASSUME NEW i \in Numeric(r, s) PROVE Value(r, s, i) \in Int \X {1}
    <2>1. s[i] \in Event /\ Value(r, s, i) \notin {<<>>, NaN}
      BY <1>1, <1>2 DEF Numeric
    <2>2. QED
      BY <2>1, FieldType DEF Value
  <1>8. Len(s) + 1 \notin Chosen(r, s)
    BY <1>1, <1>2
  <1>9. QED
    BY <1>1, <1>2, <1>4, <1>5, <1>6, <1>7, <1>8

\* What one more event changes.
LEMMA ChosenGrows ==
  ASSUME NEW r, NEW s \in Seq(Event), NEW ev \in Event
  PROVE  LET t == Append(s, ev)
             n == Len(s) + 1
             f == FieldFloat(ev, r.field) IN
         /\ t \in Seq(Event)
         /\ Chosen(r, t) = Chosen(r, s) \cup (IF Match(r, ev) THEN {n} ELSE {})
         /\ Numeric(r, t) =
              Numeric(r, s) \cup (IF Match(r, ev) /\ f \notin {<<>>, NaN} THEN {n} ELSE {})
         /\ \A i \in Chosen(r, s) : Value(r, t, i) = Value(r, s, i)
         /\ Value(r, t, n) = f
  <1> DEFINE t == Append(s, ev)
             n == Len(s) + 1
             f == FieldFloat(ev, r.field)
  <1>1. /\ t \in Seq(Event) /\ Len(t) = n /\ Len(s) \in Nat
        /\ t[n] = ev /\ \A i \in 1..Len(s) : t[i] = s[i]
    BY LenProperties, AppendProperties
  <1>2. DOMAIN t = 1..n /\ DOMAIN s = 1..Len(s)
    BY <1>1, LenProperties
  <1> HIDE DEF t
  <1>3. 1..n = 1..Len(s) \cup {n} /\ n \notin 1..Len(s)
    BY <1>1
  <1> HIDE DEF n
  <1>4. Chosen(r, t) = Chosen(r, s) \cup (IF Match(r, ev) THEN {n} ELSE {})
    BY <1>1, <1>2, <1>3 DEF Chosen
  <1>5. \A i \in Chosen(r, s) : Value(r, t, i) = Value(r, s, i)
    BY <1>1, <1>2 DEF Chosen, Value
  <1>6. Value(r, t, n) = f
    BY <1>1 DEF Value
  <1> HIDE DEF f
  <1>7. Numeric(r, t) =
          Numeric(r, s) \cup (IF Match(r, ev) /\ f \notin {<<>>, NaN} THEN {n} ELSE {})
    BY <1>4, <1>5, <1>6 DEF Numeric
  <1>8. QED
    BY <1>1, <1>4, <1>5, <1>6, <1>7 DEF t, n, f

LEMMA CountKeeps ==
  ASSUME NEW r, NEW s \in Seq(Event), NEW ev \in Event, NEW acc, CountFits(r, s, acc)
  PROVE  CountFits(r, Append(s, ev), Visit(r, acc, ev))
  <1> DEFINE t == Append(s, ev)
             n == Len(s) + 1
  <1>1. /\ Chosen(r, t) = Chosen(r, s) \cup (IF Match(r, ev) THEN {n} ELSE {})
        /\ n \notin Chosen(r, s) /\ IsFiniteSet(Chosen(r, s))
    BY ChosenGrows, ChosenType
  <1> HIDE DEF t, n
  <1>2. CASE Match(r, ev)
    <2>1. Cardinality(Chosen(r, t)) = Cardinality(Chosen(r, s)) + 1
      BY <1>1, <1>2, FS_AddElement
    <2>2. Visit(r, acc, ev).count = acc.count + 1
      BY <1>2 DEF Visit
    <2>3. QED
      BY <2>1, <2>2 DEF CountFits, t
  <1>3. CASE ~Match(r, ev)
    <2>1. Chosen(r, t) = Chosen(r, s)
      BY <1>1, <1>3
    <2>2. Visit(r, acc, ev) = acc
      BY <1>3 DEF Visit
    <2>3. QED
      BY <2>1, <2>2 DEF CountFits, t
  <1>4. QED
    BY <1>2, <1>3

LEMMA SumKeeps ==
  ASSUME NEW r, NEW s \in Seq(Event), NEW ev \in Event, NEW acc, SumFits(r, s, acc)
  PROVE  SumFits(r, Append(s, ev), Visit(r, acc, ev))
  <1> DEFINE t == Append(s, ev)
             n == Len(s) + 1
             f == FieldFloat(ev, r.field)
             C == Chosen(r, s)
             N == Numeric(r, s)
             sum == Visit(r, acc, ev).sum
  <1>1. /\ Chosen(r, t) = C \cup (IF Match(r, ev) THEN {n} ELSE {})
        /\ Numeric(r, t) = N \cup (IF Match(r, ev) /\ f \notin {<<>>, NaN} THEN {n} ELSE {})
        /\ \A i \in C : Value(r, t, i) = Value(r, s, i)
        /\ Value(r, t, n) = f
    BY ChosenGrows
  <1>2. /\ n \notin C /\ N \subseteq C /\ IsFiniteSet(N)
        /\ \A i \in N : Value(r, s, i) \in Int \X {1}
    BY ChosenType
  <1>3. f \in {<<>>, NaN} \cup (Int \X {1})
    BY FieldType
  <1>4. acc.sum \in Int \X Nat
    BY DEF SumFits
  <1> HIDE DEF t, n, f, C, N
  <1>5. sum \in Int \X Nat
    <2>1. CASE ~Match(r, ev) \/ f = <<>>
      <3>1. sum = acc.sum
        BY <2>1 DEF Visit, f
      <3>2. QED
        BY <1>4, <3>1
    <2>2. CASE Match(r, ev) /\ f # <<>>
      <3>1. sum = Plus(acc.sum, f)
        BY <2>2 DEF Visit, f
      <3>2. f \in {NaN} \cup (Int \X {1})
        BY <1>3, <2>2
      <3>3. QED
        BY <1>4, <3>1, <3>2, PlusType
    <2>3. QED
      BY <2>1, <2>2
  <1>6. ASSUME \A i \in Chosen(r, t) : Value(r, t, i) # NaN
        PROVE  sum = <<SumFunction(Addends(r, t)), 1>>
    <2>1. \A i \in C : Value(r, s, i) # NaN
      BY <1>1, <1>6
    <2>2. acc.sum = <<SumFunction(Addends(r, s)), 1>>
      BY <2>1 DEF SumFits, C
    <2>3. CASE ~Match(r, ev) \/ f = <<>>
      <3>1. sum = acc.sum
        BY <2>3 DEF Visit, f
      <3>2. Numeric(r, t) = N
        BY <1>1, <2>3
      <3>3. \A i \in N : Value(r, t, i)[1] = Value(r, s, i)[1]
        BY <1>1, <1>2
      <3>4. Addends(r, t) = Addends(r, s)
        BY <3>2, <3>3 DEF Addends, N
      <3>5. QED
        BY <2>2, <3>1, <3>4
    <2>4. CASE Match(r, ev) /\ f # <<>>
      <3>1. n \in Chosen(r, t)
        BY <1>1, <2>4
      <3>2. f # NaN
        BY <1>1, <1>6, <3>1
      <3>3. PICK a \in Int : f = <<a, 1>>
        BY <1>3, <2>4, <3>2
      <3>4. Numeric(r, t) = N \cup {n} /\ n \notin N
        BY <1>1, <1>2, <2>4, <3>2
      <3> DEFINE g == Addends(r, s)
                 h == Addends(r, t)
      <3>5. DOMAIN g = N /\ \A i \in N : g[i] \in Int
        <4>1. \A i \in N : Value(r, s, i)[1] \in Int
          BY <1>2
        <4>2. QED
          BY <4>1 DEF Addends, N
      <3>6. h[n] = a /\ \A i \in N : g[i] = h[i]
        <4>1. h[n] = Value(r, t, n)[1]
          BY <3>4 DEF Addends
        <4>2. h[n] = a
          BY <1>1, <3>3, <4>1, FloatIs
        <4>3. \A i \in N : h[i] = Value(r, t, i)[1] /\ g[i] = Value(r, s, i)[1]
          BY <3>4 DEF Addends, N
        <4>4. \A i \in N : Value(r, t, i) = Value(r, s, i)
          BY <1>1, <1>2
        <4>5. QED
          BY <4>2, <4>3, <4>4
      <3>7. h \in [N \cup {n} -> Int]
        <4>1. DOMAIN h = N \cup {n} /\ h = [i \in DOMAIN h |-> h[i]]
          BY <3>4 DEF Addends
        <4>2. \A i \in N : h[i] \in Int
          BY <3>5, <3>6
        <4>3. \A i \in N \cup {n} : h[i] \in Int
          BY <3>6, <4>2
        <4> HIDE DEF h
        <4>4. QED
          BY <4>1, <4>3
      <3> HIDE DEF g, h
      <3>8. SumFunction(g) \in Int /\ SumFunction(h) = SumFunction(g) + h[n]
        <4>1. Agree(g, h, N)
          BY <3>5, <3>6 DEF Agree
        <4>2. IsFiniteSet(N) /\ n \notin N /\ DOMAIN g = N
          BY <1>2, <3>4, <3>5
        <4>3. QED
          BY <3>7, <4>1, <4>2, SumGrows
      <3>9. sum = Plus(<<SumFunction(g), 1>>, <<a, 1>>)
        BY <2>2, <2>4, <3>3 DEF Visit, f, g
      <3>10. sum = <<SumFunction(g) + a, 1>>
        BY <3>8, <3>9, FloatIs
      <3>11. QED
        BY <3>6, <3>8, <3>10 DEF h
    <2>5. QED
      BY <2>3, <2>4
  <1>7. QED
    BY <1>5, <1>6 DEF SumFits, t

LEMMA MaxKeeps ==
  ASSUME NEW r, NEW s \in Seq(Event), NEW ev \in Event, NEW acc, MaxFits(r, s, acc)
  PROVE  MaxFits(r, Append(s, ev), Visit(r, acc, ev))
  <1> DEFINE t == Append(s, ev)
             n == Len(s) + 1
             f == FieldFloat(ev, r.field)
             N == Numeric(r, s)
             max == Visit(r, acc, ev).max
  <1>1. /\ Numeric(r, t) = N \cup (IF Match(r, ev) /\ f \notin {<<>>, NaN} THEN {n} ELSE {})
        /\ \A i \in N : Value(r, t, i) = Value(r, s, i)
        /\ Value(r, t, n) = f
        /\ \A i \in N : Value(r, s, i) \in Int \X {1}
    BY ChosenGrows, ChosenType
  <1>2. f \in {<<>>, NaN} \cup (Int \X {1})
    BY FieldType
  <1>3. /\ N = {} => acc.max = <<-1, 0>>
        /\ N # {} => /\ \E i \in N : acc.max = Value(r, s, i)
                     /\ \A i \in N : AtMost(Value(r, s, i), acc.max)
    BY DEF MaxFits
  <1> HIDE DEF t, n, f, N
  <1>4. CASE ~Match(r, ev) \/ f \in {<<>>, NaN}
    <2>1. max = acc.max
      BY <1>4, FloatIs DEF Visit, f
    <2>2. Numeric(r, t) = N
      BY <1>1, <1>4
    <2> HIDE DEF max
    <2>3. MaxFits(r, t, Visit(r, acc, ev))
      BY <1>1, <1>3, <2>1, <2>2 DEF MaxFits, max
    <2>4. QED
      BY <2>3 DEF t
  <1>5. CASE Match(r, ev) /\ f \notin {<<>>, NaN}
    <2>1. PICK a \in Int : f = <<a, 1>>
      BY <1>2, <1>5
    <2>2. max = IF Less(acc.max, f) THEN f ELSE acc.max
      BY <1>5 DEF Visit, f
    <2> HIDE DEF max
    <2>3. Numeric(r, t) = N \cup {n}
      BY <1>1, <1>5
    <2>4. CASE N = {}
      <3>1. max = f
        BY <1>3, <2>1, <2>2, <2>4, FloatIs
      <3>2. AtMost(f, f)
        BY <2>1, FloatIs
      <3>3. Numeric(r, t) = {n} /\ Value(r, t, n) = f
        BY <1>1, <2>3, <2>4
      <3>4. QED
        BY <3>1, <3>2, <3>3 DEF MaxFits, max, t
    <2>5. CASE N # {}
      <3>1. PICK j \in N : acc.max = Value(r, s, j)
        BY <1>3, <2>5
      <3>2. PICK b \in Int : acc.max = <<b, 1>>
        BY <1>1, <3>1
      <3>3. \A i \in N : \E c \in Int : Value(r, s, i) = <<c, 1>> /\ c <= b
        <4> SUFFICES ASSUME NEW i \in N PROVE \E c \in Int : Value(r, s, i) = <<c, 1>> /\ c <= b
          OBVIOUS
        <4>1. PICK c \in Int : Value(r, s, i) = <<c, 1>>
          BY <1>1
        <4>2. AtMost(<<c, 1>>, <<b, 1>>)
          BY <1>3, <2>5, <3>2, <4>1
        <4>3. QED
          BY <4>1, <4>2, FloatIs
      <3>4. max = IF b < a THEN <<a, 1>> ELSE <<b, 1>>
        BY <2>1, <2>2, <3>2, FloatIs
      <3>5. PICK d \in Int : max = <<d, 1>> /\ a <= d /\ b <= d /\ d \in {a, b}
        BY <3>4
      <3>6. \A i \in N \cup {n} : AtMost(Value(r, t, i), max)
        <4>1. AtMost(Value(r, t, n), max)
          <5>1. AtMost(<<a, 1>>, <<d, 1>>)
            BY <3>5, FloatIs
          <5>2. QED
            BY <1>1, <2>1, <3>5, <5>1
        <4>2. ASSUME NEW i \in N PROVE AtMost(Value(r, t, i), max)
          <5>1. PICK c \in Int : Value(r, s, i) = <<c, 1>> /\ c <= b
            BY <3>3
          <5>2. c <= d
            BY <3>5, <5>1
          <5>3. AtMost(<<c, 1>>, <<d, 1>>)
            BY <5>2, FloatIs
          <5>4. QED
            BY <1>1, <3>5, <5>1, <5>3
        <4>3. QED
          BY <4>1, <4>2
      <3>7. \E i \in N \cup {n} : max = Value(r, t, i)
        <4>1. CASE d = a
          BY <1>1, <2>1, <3>5, <4>1
        <4>2. CASE d = b
          BY <1>1, <3>1, <3>2, <3>5, <4>2
        <4>3. QED
          BY <3>5, <4>1, <4>2
      <3>8. QED
        BY <2>3, <3>6, <3>7 DEF MaxFits, max, t
    <2>6. QED
      BY <2>4, <2>5
  <1>6. QED
    BY <1>4, <1>5

LEMMA MinKeeps ==
  ASSUME NEW r, NEW s \in Seq(Event), NEW ev \in Event, NEW acc, MinFits(r, s, acc)
  PROVE  MinFits(r, Append(s, ev), Visit(r, acc, ev))
  <1> DEFINE t == Append(s, ev)
             n == Len(s) + 1
             f == FieldFloat(ev, r.field)
             N == Numeric(r, s)
             min == Visit(r, acc, ev).min
  <1>1. /\ Numeric(r, t) = N \cup (IF Match(r, ev) /\ f \notin {<<>>, NaN} THEN {n} ELSE {})
        /\ \A i \in N : Value(r, t, i) = Value(r, s, i)
        /\ Value(r, t, n) = f
        /\ \A i \in N : Value(r, s, i) \in Int \X {1}
    BY ChosenGrows, ChosenType
  <1>2. f \in {<<>>, NaN} \cup (Int \X {1})
    BY FieldType
  <1>3. /\ N = {} => acc.min = Inf
        /\ N # {} => /\ \E i \in N : acc.min = Value(r, s, i)
                     /\ \A i \in N : AtMost(acc.min, Value(r, s, i))
    BY DEF MinFits
  <1> HIDE DEF t, n, f, N
  <1>4. CASE ~Match(r, ev) \/ f \in {<<>>, NaN}
    <2>1. min = acc.min
      BY <1>4, FloatIs DEF Visit, f
    <2>2. Numeric(r, t) = N
      BY <1>1, <1>4
    <2> HIDE DEF min
    <2>3. MinFits(r, t, Visit(r, acc, ev))
      BY <1>1, <1>3, <2>1, <2>2 DEF MinFits, min
    <2>4. QED
      BY <2>3 DEF t
  <1>5. CASE Match(r, ev) /\ f \notin {<<>>, NaN}
    <2>1. PICK a \in Int : f = <<a, 1>>
      BY <1>2, <1>5
    <2>2. min = IF Less(f, acc.min) THEN f ELSE acc.min
      BY <1>5 DEF Visit, f
    <2> HIDE DEF min
    <2>3. Numeric(r, t) = N \cup {n}
      BY <1>1, <1>5
    <2>4. CASE N = {}
      <3>1. min = f
        BY <1>3, <2>1, <2>2, <2>4, FloatIs
      <3>2. AtMost(f, f)
        BY <2>1, FloatIs
      <3>3. Numeric(r, t) = {n} /\ Value(r, t, n) = f
        BY <1>1, <2>3, <2>4
      <3>4. QED
        BY <3>1, <3>2, <3>3 DEF MinFits, min, t
    <2>5. CASE N # {}
      <3>1. PICK j \in N : acc.min = Value(r, s, j)
        BY <1>3, <2>5
      <3>2. PICK b \in Int : acc.min = <<b, 1>>
        BY <1>1, <3>1
      <3>3. \A i \in N : \E c \in Int : Value(r, s, i) = <<c, 1>> /\ b <= c
        <4> SUFFICES ASSUME NEW i \in N PROVE \E c \in Int : Value(r, s, i) = <<c, 1>> /\ b <= c
          OBVIOUS
        <4>1. PICK c \in Int : Value(r, s, i) = <<c, 1>>
          BY <1>1
        <4>2. AtMost(<<b, 1>>, <<c, 1>>)
          BY <1>3, <2>5, <3>2, <4>1
        <4>3. QED
          BY <4>1, <4>2, FloatIs
      <3>4. min = IF a < b THEN <<a, 1>> ELSE <<b, 1>>
        BY <2>1, <2>2, <3>2, FloatIs
      <3>5. PICK d \in Int : min = <<d, 1>> /\ d <= a /\ d <= b /\ d \in {a, b}
        BY <3>4
      <3>6. \A i \in N \cup {n} : AtMost(min, Value(r, t, i))
        <4>1. AtMost(min, Value(r, t, n))
          <5>1. AtMost(<<d, 1>>, <<a, 1>>)
            BY <3>5, FloatIs
          <5>2. QED
            BY <1>1, <2>1, <3>5, <5>1
        <4>2. ASSUME NEW i \in N PROVE AtMost(min, Value(r, t, i))
          <5>1. PICK c \in Int : Value(r, s, i) = <<c, 1>> /\ b <= c
            BY <3>3
          <5>2. d <= c
            BY <3>5, <5>1
          <5>3. AtMost(<<d, 1>>, <<c, 1>>)
            BY <5>2, FloatIs
          <5>4. QED
            BY <1>1, <3>5, <5>1, <5>3
        <4>3. QED
          BY <4>1, <4>2
      <3>7. \E i \in N \cup {n} : min = Value(r, t, i)
        <4>1. CASE d = a
          BY <1>1, <2>1, <3>5, <4>1
        <4>2. CASE d = b
          BY <1>1, <3>1, <3>2, <3>5, <4>2
        <4>3. QED
          BY <3>5, <4>1, <4>2
      <3>8. QED
        BY <2>3, <3>6, <3>7 DEF MinFits, min, t
    <2>6. QED
      BY <2>4, <2>5
  <1>6. QED
    BY <1>4, <1>5

\* One round of the loop keeps what the accumulator is to the events.
LEMMA RoundFits ==
  ASSUME NEW r, NEW s \in Seq(Event), NEW ev \in Event, Fits(r, s, Loop(r, s))
  PROVE  Fits(r, Append(s, ev), Loop(r, Append(s, ev)))
  <1> DEFINE acc == Loop(r, s)
  <1>1. Loop(r, Append(s, ev)) = Visit(r, acc, ev)
    BY VisitedGrows
  <1>2. CountFits(r, s, acc) /\ SumFits(r, s, acc) /\ MaxFits(r, s, acc) /\ MinFits(r, s, acc)
    BY DEF Fits
  <1> HIDE DEF acc
  <1>3. Fits(r, Append(s, ev), Visit(r, acc, ev))
    BY <1>2, CountKeeps, SumKeeps, MaxKeeps, MinKeeps DEF Fits
  <1>4. QED
    BY <1>1, <1>3

\* So it is to the events of any batch.
LEMMA AlwaysFits ==
  ASSUME NEW r, NEW s \in Seq(Event)
  PROVE  Fits(r, s, Loop(r, s))
  <1> DEFINE Good == {k \in Nat : Fits(r, First(s, k), Loop(r, First(s, k)))}
             n    == Len(s)
  <1>1. n \in Nat /\ First(s, 0) = <<>> /\ First(s, n) = s
    BY FirstGrows
  <1>2. 0 \in Good
    BY <1>1, VisitedGrows, NothingFits
  <1>3. ASSUME NEW k \in 0..(n - 1), k \in Good PROVE k + 1 \in Good
    <2>1. /\ First(s, k) \in Seq(Event) /\ s[k + 1] \in Event
          /\ First(s, k + 1) = Append(First(s, k), s[k + 1])
      BY FirstGrows
    <2>2. Fits(r, First(s, k), Loop(r, First(s, k)))
      BY <1>3
    <2>3. Fits(r, First(s, k + 1), Loop(r, First(s, k + 1)))
      BY <2>1, <2>2, RoundFits
    <2>4. QED
      BY <2>3
  <1> HIDE DEF Good, n
  <1>4. \A k \in 0..n : k \in Good
    BY <1>1, <1>2, <1>3, UpFrom
  <1>5. n \in Good
    BY <1>1, <1>4
  <1>6. QED
    BY <1>1, <1>5 DEF Good

-----------------------------------------------------------------------------
(***************************************************************************)
(* The inductive invariant.                                                *)
(***************************************************************************)

\* What Aggregate and HAVING find in a rule.
RuleInv ==
  phase = "run" =>
    rule.value \in Float /\ rule.op \in Operators /\ rule.func \in NumericFuncs \cup {"count"}

\* The last batch, its value and whether it fired; of a window that the Manager has let go
\* of, they are those of a batch that is no longer there.
BatchInv ==
  /\ phase # "run" => batch = <<>>
  /\ batch # <<>> => result = Aggregate(rule, batch) /\ fired = Satisfied(rule, result)

\* The file is one of the files.
FileInv == phase = "load" => file \in Files \cup {None}

IInv == TypeOK /\ FileInv /\ RuleInv /\ BatchInv

-----------------------------------------------------------------------------
(***************************************************************************)
(* LoadConfig.                                                             *)
(***************************************************************************)

\* A rule that Aggregate and HAVING can work with.
Evaluable(r) ==
  r.value \in Float /\ r.op \in Operators /\ r.func \in NumericFuncs \cup {"count"}

LEMMA BuiltInEvaluable == Evaluable(ErrorSpike)
  BY AlertingAssumption DEF Evaluable, ErrorSpike, Operators

LEMMA AcceptedEvaluable ==
  ASSUME NEW f \in Files, NEW i \in DOMAIN f.rules, IsAccepted(f.rules[i])
  PROVE  Evaluable(ToRule(f.rules[i]))
  <1> DEFINE yr == f.rules[i]
             r  == ToRule(yr)
             op == CHOOSE o \in DOMAIN yr.having : TRUE
  <1>1. \A o \in DOMAIN yr.having : yr.having[o] \in Float
    BY AlertingAssumption
  <1>2. /\ yr.func = "count" \/ (yr.func \in NumericFuncs /\ yr.field # "")
        /\ Cardinality(DOMAIN yr.having) = 1 /\ DOMAIN yr.having \subseteq Operators
    BY DEF IsAccepted
  <1> HIDE DEF yr
  <1>3. op \in DOMAIN yr.having
    <2>1. Cardinality({}) = 0
      BY FS_EmptySet
    <2> DEFINE D == DOMAIN yr.having
    <2>2. Cardinality(D) = 1
      BY <1>2
    <2> HIDE DEF D
    <2>3. D # {}
      BY <2>1, <2>2
    <2>4. QED
      BY <2>3 DEF D
  <1> HIDE DEF op
  <1>4. r.func = yr.func /\ r.op = op /\ r.value = yr.having[op]
    BY DEF ToRule, op
  <1> HIDE DEF r
  <1>5. Evaluable(r)
    BY <1>1, <1>2, <1>3, <1>4 DEF Evaluable
  <1>6. QED
    BY <1>5 DEF r, yr

LEMMA SinksAre ==
  ASSUME NEW notify, \A i \in DOMAIN notify : IsSink(notify[i])
  PROVE  Sinks(notify) \subseteq {"console", "webhook"}
  BY DEF Sinks, IsSink

-----------------------------------------------------------------------------
(***************************************************************************)
(* Aggregate and HAVING.                                                   *)
(***************************************************************************)

LEMMA ResultType ==
  ASSUME NEW r, NEW s \in Seq(Event)
  PROVE  Aggregate(r, s) \in Int \X Nat
  <1> DEFINE acc == Loop(r, s)
             C == Chosen(r, s)
             N == Numeric(r, s)
  <1>1. /\ C \subseteq 1..Len(s) /\ N \subseteq C /\ Cardinality(C) \in Nat
        /\ \A i \in N : Value(r, s, i) \in Int \X {1}
    BY ChosenType
  <1>2. CountFits(r, s, acc) /\ SumFits(r, s, acc) /\ MaxFits(r, s, acc) /\ MinFits(r, s, acc)
    BY AlwaysFits DEF Fits
  <1> HIDE DEF acc, C, N
  <1>3. acc.sum \in Int \X Nat
    BY <1>2 DEF SumFits
  <1>4. acc.count \in Nat
    BY <1>1, <1>2 DEF CountFits, C
  <1>5. acc.max \in Int \X Nat
    <2>1. CASE N = {}
      <3>1. acc.max = <<-1, 0>>
        BY <1>2, <2>1 DEF MaxFits, N
      <3>2. QED
        BY <3>1
    <2>2. CASE N # {}
      <3>1. PICK i \in N : acc.max = Value(r, s, i)
        BY <1>2, <2>2 DEF MaxFits, N
      <3>2. acc.max \in Int \X {1}
        BY <1>1, <3>1
      <3>3. QED
        BY <3>2
    <2>3. QED
      BY <2>1, <2>2
  <1>6. acc.min \in Int \X Nat
    <2>1. CASE N = {}
      <3>1. acc.min = Inf
        BY <1>2, <2>1 DEF MinFits, N
      <3>2. QED
        BY <3>1 DEF Inf
    <2>2. CASE N # {}
      <3>1. PICK i \in N : acc.min = Value(r, s, i)
        BY <1>2, <2>2 DEF MinFits, N
      <3>2. acc.min \in Int \X {1}
        BY <1>1, <3>1
      <3>3. QED
        BY <3>2
    <2>3. QED
      BY <2>1, <2>2
  <1>7. <<acc.sum[1], acc.sum[2] * acc.count>> \in Int \X Nat
    BY <1>3, <1>4
  <1>8. <<acc.count, 1>> \in Int \X Nat /\ Zero \in Int \X Nat
    BY <1>4 DEF Zero
  <1>9. Aggregate(r, s) = CASE r.func = "sum" -> acc.sum
                            [] r.func = "max" /\ acc.count > 0 -> acc.max
                            [] r.func = "min" /\ acc.count > 0 -> acc.min
                            [] r.func = "avg" /\ acc.count > 0 ->
                                 <<acc.sum[1], acc.sum[2] * acc.count>>
                            [] r.func = "count" -> <<acc.count, 1>>
                            [] OTHER -> Zero
    BY DEF Aggregate, Loop, acc
  <1> DEFINE avg == <<acc.sum[1], acc.sum[2] * acc.count>>
             max == acc.max
             min == acc.min
             sum == acc.sum
  <1> HIDE DEF avg, max, min, sum
  <1>10. Aggregate(r, s) \in {sum, max, min, avg, <<acc.count, 1>>, Zero}
    BY <1>9 DEF avg, max, min, sum
  <1>11. QED
    BY <1>3, <1>5, <1>6, <1>7, <1>8, <1>10 DEF avg, max, min, sum

LEMMA SatisfiedType ==
  ASSUME NEW r, r.op \in Operators, NEW x
  PROVE  Satisfied(r, x) \in BOOLEAN
  <1>1. \A a, b : Less(a, b) \in BOOLEAN /\ AtMost(a, b) \in BOOLEAN
    BY DEF Less, AtMost
  <1>2. QED
    BY <1>1 DEF Satisfied, Operators

-----------------------------------------------------------------------------
(***************************************************************************)
(* Theorems.                                                               *)
(***************************************************************************)

LEMMA Initial == ASSUME Init PROVE IInv
  <1>1. rule = None /\ phase = "load" /\ sinks = {} /\ batch = <<>> /\ fired = FALSE
    BY DEF Init
  <1>2. batch \in Seq(Event) /\ Len(batch) <= MaxEvents
    BY <1>1, EmptySeq, AlertingAssumption
  <1>3. result \in Int \X Nat
    BY DEF Init, Zero
  <1>4. TypeOK
    BY <1>1, <1>2, <1>3 DEF TypeOK
  <1>5. FileInv /\ RuleInv /\ BatchInv
    BY <1>1 DEF Init, FileInv, RuleInv, BatchInv
  <1>6. QED
    BY <1>4, <1>5 DEF IInv

\* A rule that is taken into service, with no events yet.
LEMMA Begins ==
  ASSUME IInv, phase = "load", phase' = "run", rule' # None, Evaluable(rule'),
         sinks' \subseteq {"console", "webhook"}, UNCHANGED <<batch, result, fired>>
  PROVE  IInv'
  <1>1. batch' = <<>>
    BY DEF IInv, BatchInv
  <1>2. TypeOK'
    BY DEF IInv, TypeOK
  <1>3. RuleInv'
    BY DEF RuleInv, Evaluable
  <1>4. FileInv' /\ BatchInv'
    BY <1>1 DEF FileInv, BatchInv
  <1>5. QED
    BY <1>2, <1>3, <1>4 DEF IInv

LEMMA UseBuiltInKeeps == ASSUME IInv, UseBuiltIn PROVE IInv'
  <1>1. /\ phase = "load" /\ phase' = "run" /\ rule' = ErrorSpike /\ sinks' = Sinks(<<>>)
        /\ UNCHANGED <<batch, result, fired>>
    BY DEF UseBuiltIn
  <1>2. sinks' = {"console"}
    BY <1>1 DEF Sinks
  <1>3. rule' # None /\ Evaluable(rule')
    BY <1>1, BuiltInEvaluable, NoneIsNothing
  <1>4. QED
    BY <1>1, <1>2, <1>3, Begins

LEMMA AcceptKeeps == ASSUME IInv, Accept PROVE IInv'
  <1>1. /\ phase = "load" /\ phase' = "run" /\ sinks' = Sinks(file.notify) /\ IsLoadable(file)
        /\ UNCHANGED <<batch, result, fired>>
    BY DEF Accept
  <1>2. PICK i \in DOMAIN file.rules : rule' = ToRule(file.rules[i])
    BY DEF Accept
  <1>3. IsAccepted(file.rules[i]) /\ file \in Files
    BY <1>1 DEF IsLoadable, IInv, FileInv, Accept
  <1>4. rule' # None /\ Evaluable(rule')
    BY <1>2, <1>3, AcceptedEvaluable, NoneIsNothing
  <1>5. sinks' \subseteq {"console", "webhook"}
    BY <1>1, SinksAre DEF IsLoadable
  <1>6. QED
    BY <1>1, <1>4, <1>5, Begins

LEMMA RefuseKeeps == ASSUME IInv, Refuse PROVE IInv'
  <1>1. /\ phase = "load" /\ phase' = "refused"
        /\ UNCHANGED <<rule, sinks, batch, result, fired>>
    BY DEF Refuse
  <1>2. TypeOK'
    BY <1>1 DEF IInv, TypeOK
  <1>3. FileInv' /\ RuleInv'
    BY <1>1 DEF FileInv, RuleInv
  <1>4. BatchInv'
    BY <1>1 DEF IInv, BatchInv
  <1>5. QED
    BY <1>2, <1>3, <1>4 DEF IInv

LEMMA EvaluateKeeps ==
  ASSUME IInv, NEW n \in 0..(MaxEvents - Len(batch)), NEW more \in [1..n -> Event],
         Evaluate(more)
  PROVE  IInv'
  <1>1. /\ phase = "run" /\ batch' = batch \o more /\ batch' # <<>>
        /\ result' = Aggregate(rule, batch') /\ fired' = Satisfied(rule, result')
        /\ phase' = phase /\ rule' = rule /\ sinks' = sinks
    BY DEF Evaluate, config
  <1>2. batch \in Seq(Event) /\ rule.op \in Operators
    BY <1>1 DEF IInv, TypeOK, RuleInv
  <1>3. more \in Seq(Event) /\ Len(more) = n
    BY LenProperties, SeqDef
  <1>4. batch' \in Seq(Event) /\ Len(batch') <= MaxEvents
    <2>1. batch' \in Seq(Event) /\ Len(batch') = Len(batch) + n /\ Len(batch) \in Nat
      BY <1>1, <1>2, <1>3, FirstGrows
    <2>2. Len(batch') <= MaxEvents
      BY <2>1, AlertingAssumption
    <2>3. QED
      BY <2>1, <2>2
  <1>5. result' \in Int \X Nat
    BY <1>1, <1>4, ResultType
  <1>6. fired' \in BOOLEAN
    BY <1>1, <1>2, SatisfiedType
  <1>7. TypeOK'
    BY <1>1, <1>4, <1>5, <1>6 DEF IInv, TypeOK
  <1>8. FileInv' /\ RuleInv'
    BY <1>1 DEF IInv, FileInv, RuleInv
  <1>9. BatchInv'
    BY <1>1 DEF BatchInv
  <1>10. QED
    BY <1>7, <1>8, <1>9 DEF IInv

LEMMA LetGoKeeps == ASSUME IInv, LetGo PROVE IInv'
  <1>1. /\ phase = "run" /\ batch' = <<>>
        /\ phase' = phase /\ rule' = rule /\ sinks' = sinks
        /\ result' = result /\ fired' = fired
    BY DEF LetGo, config
  <1>2. batch' \in Seq(Event) /\ Len(batch') <= MaxEvents
    BY <1>1, EmptySeq, AlertingAssumption
  <1>3. TypeOK'
    BY <1>1, <1>2 DEF IInv, TypeOK
  <1>4. FileInv' /\ RuleInv' /\ BatchInv'
    BY <1>1 DEF IInv, FileInv, RuleInv, BatchInv
  <1>5. QED
    BY <1>3, <1>4 DEF IInv

LEMMA StepKeeps == ASSUME IInv, [Next]_vars PROVE IInv'
  <1>1. CASE UNCHANGED vars
    <2>1. /\ file' = file /\ phase' = phase /\ rule' = rule /\ sinks' = sinks
          /\ batch' = batch /\ result' = result /\ fired' = fired
      BY <1>1 DEF vars, config
    <2>2. TypeOK' /\ FileInv' /\ RuleInv' /\ BatchInv'
      BY <2>1 DEF IInv, TypeOK, FileInv, RuleInv, BatchInv
    <2>3. QED
      BY <2>2 DEF IInv
  <1>2. QED
    BY <1>1, UseBuiltInKeeps, AcceptKeeps, RefuseKeeps, EvaluateKeeps, LetGoKeeps DEF Next

\* A rule in service can be evaluated, and its last batch has been.
THEOREM Invariance == Spec => []IInv
  <1>1. IInv /\ [Next]_vars => IInv'
    BY StepKeeps
  <1>2. QED
    BY <1>1, Initial, PTL DEF Spec

\* The state stays of its type.
THEOREM TypeCorrect == Spec => []TypeOK
  <1>1. IInv => TypeOK
    BY DEF IInv
  <1>2. QED
    BY <1>1, Invariance, PTL

LEMMA ValueOfFits ==
  ASSUME IInv, phase = "run", batch # <<>>
  PROVE  ValueIsAggregate
  <1> DEFINE acc == Loop(rule, batch)
             C == Chosen(rule, batch)
             N == Numeric(rule, batch)
             total == SumFunction(Addends(rule, batch))
  <1>1. /\ CountFits(rule, batch, acc) /\ SumFits(rule, batch, acc)
        /\ MaxFits(rule, batch, acc) /\ MinFits(rule, batch, acc)
        /\ result = Aggregate(rule, batch)
        /\ rule.func \in NumericFuncs \cup {"count"} /\ batch \in Seq(Event)
    <2>1. /\ rule.func \in NumericFuncs \cup {"count"} /\ batch \in Seq(Event)
          /\ result = Aggregate(rule, batch)
      BY DEF IInv, RuleInv, BatchInv, TypeOK
    <2>2. Fits(rule, batch, acc)
      BY <2>1, AlwaysFits
    <2>3. QED
      BY <2>1, <2>2 DEF Fits
  <1>2. /\ N \subseteq C /\ Cardinality(C) \in Nat
        /\ C # {} <=> Cardinality(C) > 0
        /\ \A i \in N : Value(rule, batch, i) \in Int \X {1}
    BY <1>1, ChosenType
  <1>3. Matching = C /\ \A i : Number(i) = Value(rule, batch, i)
    BY DEF Matching, Number, Chosen, Value
  <1>4. Numbers = N
    BY <1>3 DEF Numbers, Numeric
  <1>5. Total = total
    BY <1>3, <1>4 DEF Total, Addends
  <1>6. result = CASE rule.func = "sum" -> acc.sum
                   [] rule.func = "max" /\ acc.count > 0 -> acc.max
                   [] rule.func = "min" /\ acc.count > 0 -> acc.min
                   [] rule.func = "avg" /\ acc.count > 0 ->
                        <<acc.sum[1], acc.sum[2] * acc.count>>
                   [] rule.func = "count" -> <<acc.count, 1>>
                   [] OTHER -> Zero
    BY <1>1 DEF Aggregate, Loop
  <1> HIDE DEF acc
  <1>7. acc.count = Cardinality(C)
    BY <1>1 DEF CountFits
  <1>8. /\ acc.sum \in Int \X Nat
        /\ (\A i \in C : Value(rule, batch, i) # NaN) => acc.sum = <<total, 1>>
    BY <1>1 DEF SumFits
  <1>9. N # {} => /\ \E i \in N : acc.max = Value(rule, batch, i)
                  /\ \A i \in N : AtMost(Value(rule, batch, i), acc.max)
    BY <1>1 DEF MaxFits
  <1>10. N # {} => /\ \E i \in N : acc.min = Value(rule, batch, i)
                   /\ \A i \in N : AtMost(acc.min, Value(rule, batch, i))
    BY <1>1 DEF MinFits
  <1>11. N # {} => C # {}
    BY <1>2
  <1> HIDE DEF C, N, total
  <1>12. CASE rule.func = "count"
    <2>1. result = <<Cardinality(Matching), 1>>
      BY <1>3, <1>6, <1>7, <1>12
    <2>2. QED
      BY <1>12, <2>1 DEF ValueIsAggregate
  <1>13. CASE rule.func = "sum"
    <2>1. (\A i \in Matching : Number(i) # NaN) => result = <<Total, 1>>
      BY <1>3, <1>5, <1>6, <1>8, <1>13
    <2>2. QED
      BY <1>13, <2>1 DEF ValueIsAggregate
  <1>14. CASE rule.func = "avg"
    <2>1. ASSUME Matching # {}, Numbers = Matching
          PROVE  result[1] * Cardinality(Matching) = Total * result[2]
      <3>1. \A i \in C : Value(rule, batch, i) # NaN
        BY <1>3, <2>1 DEF Numbers
      <3>2. acc.sum = <<total, 1>> /\ total \in Int
        <4>1. acc.sum = <<total, 1>>
          BY <1>8, <3>1
        <4>2. <<total, 1>>[1] = total
          OBVIOUS
        <4>3. QED
          BY <1>8, <4>1, <4>2
      <3>3. acc.count > 0
        BY <1>2, <1>3, <1>7, <2>1
      <3>4. result = <<acc.sum[1], acc.sum[2] * acc.count>>
        BY <1>6, <1>14, <3>3
      <3>5. result = <<total, 1 * acc.count>> /\ acc.count \in Nat
        BY <1>2, <1>7, <3>2, <3>4
      <3>6. result[1] = total /\ result[2] = acc.count
        BY <3>5
      <3>7. QED
        BY <1>3, <1>5, <1>7, <3>6
    <2>2. QED
      BY <1>14, <2>1 DEF ValueIsAggregate
  <1>15. CASE rule.func = "max"
    <2>1. Numbers # {} => /\ \E i \in Numbers : result = Number(i)
                          /\ \A i \in Numbers : AtMost(Number(i), result)
      <3> SUFFICES ASSUME N # {}
                   PROVE  /\ \E i \in N : result = Number(i)
                          /\ \A i \in N : AtMost(Number(i), result)
        BY <1>4
      <3>1. acc.count > 0
        BY <1>2, <1>7, <1>11
      <3>2. result = acc.max
        BY <1>6, <1>15, <3>1
      <3>3. QED
        BY <1>3, <1>9, <3>2
    <2>2. QED
      BY <1>15, <2>1 DEF ValueIsAggregate
  <1>16. CASE rule.func = "min"
    <2>1. Numbers # {} => /\ \E i \in Numbers : result = Number(i)
                          /\ \A i \in Numbers : AtMost(result, Number(i))
      <3> SUFFICES ASSUME N # {}
                   PROVE  /\ \E i \in N : result = Number(i)
                          /\ \A i \in N : AtMost(result, Number(i))
        BY <1>4
      <3>1. acc.count > 0
        BY <1>2, <1>7, <1>11
      <3>2. result = acc.min
        BY <1>6, <1>16, <3>1
      <3>3. QED
        BY <1>3, <1>10, <3>2
    <2>2. QED
      BY <1>16, <2>1 DEF ValueIsAggregate
  <1>17. QED
    BY <1>1, <1>12, <1>13, <1>14, <1>15, <1>16 DEF NumericFuncs

\* Aggregate computes the function the rule names, for batches of any length.
THEOREM ValueIsRight == Spec => []ValueIsAggregate
  <1>1. ~(phase = "run" /\ batch # <<>>) => ValueIsAggregate
    BY DEF ValueIsAggregate
  <1>2. IInv => ValueIsAggregate
    BY <1>1, ValueOfFits
  <1>3. QED
    BY <1>2, Invariance, PTL

-----------------------------------------------------------------------------
(***************************************************************************)
(* Corrections.                                                            *)
(***************************************************************************)

LEMMA Scale ==
  ASSUME NEW a \in Int, NEW b \in Int, a <= b, NEW k \in Nat
  PROVE  a * k \in Int /\ b * k \in Int /\ a * k <= b * k
  <1> DEFINE d == b - a
  <1>1. d \in Nat /\ b = a + d
    OBVIOUS
  <1> HIDE DEF d
  <1>2. d * k \in Nat /\ b * k = a * k + d * k
    BY <1>1
  <1>3. a * k \in Int
    OBVIOUS
  <1> DEFINE e == d * k
             l == a * k
             m == b * k
  <1>4. e \in Nat /\ l \in Int /\ m = l + e
    BY <1>2, <1>3
  <1> HIDE DEF e, l, m
  <1>5. m \in Int /\ l <= m
    BY <1>4
  <1>6. QED
    BY <1>3, <1>5 DEF l, m

\* What MAX and COUNT, and MIN, can be where they are not NaN.
Low  == {<<-1, 0>>} \cup (Int \X {1})
High == {Inf} \cup (Int \X {1})

\* Where a number and the infinities are to a threshold.
LEMMA FloatsCompare ==
  ASSUME NEW t \in Float
  PROVE  /\ t[1] \in Int /\ t[2] \in Nat
         /\ \A a \in Int : /\ Less(t, <<a, 1>>) <=> t # NaN /\ t[1] < a * t[2]
                           /\ Less(<<a, 1>>, t) <=> t # NaN /\ a * t[2] < t[1]
         /\ ~Less(t, <<-1, 0>>) /\ ~Less(Inf, t)
         /\ t # NaN /\ ~Less(<<-1, 0>>, t) => t = <<-1, 0>>
         /\ t # NaN /\ ~Less(t, Inf) => t = Inf
  <1>1. t \in Int \X Nat /\ (t[2] = 0 => t[1] \in {-1, 0, 1})
    BY DEF Float
  <1>2. t[1] \in Int /\ t[2] \in Nat /\ t = <<t[1], t[2]>>
    BY <1>1
  <1>3. ASSUME NEW a \in Int
        PROVE  /\ Less(t, <<a, 1>>) <=> t # NaN /\ t[1] < a * t[2]
               /\ Less(<<a, 1>>, t) <=> t # NaN /\ a * t[2] < t[1]
    <2>1. <<a, 1>> # NaN /\ <<a, 1>>[1] = a /\ <<a, 1>>[2] = 1
      BY DEF NaN
    <2>2. Less(t, <<a, 1>>) <=> t # NaN /\ t[1] * 1 < a * t[2]
      BY <2>1 DEF Less
    <2>3. Less(<<a, 1>>, t) <=> t # NaN /\ a * t[2] < t[1] * 1
      BY <2>1 DEF Less
    <2>4. t[1] * 1 = t[1]
      BY <1>2
    <2>5. QED
      BY <2>2, <2>3, <2>4
  <1> DEFINE low == <<-1, 0>>
  <1>4. /\ low[1] = -1 /\ low[2] = 0 /\ low # NaN
        /\ Inf[1] = 1 /\ Inf[2] = 0 /\ Inf # NaN
    BY DEF NaN, Inf
  <1> HIDE DEF low
  <1>5. /\ Less(t, low) => t[1] * 0 < (-1) * t[2] \/ (t[2] = 0 /\ t[1] < -1)
        /\ Less(Inf, t) => 1 * t[2] < t[1] * 0 \/ (t[2] = 0 /\ 1 < t[1])
        /\ ~Less(low, t) /\ t # NaN => ~((-1) * t[2] < t[1] * 0) /\ ~(t[2] = 0 /\ -1 < t[1])
        /\ ~Less(t, Inf) /\ t # NaN => ~(t[1] * 0 < 1 * t[2]) /\ ~(t[2] = 0 /\ t[1] < 1)
    <2> DEFINE Smaller(x, y) ==
                 x[1] * y[2] < y[1] * x[2] \/ (x[2] = 0 /\ y[2] = 0 /\ x[1] < y[1])
    <2>1. /\ Less(t, low) => Smaller(t, low)
          /\ Less(Inf, t) => Smaller(Inf, t)
          /\ ~Less(low, t) /\ t # NaN => ~Smaller(low, t)
          /\ ~Less(t, Inf) /\ t # NaN => ~Smaller(t, Inf)
      BY <1>4 DEF Less
    <2>2. /\ Smaller(t, low) <=> t[1] * 0 < (-1) * t[2] \/ (t[2] = 0 /\ t[1] < -1)
          /\ Smaller(low, t) <=> (-1) * t[2] < t[1] * 0 \/ (t[2] = 0 /\ -1 < t[1])
      BY <1>4
    <2>3. /\ Smaller(Inf, t) <=> 1 * t[2] < t[1] * 0 \/ (t[2] = 0 /\ 1 < t[1])
          /\ Smaller(t, Inf) <=> t[1] * 0 < 1 * t[2] \/ (t[2] = 0 /\ t[1] < 1)
      BY <1>4
    <2> HIDE DEF Smaller
    <2>4. QED
      BY <2>1, <2>2, <2>3
  <1>6. t[1] * 0 = 0 /\ 1 * t[2] = t[2] /\ (-1) * t[2] = -t[2]
    BY <1>2
  <1>7. ~Less(t, low) /\ ~Less(Inf, t)
    BY <1>1, <1>2, <1>5, <1>6
  <1>8. ASSUME t # NaN, ~Less(low, t) PROVE t = <<-1, 0>>
    <2>1. t[2] = 0 /\ t[1] = -1
      BY <1>1, <1>2, <1>5, <1>6, <1>8
    <2>2. QED
      BY <1>2, <2>1
  <1>9. ASSUME t # NaN, ~Less(t, Inf) PROVE t = Inf
    <2>1. t[2] = 0 /\ t[1] = 1
      BY <1>1, <1>2, <1>5, <1>6, <1>9
    <2>2. QED
      BY <1>2, <2>1 DEF Inf
  <1>10. QED
    BY <1>2, <1>3, <1>7, <1>8, <1>9 DEF low

\* A value that moves away from the threshold stays on its side.
LEMMA StaysAbove ==
  ASSUME NEW t \in Float, NEW x \in Low, NEW b \in Int, Less(x, <<b, 1>>)
  PROVE  /\ Less(t, x) => Less(t, <<b, 1>>)
         /\ AtMost(t, x) => AtMost(t, <<b, 1>>)
  <1>1. /\ t[1] \in Int /\ t[2] \in Nat
        /\ \A a \in Int : /\ Less(t, <<a, 1>>) <=> t # NaN /\ t[1] < a * t[2]
                          /\ Less(<<a, 1>>, t) <=> t # NaN /\ a * t[2] < t[1]
        /\ ~Less(t, <<-1, 0>>)
        /\ t # NaN /\ ~Less(<<-1, 0>>, t) => t = <<-1, 0>>
    BY FloatsCompare
  <1>2. AtMost(t, <<b, 1>>) <=> t # NaN /\ ~Less(<<b, 1>>, t)
    BY FloatIs DEF AtMost
  <1>3. AtMost(t, x) => t # NaN /\ ~Less(x, t)
    BY DEF AtMost
  <1>4. CASE x = <<-1, 0>>
    <2>1. ~Less(t, x)
      BY <1>1, <1>4
    <2>2. ASSUME AtMost(t, x) PROVE AtMost(t, <<b, 1>>)
      <3>1. t # NaN /\ t = <<-1, 0>>
        BY <1>1, <1>3, <1>4, <2>2
      <3>2. t[1] = -1 /\ t[2] = 0 /\ b * 0 = 0
        BY <3>1
      <3>3. ~Less(<<b, 1>>, t)
        BY <1>1, <3>2
      <3>4. QED
        BY <1>2, <3>1, <3>3
    <2>3. QED
      BY <2>1, <2>2
  <1>5. CASE x \in Int \X {1}
    <2>1. PICK a \in Int : x = <<a, 1>>
      BY <1>5
    <2>2. a <= b
      BY <2>1, FloatIs
    <2>3. /\ a * t[2] \in Int /\ b * t[2] \in Int /\ a * t[2] <= b * t[2]
      BY <1>1, <2>2, Scale
    <2> DEFINE l == a * t[2]
               m == b * t[2]
    <2>4. /\ Less(t, x) <=> t # NaN /\ t[1] < l
          /\ Less(t, <<b, 1>>) <=> t # NaN /\ t[1] < m
          /\ Less(x, t) <=> t # NaN /\ l < t[1]
          /\ Less(<<b, 1>>, t) <=> t # NaN /\ m < t[1]
      BY <1>1, <2>1
    <2>5. l \in Int /\ m \in Int /\ l <= m
      BY <2>3
    <2> HIDE DEF l, m
    <2>6. QED
      BY <1>1, <1>2, <1>3, <2>4, <2>5
  <1>6. QED
    BY <1>4, <1>5 DEF Low

LEMMA StaysBelow ==
  ASSUME NEW t \in Float, NEW x \in High, NEW b \in Int, Less(<<b, 1>>, x)
  PROVE  /\ Less(x, t) => Less(<<b, 1>>, t)
         /\ AtMost(x, t) => AtMost(<<b, 1>>, t)
  <1>1. /\ t[1] \in Int /\ t[2] \in Nat
        /\ \A a \in Int : /\ Less(t, <<a, 1>>) <=> t # NaN /\ t[1] < a * t[2]
                          /\ Less(<<a, 1>>, t) <=> t # NaN /\ a * t[2] < t[1]
        /\ ~Less(Inf, t)
        /\ t # NaN /\ ~Less(t, Inf) => t = Inf
    BY FloatsCompare
  <1>2. AtMost(<<b, 1>>, t) <=> t # NaN /\ ~Less(t, <<b, 1>>)
    BY FloatIs DEF AtMost
  <1>3. AtMost(x, t) => t # NaN /\ ~Less(t, x)
    BY DEF AtMost
  <1>4. CASE x = Inf
    <2>1. ~Less(x, t)
      BY <1>1, <1>4
    <2>2. ASSUME AtMost(x, t) PROVE AtMost(<<b, 1>>, t)
      <3>1. t # NaN /\ t = Inf
        BY <1>1, <1>3, <1>4, <2>2
      <3>2. t[1] = 1 /\ t[2] = 0 /\ b * 0 = 0
        BY <3>1 DEF Inf
      <3>3. ~Less(t, <<b, 1>>)
        BY <1>1, <3>2
      <3>4. QED
        BY <1>2, <3>1, <3>3
    <2>3. QED
      BY <2>1, <2>2
  <1>5. CASE x \in Int \X {1}
    <2>1. PICK a \in Int : x = <<a, 1>>
      BY <1>5
    <2>2. b <= a
      BY <2>1, FloatIs
    <2>3. /\ a * t[2] \in Int /\ b * t[2] \in Int /\ b * t[2] <= a * t[2]
      BY <1>1, <2>2, Scale
    <2> DEFINE l == a * t[2]
               m == b * t[2]
    <2>4. /\ Less(t, x) <=> t # NaN /\ t[1] < l
          /\ Less(t, <<b, 1>>) <=> t # NaN /\ t[1] < m
          /\ Less(x, t) <=> t # NaN /\ l < t[1]
          /\ Less(<<b, 1>>, t) <=> t # NaN /\ m < t[1]
      BY <1>1, <2>1
    <2>5. l \in Int /\ m \in Int /\ m <= l
      BY <2>3
    <2> HIDE DEF l, m
    <2>6. QED
      BY <1>1, <1>2, <1>3, <2>4, <2>5
  <1>6. QED
    BY <1>4, <1>5 DEF High

\* y is x or a number above it, below it.
Rises(x, y) == x \in Low /\ (y = x \/ \E b \in Int : y = <<b, 1>> /\ Less(x, y))
Falls(x, y) == x \in High /\ (y = x \/ \E b \in Int : y = <<b, 1>> /\ Less(y, x))

LEMMA StaysSatisfied ==
  ASSUME NEW r, r.value \in Float, NEW x, NEW y, Satisfied(r, x)
  PROVE  /\ r.op \in {"gt", "gte"} /\ Rises(x, y) => Satisfied(r, y)
         /\ r.op \in {"lt", "lte"} /\ Falls(x, y) => Satisfied(r, y)
  <1>1. ASSUME r.op \in {"gt", "gte"}, Rises(x, y), y # x PROVE Satisfied(r, y)
    <2>1. PICK b \in Int : y = <<b, 1>> /\ Less(x, <<b, 1>>)
      BY <1>1 DEF Rises
    <2>2. /\ Less(r.value, x) => Less(r.value, y)
          /\ AtMost(r.value, x) => AtMost(r.value, y)
      BY <1>1, <2>1, StaysAbove DEF Rises
    <2>3. CASE r.op = "gt"
      BY <2>2, <2>3 DEF Satisfied
    <2>4. CASE r.op = "gte"
      BY <2>2, <2>4 DEF Satisfied
    <2>5. QED
      BY <1>1, <2>3, <2>4
  <1>2. ASSUME r.op \in {"lt", "lte"}, Falls(x, y), y # x PROVE Satisfied(r, y)
    <2>1. PICK b \in Int : y = <<b, 1>> /\ Less(<<b, 1>>, x)
      BY <1>2 DEF Falls
    <2>2. /\ Less(x, r.value) => Less(y, r.value)
          /\ AtMost(x, r.value) => AtMost(y, r.value)
      BY <1>2, <2>1, StaysBelow DEF Falls
    <2>3. CASE r.op = "lt"
      BY <2>2, <2>3 DEF Satisfied
    <2>4. CASE r.op = "lte"
      BY <2>2, <2>4 DEF Satisfied
    <2>5. QED
      BY <1>2, <2>3, <2>4
  <1>3. QED
    BY <1>1, <1>2

\* One more event can only add to COUNT, raise MAX and lower MIN.
LEMMA RoundMoves ==
  ASSUME NEW r, NEW s \in Seq(Event), NEW ev \in Event
  PROVE  LET x == Loop(r, s)
             y == Loop(r, Append(s, ev)) IN
         /\ x.count \in Nat /\ y.count \in {x.count, x.count + 1}
         /\ Rises(x.max, y.max) /\ Falls(x.min, y.min)
  <1> DEFINE x == Loop(r, s)
             y == Loop(r, Append(s, ev))
             f == FieldFloat(ev, r.field)
             N == Numeric(r, s)
  <1>1. y = Visit(r, x, ev)
    BY VisitedGrows
  <1>2. f \in {<<>>, NaN} \cup (Int \X {1})
    BY FieldType
  <1>3. Cardinality(Chosen(r, s)) \in Nat /\ \A i \in N : Value(r, s, i) \in Int \X {1}
    BY ChosenType
  <1>4. CountFits(r, s, x) /\ MaxFits(r, s, x) /\ MinFits(r, s, x)
    BY AlwaysFits DEF Fits
  <1> HIDE DEF x, y, f, N
  <1>5. x.count \in Nat
    BY <1>3, <1>4 DEF CountFits
  <1>6. x.max \in Low
    <2>1. CASE N = {}
      BY <1>4, <2>1 DEF MaxFits, Low, N
    <2>2. CASE N # {}
      <3>1. PICK i \in N : x.max = Value(r, s, i)
        BY <1>4, <2>2 DEF MaxFits, N
      <3>2. QED
        BY <1>3, <3>1 DEF Low
    <2>3. QED
      BY <2>1, <2>2
  <1>7. x.min \in High
    <2>1. CASE N = {}
      BY <1>4, <2>1 DEF MinFits, High, N
    <2>2. CASE N # {}
      <3>1. PICK i \in N : x.min = Value(r, s, i)
        BY <1>4, <2>2 DEF MinFits, N
      <3>2. QED
        BY <1>3, <3>1 DEF High
    <2>3. QED
      BY <2>1, <2>2
  <1>8. y.count \in {x.count, x.count + 1}
    BY <1>1 DEF Visit
  <1>9. ASSUME f # <<>>, f # NaN PROVE \E b \in Int : f = <<b, 1>>
    BY <1>2, <1>9
  <1>10. Rises(x.max, y.max)
    <2>1. y.max = x.max \/ (y.max = f /\ f # <<>> /\ Less(x.max, f))
      BY <1>1 DEF Visit, f
    <2>2. Less(x.max, f) => f # NaN
      BY FloatIs
    <2>3. QED
      BY <1>6, <1>9, <2>1, <2>2 DEF Rises
  <1>11. Falls(x.min, y.min)
    <2>1. y.min = x.min \/ (y.min = f /\ f # <<>> /\ Less(f, x.min))
      BY <1>1 DEF Visit, f
    <2>2. Less(f, x.min) => f # NaN
      BY FloatIs
    <2>3. QED
      BY <1>7, <1>9, <2>1, <2>2 DEF Falls
  <1>12. QED
    BY <1>5, <1>8, <1>10, <1>11 DEF x, y

\* More events can only move the value away from the threshold.
OneWay(r) ==
  \/ r.func \in {"count", "max"} /\ r.op \in {"gt", "gte"}
  \/ r.func = "min" /\ r.op \in {"lt", "lte"}

\* A batch that some event matches, and that fires.
Fires(r, s) == Chosen(r, s) # {} /\ Satisfied(r, Aggregate(r, s))

LEMMA RoundKeeps ==
  ASSUME NEW r, r.value \in Float, OneWay(r),
         NEW s \in Seq(Event), Fires(r, s), NEW ev \in Event
  PROVE  Fires(r, Append(s, ev))
  <1> DEFINE t == Append(s, ev)
             x == Loop(r, s)
             y == Loop(r, t)
             v == Aggregate(r, s)
             w == Aggregate(r, t)
  <1>1. /\ x.count \in Nat /\ y.count \in {x.count, x.count + 1}
        /\ Rises(x.max, y.max) /\ Falls(x.min, y.min)
    BY RoundMoves
  <1>2. x.count > 0 /\ y.count > 0
    <2>1. Cardinality(Chosen(r, s)) > 0
      BY ChosenType DEF Fires
    <2>2. x.count = Cardinality(Chosen(r, s))
      BY AlwaysFits DEF Fits, CountFits
    <2> HIDE DEF x, y
    <2>3. QED
      BY <1>1, <2>1, <2>2
  <1>3. /\ r.func = "max" => v = x.max /\ w = y.max
        /\ r.func = "min" => v = x.min /\ w = y.min
        /\ r.func = "count" => v = <<x.count, 1>> /\ w = <<y.count, 1>>
    <2>1. /\ r.func = "max" => v = x.max
          /\ r.func = "min" => v = x.min
          /\ r.func = "count" => v = <<x.count, 1>>
      BY <1>2 DEF Aggregate, Loop
    <2>2. /\ r.func = "max" => w = y.max
          /\ r.func = "min" => w = y.min
          /\ r.func = "count" => w = <<y.count, 1>>
      BY <1>2 DEF Aggregate, Loop
    <2>3. QED
      BY <2>1, <2>2
  <1>4. Chosen(r, t) # {}
    BY ChosenGrows DEF Fires
  <1>5. Satisfied(r, v)
    BY DEF Fires
  <1> HIDE DEF t, x, y, v, w
  <1>6. Rises(<<x.count, 1>>, <<y.count, 1>>)
    <2>1. y.count = x.count \/ Less(<<x.count, 1>>, <<y.count, 1>>)
      BY <1>1, FloatIs
    <2>2. <<x.count, 1>> \in Low /\ y.count \in Int
      BY <1>1 DEF Low
    <2>3. QED
      BY <2>1, <2>2 DEF Rises
  <1>7. CASE r.func \in {"count", "max"} /\ r.op \in {"gt", "gte"}
    <2>1. Rises(v, w)
      BY <1>1, <1>3, <1>6, <1>7
    <2>2. Satisfied(r, w)
      BY <1>5, <1>7, <2>1, StaysSatisfied
    <2>3. QED
      BY <1>4, <2>2 DEF Fires, t, w
  <1>8. CASE r.func = "min" /\ r.op \in {"lt", "lte"}
    <2>1. Falls(v, w)
      BY <1>1, <1>3, <1>8
    <2>2. Satisfied(r, w)
      BY <1>5, <1>8, <2>1, StaysSatisfied
    <2>3. QED
      BY <1>4, <2>2 DEF Fires, t, w
  <1>9. QED
    BY <1>7, <1>8 DEF OneWay

\* However many events have arrived since.
LEMMA MoreKeep ==
  ASSUME NEW r, r.value \in Float, OneWay(r),
         NEW s \in Seq(Event), Fires(r, s), NEW more \in Seq(Event)
  PROVE  Fires(r, s \o more)
  <1> DEFINE t == s \o more
             m == Len(s)
             n == Len(t)
             Good == {k \in Nat : Fires(r, First(t, k))}
  <1>1. t \in Seq(Event) /\ n = m + Len(more) /\ First(t, m) = s
    BY FirstGrows
  <1>2. m \in Nat /\ n \in Nat /\ Len(more) \in Nat
    BY <1>1, LenProperties
  <1>3. First(t, n) = t
    BY <1>1, FirstGrows
  <1>4. m \in Good
    BY <1>1, <1>2
  <1> HIDE DEF t
  <1>5. ASSUME NEW k \in m..(n - 1), k \in Good PROVE k + 1 \in Good
    <2>1. k \in 0..(n - 1)
      BY <1>2
    <2>2. /\ First(t, k) \in Seq(Event) /\ t[k + 1] \in Event
          /\ First(t, k + 1) = Append(First(t, k), t[k + 1])
      BY <1>1, <2>1, FirstGrows
    <2>3. Fires(r, First(t, k + 1))
      BY <1>5, <2>2, RoundKeeps
    <2>4. QED
      BY <2>1, <2>3
  <1> HIDE DEF Good, m, n
  <1>6. \A k \in m..n : k \in Good
    BY <1>2, <1>4, <1>5, UpFrom
  <1>7. n \in Good
    BY <1>1, <1>2, <1>6
  <1>8. QED
    BY <1>3, <1>7 DEF Good, t

\* What CorrectionsRealert asks of a step.
KeepsAlert ==
  /\ phase = "run" /\ fired /\ Matching # {}
  /\ \/ rule.func \in {"count", "max"} /\ rule.op \in {"gt", "gte"}
     \/ rule.func = "min" /\ rule.op \in {"lt", "lte"}
  => fired'

LEMMA CorrectionKeeps ==
  ASSUME IInv, NEW n \in 0..(MaxEvents - Len(batch)), NEW more \in [1..n -> Event],
         Evaluate(more)
  PROVE  KeepsAlert
  <1> SUFFICES ASSUME fired, Matching # {}, OneWay(rule)
               PROVE  fired'
    BY DEF KeepsAlert, OneWay
  <1>1. /\ phase = "run" /\ result' = Aggregate(rule, batch \o more)
        /\ fired' = Satisfied(rule, result')
    BY DEF Evaluate
  <1>2. batch \in Seq(Event) /\ more \in Seq(Event) /\ rule.value \in Float
    BY <1>1, SeqDef DEF IInv, TypeOK, RuleInv
  <1>3. Matching = Chosen(rule, batch)
    BY DEF Matching, Chosen
  <1>4. batch # <<>>
    BY DEF Matching
  <1>5. Fires(rule, batch)
    BY <1>3, <1>4 DEF IInv, BatchInv, Fires
  <1>6. Fires(rule, batch \o more)
    BY <1>2, <1>5, MoreKeep
  <1>7. QED
    BY <1>1, <1>6 DEF Fires

\* As long as the Manager holds a window, no correction of it takes back an alert of COUNT or
\* MAX above a threshold, or of MIN below one, however many events it adds.
THEOREM CorrectionsKeepAlert == Spec => CorrectionsRealert
  <1>1. IInv /\ [Next]_vars => [KeepsAlert]_vars
    <2> SUFFICES ASSUME IInv, Next PROVE KeepsAlert \/ UNCHANGED vars
      OBVIOUS
    <2>1. CASE UseBuiltIn \/ Accept \/ Refuse \/ LetGo
      BY <2>1 DEF KeepsAlert, UseBuiltIn, Accept, Refuse, LetGo
    <2>2. ASSUME NEW n \in 0..(MaxEvents - Len(batch)), NEW more \in [1..n -> Event],
                 Evaluate(more)
          PROVE  KeepsAlert
      BY <2>2, CorrectionKeeps
    <2>3. QED
      BY <2>1, <2>2 DEF Next
  <1>2. Spec => [][KeepsAlert]_vars
    BY <1>1, Invariance, PTL DEF Spec
  <1>3. QED
    BY <1>2 DEF CorrectionsRealert, KeepsAlert

=============================================================================
