-------------------------- MODULE OpQueueTheorems --------------------------
(***************************************************************************)
(* What joining two queues, popping a front element and taking operations  *)
(* out of the middle do to membership and to uniqueness, for queues over   *)
(* any set of operations.                                                  *)
(*                                                                         *)
(* A queue that a loop rebuilds is a recursive function.  What holds of it *)
(* is proved by induction, stated here as a fact about sets of numbers:    *)
(* it rests on the finite sets being well-founded under strict inclusion.  *)
(***************************************************************************)
EXTENDS OpQueue, FiniteSets, SequenceTheorems, FiniteSetTheorems, WellFoundedInduction, TLAPS

\* A set that holds 0 and with every number the next one holds them all.
LEMMA SetInduction ==
  ASSUME NEW S, 0 \in S, \A n \in Nat : n \in S => n + 1 \in S
  PROVE  Nat \subseteq S
<1> SUFFICES ASSUME NEW N \in Nat, N \notin S
             PROVE  FALSE
  OBVIOUS
<1> DEFINE T == {0 .. n : n \in {k \in 0 .. N : k \notin S}}
<1>1. IsWellFoundedOn(StrictSubsetOrdering(0 .. N), SUBSET (0 .. N))
  <2>1. IsFiniteSet(0 .. N)
    BY FS_Interval
  <2> QED
    BY <2>1, FS_StrictSubsetOrderingWellFounded, FS_FiniteSubsetsOfFinite
<1>2. T \subseteq SUBSET (0 .. N) /\ T # {}
  OBVIOUS
<1>3. PICK X \in T : \A Y \in T : <<Y, X>> \notin StrictSubsetOrdering(0 .. N)
  <2> HIDE DEF T
  <2> QED
    BY <1>1, <1>2, WFMin
<1>4. PICK k \in 0 .. N : k \notin S /\ X = 0 .. k
  OBVIOUS
<1>5. k # 0 /\ k - 1 \in 0 .. N /\ k - 1 \notin S
  BY <1>4
<1>6. 0 .. (k - 1) \in T
  BY <1>5
<1>7. <<0 .. (k - 1), X>> \in StrictSubsetOrdering(0 .. N)
  <2>1. k \in X /\ k \notin 0 .. (k - 1) /\ 0 .. (k - 1) \subseteq X /\ X \subseteq 0 .. N
    BY <1>4
  <2> QED
    BY <2>1, <1>2, <1>6 DEF StrictSubsetOrdering
<1> HIDE DEF T
<1> QED
  BY <1>3, <1>6, <1>7

\* A queue over a set is a queue over every larger set.
LEMMA SeqSubset == ASSUME NEW S, NEW T, T \subseteq S, NEW r \in Seq(T) PROVE r \in Seq(S)
OBVIOUS

\* push(q) of a queue over a smaller set keeps the type of the target.
LEMMA ConcatType == ASSUME NEW S, NEW T, T \subseteq S, NEW q \in Seq(S), NEW r \in Seq(T)
  PROVE q \o r \in Seq(S)
BY SeqSubset, ConcatProperties

\* push(q): the joined queue holds exactly the operations of both.
LEMMA ConcatHas == ASSUME NEW S, NEW q \in Seq(S), NEW r \in Seq(S), NEW x
  PROVE Has(q \o r, x) <=> Has(q, x) \/ Has(r, x)
<1>1. \A i \in 1 .. Len(q) : (q \o r)[i] = q[i]
  OBVIOUS
<1>2. \A i \in 1 .. Len(r) : (q \o r)[Len(q) + i] = r[i] /\ Len(q) + i \in 1 .. Len(q \o r)
  OBVIOUS
<1>3. \A i \in 1 .. Len(q \o r) : i \notin 1 .. Len(q) =>
         i - Len(q) \in 1 .. Len(r) /\ (q \o r)[i] = r[i - Len(q)]
  OBVIOUS
<1>4. \A i \in 1 .. Len(q) : i \in 1 .. Len(q \o r)
  OBVIOUS
<1>5. Has(q, x) => Has(q \o r, x)
  BY <1>1, <1>4 DEF Has
<1>6. Has(r, x) => Has(q \o r, x)
  BY <1>2 DEF Has
<1>7. Has(q \o r, x) => Has(q, x) \/ Has(r, x)
  BY <1>1, <1>3 DEF Has
<1> QED BY <1>5, <1>6, <1>7

\* push(q) keeps an operation unique when the source does not hold it.
LEMMA ConcatOnce == ASSUME NEW S, NEW q \in Seq(S), NEW r \in Seq(S), NEW x,
    AtMostOnce(q, x), ~Has(r, x)
  PROVE AtMostOnce(q \o r, x)
<1>1. \A i \in 1 .. Len(q) : (q \o r)[i] = q[i]
  OBVIOUS
<1>3. \A i \in 1 .. Len(q \o r) : i \notin 1 .. Len(q) =>
         i - Len(q) \in 1 .. Len(r) /\ (q \o r)[i] = r[i - Len(q)]
  OBVIOUS
<1> QED BY <1>1, <1>3 DEF Has, AtMostOnce

\* push(q) of a queue that shares no operation with the target.
LEMMA JoinOnce == ASSUME NEW S, NEW q \in Seq(S), NEW r \in Seq(S), NEW x,
    AtMostOnce(q, x), AtMostOnce(r, x), ~(Has(q, x) /\ Has(r, x))
  PROVE AtMostOnce(q \o r, x)
<1>1. \A i \in 1 .. Len(q) : (q \o r)[i] = q[i]
  OBVIOUS
<1>2. \A i \in 1 .. Len(q \o r) : i \notin 1 .. Len(q) =>
         i - Len(q) \in 1 .. Len(r) /\ (q \o r)[i] = r[i - Len(q)]
  OBVIOUS
<1>3. CASE ~Has(q, x)
  BY <1>1, <1>2, <1>3 DEF Has, AtMostOnce
<1>4. CASE ~Has(r, x)
  BY <1>4, ConcatOnce
<1> QED BY <1>3, <1>4

\* The two parts of a joined queue.
LEMMA PartsOnce == ASSUME NEW S, NEW q \in Seq(S), NEW r \in Seq(S), NEW x, AtMostOnce(q \o r, x)
  PROVE AtMostOnce(q, x) /\ AtMostOnce(r, x) /\ ~(Has(q, x) /\ Has(r, x))
<1>1. Len(q) \in Nat /\ Len(r) \in Nat /\ Len(q \o r) = Len(q) + Len(r)
  OBVIOUS
<1>2. \A i \in 1 .. Len(q) : i \in 1 .. Len(q \o r) /\ (q \o r)[i] = q[i]
  OBVIOUS
<1>3. \A i \in 1 .. Len(r) : i + Len(q) \in 1 .. Len(q \o r) /\ (q \o r)[i + Len(q)] = r[i]
  OBVIOUS
<1>4. AtMostOnce(q, x)
  BY <1>1, <1>2 DEF AtMostOnce
<1>5. AtMostOnce(r, x)
  <2> SUFFICES ASSUME NEW i \in 1 .. Len(r), NEW j \in 1 .. Len(r), r[i] = x, r[j] = x PROVE i = j
    BY DEF AtMostOnce
  <2>1. i + Len(q) = j + Len(q)
    BY <1>3 DEF AtMostOnce
  <2> QED BY <1>1, <2>1
<1>6. ASSUME NEW i \in 1 .. Len(q), q[i] = x, NEW j \in 1 .. Len(r), r[j] = x PROVE FALSE
  <2>1. i = j + Len(q)
    BY <1>2, <1>3, <1>6 DEF AtMostOnce
  <2> QED BY <1>1, <2>1
<1> QED BY <1>4, <1>5, <1>6 DEF Has

\* A list cut after its n-th element.
LEMMA CutInTwo == ASSUME NEW S, NEW q \in Seq(S), NEW n \in 0 .. Len(q)
  PROVE /\ SubSeq(q, 1, n) \in Seq(S) /\ SubSeq(q, n + 1, Len(q)) \in Seq(S)
        /\ SubSeq(q, 1, n) \o SubSeq(q, n + 1, Len(q)) = q
        /\ Len(SubSeq(q, 1, n)) = n /\ Len(SubSeq(q, n + 1, Len(q))) = Len(q) - n
        /\ \A i \in 1 .. n : SubSeq(q, 1, n)[i] = q[i]
<1>0. Len(q) \in Nat /\ n \in Nat /\ n <= Len(q)
  OBVIOUS
<1>1. PICK u : u = SubSeq(q, 1, n)
  OBVIOUS
<1>2. PICK v : v = SubSeq(q, n + 1, Len(q))
  OBVIOUS
<1>3. u \in Seq(S) /\ Len(u) = n /\ \A i \in 1 .. n : u[i] = q[i]
  BY <1>0, <1>1
<1>4. v \in Seq(S)
  BY <1>0, <1>2
<1>5. Len(v) = Len(q) - n /\ \A i \in 1 .. Len(q) - n : v[i] = q[i + n]
  BY <1>0, <1>2
<1>6. /\ u \o v \in Seq(S) /\ Len(u \o v) = Len(u) + Len(v)
      /\ \A i \in 1 .. Len(u) + Len(v) : (u \o v)[i] = IF i <= Len(u) THEN u[i] ELSE v[i - Len(u)]
  BY <1>3, <1>4, ConcatProperties
<1>7. ASSUME NEW i \in 1 .. Len(q) PROVE (u \o v)[i] = q[i]
  <2>1. CASE i <= n
    <3>1. i \in 1 .. n /\ i \in 1 .. Len(u) + Len(v)
      BY <1>0, <1>3, <1>5, <2>1
    <3> QED BY <1>3, <1>6, <2>1, <3>1
  <2>2. CASE ~(i <= n)
    <3>1. PICK j : j = i - n
      OBVIOUS
    <3>2. j \in 1 .. Len(q) - n /\ i \in 1 .. Len(u) + Len(v) /\ j + n = i
      BY <1>0, <1>3, <1>5, <2>2, <3>1
    <3>3. (u \o v)[i] = v[j]
      BY <1>3, <1>6, <2>2, <3>1, <3>2
    <3> QED BY <1>5, <3>2, <3>3
  <2> QED BY <2>1, <2>2
<1>8. u \o v = q
  <2>1. PICK w : w = u \o v
    OBVIOUS
  <2>2. w \in Seq(S) /\ Len(w) = Len(q) /\ \A i \in 1 .. Len(q) : w[i] = q[i]
    <3>1. w \in Seq(S) /\ Len(w) = Len(u) + Len(v)
      BY <1>6, <2>1
    <3>2. Len(u) + Len(v) = Len(q)
      BY <1>0, <1>3, <1>5
    <3>3. \A i \in 1 .. Len(q) : w[i] = q[i]
      BY <1>7, <2>1
    <3> QED BY <3>1, <3>2, <3>3
  <2>3. w = q
    BY <2>2, SeqEqual
  <2> QED BY <2>1, <2>3
<1> QED BY <1>1, <1>2, <1>3, <1>4, <1>5, <1>8

\* A queue of one operation.
LEMMA OneHas == ASSUME NEW y, NEW x PROVE (Has(<<y>>, x) <=> x = y) /\ AtMostOnce(<<y>>, x)
<1>1. Len(<<y>>) = 1 /\ <<y>>[1] = y
  OBVIOUS
<1> QED BY <1>1 DEF Has, AtMostOnce

\* The empty queue.
LEMMA NoneHas == ASSUME NEW x PROVE ~Has(<<>>, x) /\ AtMostOnce(<<>>, x)
BY DEF Has, AtMostOnce

\* The first operation of a queue, the others up to the n-th, and the rest.
LEMMA SplitHas == ASSUME NEW S, NEW q \in Seq(S), NEW n \in 1 .. Len(q), NEW x
  PROVE /\ Has(q, x) <=> x = q[1] \/ Has(SubSeq(q, 2, n), x) \/ Has(SubSeq(q, n + 1, Len(q)), x)
        /\ AtMostOnce(q, x) =>
              /\ AtMostOnce(SubSeq(q, 2, n), x) /\ AtMostOnce(SubSeq(q, n + 1, Len(q)), x)
              /\ ~(x = q[1] /\ Has(SubSeq(q, 2, n), x))
              /\ ~(x = q[1] /\ Has(SubSeq(q, n + 1, Len(q)), x))
              /\ ~(Has(SubSeq(q, 2, n), x) /\ Has(SubSeq(q, n + 1, Len(q)), x))
<1>0. Len(q) \in Nat /\ n \in Nat /\ n <= Len(q) /\ 1 <= n
  OBVIOUS
<1>1. PICK u \in Seq(S) : /\ u = SubSeq(q, 2, n) /\ Len(u) = n - 1
                          /\ \A i \in 1 .. n - 1 : u[i] = q[i + 1]
  <2>1. SubSeq(q, 2, n) \in Seq(S)
    BY <1>0
  <2>2. Len(SubSeq(q, 2, n)) = n - 1 /\ \A i \in 1 .. n - 1 : SubSeq(q, 2, n)[i] = q[i + 1]
    BY <1>0
  <2> QED BY <2>1, <2>2, Zenon
<1>2. PICK v \in Seq(S) : /\ v = SubSeq(q, n + 1, Len(q)) /\ Len(v) = Len(q) - n
                          /\ \A i \in 1 .. Len(q) - n : v[i] = q[i + n]
  <2>1. SubSeq(q, n + 1, Len(q)) \in Seq(S)
    BY <1>0
  <2>2. /\ Len(SubSeq(q, n + 1, Len(q))) = Len(q) - n
        /\ \A i \in 1 .. Len(q) - n : SubSeq(q, n + 1, Len(q))[i] = q[i + n]
    BY <1>0
  <2> QED BY <2>1, <2>2, Zenon
<1>3. Has(u, x) <=> \E j \in 2 .. n : q[j] = x
  <2>1. ASSUME NEW j \in 2 .. n, q[j] = x PROVE Has(u, x)
    <3>1. j - 1 \in 1 .. n - 1 /\ u[j - 1] = x
      BY <1>0, <1>1, <2>1
    <3> QED BY <1>1, <3>1 DEF Has
  <2>2. ASSUME NEW i \in 1 .. n - 1, u[i] = x PROVE i + 1 \in 2 .. n /\ q[i + 1] = x
    BY <1>0, <1>1, <2>2
  <2> QED BY <1>1, <2>1, <2>2 DEF Has
<1>4. Has(v, x) <=> \E j \in n + 1 .. Len(q) : q[j] = x
  <2>1. ASSUME NEW j \in n + 1 .. Len(q), q[j] = x PROVE Has(v, x)
    <3>1. j - n \in 1 .. Len(q) - n /\ v[j - n] = x
      BY <1>0, <1>2, <2>1
    <3> QED BY <1>2, <3>1 DEF Has
  <2>2. ASSUME NEW i \in 1 .. Len(q) - n, v[i] = x
        PROVE  i + n \in n + 1 .. Len(q) /\ q[i + n] = x
    BY <1>0, <1>2, <2>2
  <2> QED BY <1>2, <2>1, <2>2 DEF Has
<1>5. \A j \in 1 .. Len(q) : j = 1 \/ j \in 2 .. n \/ j \in n + 1 .. Len(q)
  BY <1>0
<1>6. 1 \in 1 .. Len(q) /\ 2 .. n \subseteq 1 .. Len(q) /\ n + 1 .. Len(q) \subseteq 1 .. Len(q)
  BY <1>0
<1>7. Has(q, x) <=> x = q[1] \/ Has(u, x) \/ Has(v, x)
  BY <1>3, <1>4, <1>5, <1>6 DEF Has
<1>8. ASSUME AtMostOnce(q, x)
      PROVE  /\ AtMostOnce(u, x) /\ AtMostOnce(v, x)
             /\ ~(x = q[1] /\ Has(u, x)) /\ ~(x = q[1] /\ Has(v, x)) /\ ~(Has(u, x) /\ Has(v, x))
  <2>1. \A i, j \in 1 .. Len(q) : q[i] = x /\ q[j] = x => i = j
    BY <1>8 DEF AtMostOnce
  <2>2. AtMostOnce(u, x)
    <3> SUFFICES ASSUME NEW i \in 1 .. Len(u), NEW j \in 1 .. Len(u), u[i] = x, u[j] = x
                 PROVE  i = j
      BY DEF AtMostOnce
    <3>1. i + 1 \in 1 .. Len(q) /\ j + 1 \in 1 .. Len(q) /\ q[i + 1] = x /\ q[j + 1] = x
      BY <1>0, <1>1
    <3>2. i + 1 = j + 1
      BY <2>1, <3>1
    <3> QED BY <1>0, <1>1, <3>2
  <2>3. AtMostOnce(v, x)
    <3> SUFFICES ASSUME NEW i \in 1 .. Len(v), NEW j \in 1 .. Len(v), v[i] = x, v[j] = x
                 PROVE  i = j
      BY DEF AtMostOnce
    <3>1. i + n \in 1 .. Len(q) /\ j + n \in 1 .. Len(q) /\ q[i + n] = x /\ q[j + n] = x
      BY <1>0, <1>2
    <3>2. i + n = j + n
      BY <2>1, <3>1
    <3> QED BY <1>0, <1>2, <3>2
  <2>4. \A i \in 2 .. n, j \in n + 1 .. Len(q) : i # 1 /\ j # 1 /\ i # j
    BY <1>0
  <2> QED BY <1>3, <1>4, <1>6, <2>1, <2>2, <2>3, <2>4
<1> QED BY <1>1, <1>2, <1>7, <1>8

\* push(op): an operation that was not queued is then queued exactly once.
LEMMA AppendOnce == ASSUME NEW S, NEW q \in Seq(S), NEW x \in S, ~Has(q, x)
  PROVE AtMostOnce(q \o <<x>>, x) /\ Has(q \o <<x>>, x)
<1>1. \A i \in 1 .. Len(q) : (q \o <<x>>)[i] = q[i]
  OBVIOUS
<1>2. Len(q \o <<x>>) = Len(q) + 1 /\ (q \o <<x>>)[Len(q) + 1] = x
  OBVIOUS
<1> QED BY <1>1, <1>2 DEF Has, AtMostOnce

\* pop(): only the front leaves, and an operation queued once is then gone.
LEMMA TailHas == ASSUME NEW S, NEW q \in Seq(S), q # <<>>, NEW x
  PROVE /\ Has(Tail(q), x) => Has(q, x)
        /\ Has(q, x) => Has(Tail(q), x) \/ Head(q) = x
        /\ AtMostOnce(q, x) => AtMostOnce(Tail(q), x)
        /\ AtMostOnce(q, x) /\ Head(q) = x => ~Has(Tail(q), x)
        /\ Head(q) \in S /\ Tail(q) \in Seq(S)
<1>1. Len(q) >= 1 /\ Len(Tail(q)) = Len(q) - 1 /\ Len(q) \in Nat /\ Head(q) = q[1]
   /\ Head(q) \in S /\ Tail(q) \in Seq(S)
  OBVIOUS
<1>2. \A i \in 1 .. Len(Tail(q)) : Tail(q)[i] = q[i + 1]
  OBVIOUS
<1>3. Has(Tail(q), x) => Has(q, x)
  BY <1>1, <1>2 DEF Has
<1>4. Has(q, x) => Has(Tail(q), x) \/ Head(q) = x
  <2> SUFFICES ASSUME NEW i \in 1 .. Len(q), q[i] = x, i # 1 PROVE Has(Tail(q), x)
    BY <1>1 DEF Has
  <2> i - 1 \in 1 .. Len(Tail(q)) /\ Tail(q)[i - 1] = x
    BY <1>1, <1>2
  <2> QED BY DEF Has
<1>5. AtMostOnce(q, x) => AtMostOnce(Tail(q), x)
  BY <1>1, <1>2 DEF AtMostOnce
<1>6. AtMostOnce(q, x) /\ Head(q) = x => ~Has(Tail(q), x)
  BY <1>1, <1>2 DEF AtMostOnce, Has
<1> QED BY <1>1, <1>3, <1>4, <1>5, <1>6

\* push(q) then push(op) is push of the longer queue.
LEMMA ConcatAppend == ASSUME NEW S, NEW q \in Seq(S), NEW r \in Seq(S), NEW x \in S
  PROVE q \o (r \o <<x>>) = (q \o r) \o <<x>>
<1>1. <<x>> \in Seq(S)
  OBVIOUS
<1> QED BY <1>1, ConcatAssociative

\* pop() keeps a y behind every x.
LEMMA BeforeTail == ASSUME NEW S, NEW q \in Seq(S), q # <<>>, NEW x, NEW y, EveryBefore(q, x, y)
  PROVE EveryBefore(Tail(q), x, y)
<1>1. Len(q) >= 1 /\ Len(Tail(q)) = Len(q) - 1 /\ Len(q) \in Nat
  OBVIOUS
<1>2. \A i \in 1 .. Len(Tail(q)) : Tail(q)[i] = q[i + 1]
  OBVIOUS
<1> SUFFICES ASSUME NEW i \in 1 .. Len(Tail(q)), Tail(q)[i] = x
             PROVE  \E j \in i + 1 .. Len(Tail(q)) : Tail(q)[j] = y
  BY DEF EveryBefore
<1>3. i + 1 \in 1 .. Len(q) /\ q[i + 1] = x
  BY <1>1, <1>2
<1>4. PICK j \in i + 2 .. Len(q) : q[j] = y
  BY <1>3 DEF EveryBefore
<1>5. j - 1 \in i + 1 .. Len(Tail(q)) /\ Tail(q)[j - 1] = y
  BY <1>1, <1>2, <1>4
<1> QED BY <1>5

\* push(q) keeps a y behind every x when the source holds no x.
LEMMA BeforeConcat == ASSUME NEW S, NEW q \in Seq(S), NEW r \in Seq(S), NEW x, NEW y,
    EveryBefore(q, x, y), ~Has(r, x)
  PROVE EveryBefore(q \o r, x, y)
<1>1. \A i \in 1 .. Len(q) : (q \o r)[i] = q[i]
  OBVIOUS
<1>2. \A i \in 1 .. Len(q \o r) : i \notin 1 .. Len(q) =>
         i - Len(q) \in 1 .. Len(r) /\ (q \o r)[i] = r[i - Len(q)]
  OBVIOUS
<1>3. Len(q) \in Nat /\ Len(q \o r) \in Nat /\ Len(q) <= Len(q \o r)
  OBVIOUS
<1> SUFFICES ASSUME NEW i \in 1 .. Len(q \o r), (q \o r)[i] = x
             PROVE  \E j \in i + 1 .. Len(q \o r) : (q \o r)[j] = y
  BY DEF EveryBefore
<1>4. i \in 1 .. Len(q) /\ q[i] = x
  BY <1>1, <1>2 DEF Has
<1>5. PICK j \in i + 1 .. Len(q) : q[j] = y
  BY <1>4 DEF EveryBefore
<1>6. j \in i + 1 .. Len(q \o r) /\ (q \o r)[j] = y
  BY <1>1, <1>3, <1>5
<1> QED BY <1>6

\* push(y) puts a y behind everything queued.
LEMMA BeforeAppend == ASSUME NEW S, NEW q \in Seq(S), NEW y \in S, NEW x, x # y
  PROVE EveryBefore(q \o <<y>>, x, y)
<1>1. Len(q \o <<y>>) = Len(q) + 1 /\ (q \o <<y>>)[Len(q) + 1] = y /\ Len(q) \in Nat
  OBVIOUS
<1> SUFFICES ASSUME NEW i \in 1 .. Len(q \o <<y>>), (q \o <<y>>)[i] = x
             PROVE  \E j \in i + 1 .. Len(q \o <<y>>) : (q \o <<y>>)[j] = y
  BY DEF EveryBefore
<1>2. i # Len(q) + 1
  BY <1>1
<1>3. Len(q) + 1 \in i + 1 .. Len(q \o <<y>>)
  BY <1>1, <1>2
<1> QED BY <1>1, <1>3

\* What every turn of a loop keeps holds of every value it takes.
LEMMA LoopKeeps ==
  ASSUME NEW N \in Nat, NEW T, NEW f, f[0] \in T,
         \A n \in 1 .. N : f[n - 1] \in T => f[n] \in T
  PROVE  \A n \in 0 .. N : f[n] \in T
<1> DEFINE S == {n \in Nat : n <= N => f[n] \in T}
<1>1. 0 \in S
  OBVIOUS
<1>2. \A n \in Nat : n \in S => n + 1 \in S
  <2> SUFFICES ASSUME NEW n \in Nat, n \in S, n + 1 <= N
               PROVE  f[n + 1] \in T
    OBVIOUS
  <2>1. n + 1 \in 1 .. N /\ f[(n + 1) - 1] \in T
    OBVIOUS
  <2> QED BY <2>1
<1> HIDE DEF S
<1>3. Nat \subseteq S
  BY <1>1, <1>2, SetInduction
<1> QED BY <1>3 DEF S

\* The values f of a loop of N turns that begins with a.
LoopRuns(f, N, T, a, turn) ==
    /\ f \in [0 .. N -> T] /\ f[0] = a
    /\ \A n \in 1 .. N : f[n] = turn[n][f[n - 1]]

\* A loop whose turns take a value of T to one of T has a value after each.
LEMMA LoopExists ==
  ASSUME NEW N \in Nat, NEW T, NEW a \in T, NEW turn \in [1 .. N -> [T -> T]]
  PROVE  \E f : LoopRuns(f, N, T, a, turn)
<1> DEFINE K == {k \in Nat : k <= N => \E f : LoopRuns(f, k, T, a, turn)}
<1>1. 0 \in K
  <2>1. LoopRuns([n \in 0 .. 0 |-> a], 0, T, a, turn)
    BY DEF LoopRuns
  <2> QED BY <2>1
<1>2. ASSUME NEW k \in Nat, k \in K PROVE k + 1 \in K
  <2>1. SUFFICES ASSUME k + 1 <= N PROVE \E f : LoopRuns(f, k + 1, T, a, turn)
    OBVIOUS
  <2>2. PICK g : LoopRuns(g, k, T, a, turn)
    BY <1>2, <2>1
  <2>3. g \in [0 .. k -> T] /\ g[k] \in T /\ turn[k + 1] \in [T -> T]
    BY <2>1, <2>2 DEF LoopRuns
  <2> DEFINE f == [n \in 0 .. k + 1 |-> IF n <= k THEN g[n] ELSE turn[k + 1][g[k]]]
  <2>4. f \in [0 .. k + 1 -> T]
    BY <2>3
  <2>5. f[0] = a /\ f[k + 1] = turn[k + 1][g[k]] /\ \A n \in 0 .. k : f[n] = g[n]
    BY <2>2 DEF LoopRuns
  <2> HIDE DEF f
  <2>6. \A n \in 1 .. k + 1 : f[n] = turn[n][f[n - 1]]
    <3> TAKE n \in 1 .. k + 1
    <3>1. CASE n \in 1 .. k
      BY <2>2, <2>5, <3>1 DEF LoopRuns
    <3>2. CASE n = k + 1
      BY <2>5, <3>2
    <3> QED BY <3>1, <3>2
  <2>7. LoopRuns(f, k + 1, T, a, turn)
    BY <2>4, <2>5, <2>6, Zenon DEF LoopRuns
  <2> QED BY <2>7
<1> HIDE DEF K
<1>3. N \in K
  BY <1>1, <1>2, SetInduction
<1> QED BY <1>3 DEF K

-----------------------------------------------------------------------------
(* Taking operations out of a queue.                                       *)

\* What is kept of the first n operations, for every n.
KeptOf(q, gone, kept) ==
    kept = [n \in 0 .. Len(q) |->
              IF n = 0 THEN <<>>
              ELSE IF q[n] \in gone THEN kept[n - 1] ELSE Append(kept[n - 1], q[n])]

LEMMA KeptExists ==
  ASSUME NEW S, NEW q \in Seq(S), NEW gone
  PROVE  \E kept : KeptOf(q, gone, kept)
<1> DEFINE turn == [n \in 1 .. Len(q) |-> [p \in Seq(S) |->
                      IF q[n] \in gone THEN p ELSE Append(p, q[n])]]
<1>1. Len(q) \in Nat /\ <<>> \in Seq(S) /\ turn \in [1 .. Len(q) -> [Seq(S) -> Seq(S)]]
  <2>1. \A n \in 1 .. Len(q), p \in Seq(S) : Append(p, q[n]) \in Seq(S)
    BY AppendProperties
  <2> QED BY <2>1
<1>2. \A n \in 1 .. Len(q), p \in Seq(S) :
        turn[n][p] = IF q[n] \in gone THEN p ELSE Append(p, q[n])
  OBVIOUS
<1> HIDE DEF turn
<1>3. PICK N, T, a : N = Len(q) /\ N \in Nat /\ T = Seq(S) /\ a = <<>>
  BY <1>1, Zenon
<1>4. a \in T /\ turn \in [1 .. N -> [T -> T]]
  BY <1>1, <1>3
<1>5. PICK f : LoopRuns(f, N, T, a, turn)
  BY <1>3, <1>4, LoopExists, Zenon
<1>6. \A n \in 1 .. N : f[n - 1] \in T
  <2> SUFFICES ASSUME NEW n \in 1 .. N PROVE f[n - 1] \in T
    OBVIOUS
  <2>1. n - 1 \in 0 .. N /\ f \in [0 .. N -> T]
    BY <1>3, <1>5 DEF LoopRuns
  <2> QED BY <2>1
<1>7. \A n \in 0 .. N :
        f[n] = IF n = 0 THEN <<>> ELSE IF q[n] \in gone THEN f[n - 1] ELSE Append(f[n - 1], q[n])
  <2> SUFFICES ASSUME NEW n \in 0 .. N, n # 0
               PROVE  f[n] = IF q[n] \in gone THEN f[n - 1] ELSE Append(f[n - 1], q[n])
    BY <1>3, <1>5, Zenon DEF LoopRuns
  <2>1. n \in 1 .. N
    BY <1>3
  <2> QED BY <1>2, <1>3, <1>5, <1>6, <2>1, Zenon DEF LoopRuns
<1>8. f = [n \in 0 .. N |-> f[n]]
  BY <1>5 DEF LoopRuns
<1> QED BY <1>3, <1>7, <1>8, Zenon DEF KeptOf

\* p is what the loop has kept after n operations.
KeptSoFar(q, gone, p, n) ==
    /\ Len(p) <= n
    /\ \A i \in 1 .. Len(p) : \E j \in 1 .. n : q[j] = p[i] /\ q[j] \notin gone
    /\ \A j \in 1 .. n : q[j] \notin gone => \E i \in 1 .. Len(p) : q[j] = p[i]
    /\ \A h, i \in 1 .. Len(p) : p[h] = p[i] => h = i \/ \E j, k \in 1 .. n : q[j] = p[i] /\ q[k] = p[i] /\ j # k

\* One more operation is kept.
LEMMA KeepsOneMore ==
  ASSUME NEW S, NEW q \in Seq(S), NEW gone, NEW p \in Seq(S), NEW n \in Nat, n + 1 <= Len(q),
         q[n + 1] \notin gone, KeptSoFar(q, gone, p, n)
  PROVE  KeptSoFar(q, gone, Append(p, q[n + 1]), n + 1)
<1> DEFINE r == Append(p, q[n + 1])
<1>1. n + 1 \in 1 .. Len(q) /\ q[n + 1] \in S
  OBVIOUS
<1>2. /\ Len(r) = Len(p) + 1 /\ r[Len(p) + 1] = q[n + 1] /\ Len(p) \in Nat
      /\ \A i \in 1 .. Len(p) : r[i] = p[i]
  BY <1>1, AppendProperties
<1> HIDE DEF r
<1>3. ASSUME NEW i \in 1 .. Len(r)
      PROVE  \E j \in 1 .. n + 1 : q[j] = r[i] /\ q[j] \notin gone
  <2>1. CASE i = Len(p) + 1
    BY <1>2, <2>1
  <2>2. CASE i \in 1 .. Len(p)
    <3>1. PICK j \in 1 .. n : q[j] = p[i] /\ q[j] \notin gone
      BY <2>2 DEF KeptSoFar
    <3> QED BY <1>2, <2>2, <3>1
  <2> QED BY <1>2, <2>1, <2>2
<1>4. ASSUME NEW j \in 1 .. n + 1, q[j] \notin gone
      PROVE  \E i \in 1 .. Len(r) : q[j] = r[i]
  <2>1. CASE j = n + 1
    BY <1>2, <2>1
  <2>2. CASE j \in 1 .. n
    <3>1. PICK i \in 1 .. Len(p) : q[j] = p[i]
      BY <1>4, <2>2 DEF KeptSoFar
    <3> QED BY <1>2, <3>1
  <2> QED BY <2>1, <2>2
<1>5. ASSUME NEW h \in 1 .. Len(r), NEW i \in 1 .. Len(r), r[h] = r[i], h # i
      PROVE  \E j, k \in 1 .. n + 1 : q[j] = r[i] /\ q[k] = r[i] /\ j # k
  <2>1. CASE h \in 1 .. Len(p) /\ i \in 1 .. Len(p)
    <3>1. PICK j \in 1 .. n, k \in 1 .. n : q[j] = p[i] /\ q[k] = p[i] /\ j # k
      BY <1>2, <1>5, <2>1 DEF KeptSoFar
    <3> QED BY <1>2, <2>1, <3>1
  <2>2. ASSUME NEW e \in 1 .. Len(p), r[e] = r[i], r[i] = q[n + 1]
        PROVE  \E j, k \in 1 .. n + 1 : q[j] = r[i] /\ q[k] = r[i] /\ j # k
    <3>1. PICK j \in 1 .. n : q[j] = p[e]
      BY DEF KeptSoFar
    <3>2. j \in 1 .. n + 1 /\ n + 1 \in 1 .. n + 1 /\ j # n + 1 /\ q[j] = r[i]
      BY <1>2, <2>2, <3>1
    <3> QED BY <2>2, <3>2
  <2>3. CASE h = Len(p) + 1 \/ i = Len(p) + 1
    <3>1. \/ h \in 1 .. Len(p) /\ i = Len(p) + 1
          \/ i \in 1 .. Len(p) /\ h = Len(p) + 1
      BY <1>2, <1>5, <2>3
    <3> QED BY <1>2, <1>5, <2>2, <3>1
  <2> QED BY <1>2, <2>1, <2>3
<1>6. Len(r) <= n + 1
  BY <1>2 DEF KeptSoFar
<1>7. KeptSoFar(q, gone, r, n + 1)
  BY <1>3, <1>4, <1>5, <1>6, Zenon DEF KeptSoFar
<1> QED BY <1>7 DEF r

\* Unlinked takes out the operations of gone and no others, and keeps what is unique unique.
LEMMA UnlinkedFacts ==
  ASSUME NEW S, NEW q \in Seq(S), NEW gone
  PROVE  /\ Unlinked(q, gone) \in Seq(S) /\ Len(Unlinked(q, gone)) <= Len(q)
         /\ \A x : Has(Unlinked(q, gone), x) <=> Has(q, x) /\ x \notin gone
         /\ \A x : AtMostOnce(q, x) => AtMostOnce(Unlinked(q, gone), x)
<1> DEFINE kept == CHOOSE kept : KeptOf(q, gone, kept)
<1>1. KeptOf(q, gone, kept) /\ Unlinked(q, gone) = kept[Len(q)]
  <2>1. Unlinked(q, gone) = kept[Len(q)]
    BY DEF Unlinked, KeptOf
  <2> QED BY <2>1, KeptExists
<1> HIDE DEF kept
<1>2. /\ Len(q) \in Nat /\ kept[0] = <<>>
      /\ \A n \in 1 .. Len(q) :
            kept[n] = IF q[n] \in gone THEN kept[n - 1] ELSE Append(kept[n - 1], q[n])
  <2>1. \A n \in 0 .. Len(q) :
          kept[n] = IF n = 0 THEN <<>>
                    ELSE IF q[n] \in gone THEN kept[n - 1] ELSE Append(kept[n - 1], q[n])
    BY <1>1, Zenon DEF KeptOf
  <2> QED BY <2>1
<1> DEFINE G == {n \in Nat : n <= Len(q) => kept[n] \in Seq(S) /\ KeptSoFar(q, gone, kept[n], n)}
<1>3. 0 \in G
  <2>1. KeptSoFar(q, gone, <<>>, 0)
    BY DEF KeptSoFar
  <2>2. kept[0] \in Seq(S) /\ KeptSoFar(q, gone, kept[0], 0)
    BY <1>2, <2>1
  <2> QED BY <2>2
<1>4. ASSUME NEW n \in Nat, n \in G PROVE n + 1 \in G
  <2>1. SUFFICES ASSUME n + 1 <= Len(q)
                 PROVE  kept[n + 1] \in Seq(S) /\ KeptSoFar(q, gone, kept[n + 1], n + 1)
    OBVIOUS
  <2>2. kept[n] \in Seq(S) /\ KeptSoFar(q, gone, kept[n], n) /\ n + 1 \in 1 .. Len(q)
    BY <1>2, <1>4, <2>1
  <2>3. q[n + 1] \in S /\ kept[n + 1] = IF q[n + 1] \in gone THEN kept[n] ELSE Append(kept[n], q[n + 1])
    BY <1>2, <2>2
  <2>4. CASE q[n + 1] \in gone
    <3>1. KeptSoFar(q, gone, kept[n], n + 1)
      <4>1. PICK p \in Seq(S) : p = kept[n] /\ Len(p) \in Nat
        BY <2>2
      <4>2. KeptSoFar(q, gone, p, n + 1)
        BY <2>2, <2>4, <4>1 DEF KeptSoFar
      <4> QED BY <4>1, <4>2
    <3> QED BY <2>2, <2>3, <2>4, <3>1
  <2>5. CASE q[n + 1] \notin gone
    <3>1. kept[n + 1] = Append(kept[n], q[n + 1])
      BY <2>3, <2>5
    <3> QED BY <2>1, <2>2, <2>3, <2>5, <3>1, KeepsOneMore, AppendProperties
  <2> QED BY <2>4, <2>5
<1> HIDE DEF G
<1>5. Len(q) \in G
  BY <1>2, <1>3, <1>4, SetInduction
<1>6. PICK p \in Seq(S) : p = kept[Len(q)] /\ Len(p) \in Nat /\ KeptSoFar(q, gone, p, Len(q))
  BY <1>2, <1>5 DEF G
<1>7. ASSUME NEW x PROVE Has(p, x) <=> Has(q, x) /\ x \notin gone
  <2>1. ASSUME NEW i \in 1 .. Len(p), p[i] = x PROVE Has(q, x) /\ x \notin gone
    BY <1>6, <2>1 DEF Has, KeptSoFar
  <2>2. ASSUME NEW j \in 1 .. Len(q), q[j] = x, x \notin gone PROVE Has(p, x)
    BY <1>6, <2>2 DEF Has, KeptSoFar
  <2> QED BY <2>1, <2>2 DEF Has
<1>8. ASSUME NEW x, AtMostOnce(q, x) PROVE AtMostOnce(p, x)
  <2> SUFFICES ASSUME NEW h \in 1 .. Len(p), NEW i \in 1 .. Len(p), p[h] = x, p[i] = x
               PROVE  h = i
    BY DEF AtMostOnce
  <2>1. \A j, k \in 1 .. Len(q) : q[j] = p[i] /\ q[k] = p[i] => j = k
    BY <1>8 DEF AtMostOnce
  <2>2. h = i \/ \E j, k \in 1 .. Len(q) : q[j] = p[i] /\ q[k] = p[i] /\ j # k
    <3>1. \A d, e \in 1 .. Len(p) :
            p[d] = p[e] => d = e \/ \E j, k \in 1 .. Len(q) : q[j] = p[e] /\ q[k] = p[e] /\ j # k
      BY <1>6, Zenon DEF KeptSoFar
    <3> QED BY <3>1, Zenon
  <2> QED BY <2>1, <2>2
<1>9. Len(p) <= Len(q)
  BY <1>6 DEF KeptSoFar
<1> QED BY <1>1, <1>6, <1>7, <1>8, <1>9

\* The loop of Unlinked, turn by turn.
LEMMA UnlinkedTurns ==
  ASSUME NEW S, NEW q \in Seq(S), NEW gone
  PROVE  \E kept : /\ kept[0] = <<>> /\ Unlinked(q, gone) = kept[Len(q)]
                   /\ \A n \in 1 .. Len(q) :
                         kept[n] = IF q[n] \in gone THEN kept[n - 1] ELSE Append(kept[n - 1], q[n])
<1> DEFINE kept == CHOOSE kept : KeptOf(q, gone, kept)
<1>1. KeptOf(q, gone, kept) /\ Unlinked(q, gone) = kept[Len(q)]
  <2>1. Unlinked(q, gone) = kept[Len(q)]
    BY DEF Unlinked, KeptOf
  <2> QED BY <2>1, KeptExists
<1> HIDE DEF kept
<1>2. \A n \in 0 .. Len(q) :
        kept[n] = IF n = 0 THEN <<>>
                  ELSE IF q[n] \in gone THEN kept[n - 1] ELSE Append(kept[n - 1], q[n])
  BY <1>1, Zenon DEF KeptOf
<1>3. Len(q) \in Nat
  OBVIOUS
<1>4. kept[0] = <<>>
  BY <1>2, <1>3
<1>5. \A n \in 1 .. Len(q) :
        kept[n] = IF q[n] \in gone THEN kept[n - 1] ELSE Append(kept[n - 1], q[n])
  BY <1>2, <1>3
<1> QED BY <1>1, <1>4, <1>5

\* Nothing is left of a queue of operations that are all taken out.
LEMMA UnlinkedAll ==
  ASSUME NEW S, NEW q \in Seq(S), NEW gone, \A n \in 1 .. Len(q) : q[n] \in gone
  PROVE  Unlinked(q, gone) = <<>>
<1>1. PICK r \in Seq(S) : r = Unlinked(q, gone) /\ \A x : Has(r, x) => Has(q, x) /\ x \notin gone
  BY UnlinkedFacts
<1>2. ASSUME r # <<>> PROVE FALSE
  <2>1. 1 \in 1 .. Len(r)
    BY <1>2, EmptySeq
  <2>2. Has(r, r[1])
    BY <2>1 DEF Has
  <2> QED BY <1>1, <2>2 DEF Has
<1> QED BY <1>1, <1>2

\* A part in front of which nothing is taken out stays as it is.
LEMMA UnlinkedBehind ==
  ASSUME NEW S, NEW b \in Seq(S), NEW w \in Seq(S), NEW gone, \A n \in 1 .. Len(b) : b[n] \notin gone
  PROVE  Unlinked(b \o w, gone) = b \o Unlinked(w, gone)
<1>1. PICK q \in Seq(S) : /\ q = b \o w /\ Len(q) = Len(b) + Len(w) /\ Len(b) \in Nat /\ Len(w) \in Nat
                          /\ \A n \in 1 .. Len(b) : q[n] = b[n]
                          /\ \A n \in 1 .. Len(w) : q[Len(b) + n] = w[n]
  <2>1. PICK q : q = b \o w
    OBVIOUS
  <2>2. q \in Seq(S) /\ Len(q) = Len(b) + Len(w) /\ Len(b) \in Nat /\ Len(w) \in Nat
    BY <2>1, ConcatProperties, LenProperties
  <2>3. \A n \in 1 .. Len(b) + Len(w) : q[n] = IF n <= Len(b) THEN b[n] ELSE w[n - Len(b)]
    BY <2>1, ConcatProperties
  <2>4. \A n \in 1 .. Len(b) : q[n] = b[n]
    BY <2>2, <2>3
  <2>5. ASSUME NEW n \in 1 .. Len(w) PROVE q[Len(b) + n] = w[n]
    <3>1. Len(b) + n \in 1 .. Len(b) + Len(w) /\ ~(Len(b) + n <= Len(b)) /\ (Len(b) + n) - Len(b) = n
      BY <2>2
    <3> QED BY <2>3, <3>1
  <2> QED BY <2>1, <2>2, <2>4, <2>5
<1>2. PICK f : /\ f[0] = <<>> /\ Unlinked(q, gone) = f[Len(q)]
               /\ \A n \in 1 .. Len(q) : f[n] = IF q[n] \in gone THEN f[n - 1] ELSE Append(f[n - 1], q[n])
  BY UnlinkedTurns
<1>3. PICK g : /\ g[0] = <<>> /\ Unlinked(w, gone) = g[Len(w)]
               /\ \A n \in 1 .. Len(w) : g[n] = IF w[n] \in gone THEN g[n - 1] ELSE Append(g[n - 1], w[n])
  BY UnlinkedTurns
<1> DEFINE F == {n \in Nat : n <= Len(b) => /\ f[n] \in Seq(S) /\ Len(f[n]) = n
                                            /\ \A i \in 1 .. n : f[n][i] = b[i]}
           G == {n \in Nat : n <= Len(w) => g[n] \in Seq(S) /\ f[Len(b) + n] = b \o g[n]}
<1>4. 0 \in F
  <2>1. PICK e \in Seq(S) : e = <<>> /\ Len(e) = 0
    BY EmptySeq
  <2>2. f[0] \in Seq(S) /\ Len(f[0]) = 0
    BY <1>2, <2>1, Zenon
  <2> QED BY <2>2
<1>5. ASSUME NEW n \in Nat, n \in F PROVE n + 1 \in F
  <2> SUFFICES ASSUME n + 1 <= Len(b)
               PROVE  /\ f[n + 1] \in Seq(S) /\ Len(f[n + 1]) = n + 1
                      /\ \A i \in 1 .. n + 1 : f[n + 1][i] = b[i]
    OBVIOUS
  <2>1. n + 1 \in 1 .. Len(b) /\ n + 1 \in 1 .. Len(q) /\ (n + 1) - 1 = n
    BY <1>1
  <2>2. PICK p \in Seq(S) : p = f[n] /\ Len(p) = n /\ \A i \in 1 .. n : p[i] = b[i]
    BY <1>5, <2>1
  <2>3. f[n + 1] = Append(p, b[n + 1]) /\ b[n + 1] \in S
    BY <1>1, <1>2, <2>1, <2>2, ElementOfSeq
  <2> QED BY <2>2, <2>3, AppendProperties
<1>6. f[Len(b)] = b
  <2> HIDE DEF F
  <2>1. Len(b) \in F
    BY <1>1, <1>4, <1>5, SetInduction
  <2>2. f[Len(b)] \in Seq(S) /\ Len(f[Len(b)]) = Len(b) /\ \A i \in 1 .. Len(b) : f[Len(b)][i] = b[i]
    BY <1>1, <2>1 DEF F
  <2> QED BY <2>2, SeqEqual
<1>7. 0 \in G
  <2>1. b \o <<>> = b /\ <<>> \in Seq(S) /\ Len(b) + 0 = Len(b)
    BY <1>1, ConcatEmptySeq
  <2> QED BY <1>3, <1>6, <2>1
<1>8. ASSUME NEW n \in Nat, n \in G PROVE n + 1 \in G
  <2> SUFFICES ASSUME n + 1 <= Len(w)
               PROVE  g[n + 1] \in Seq(S) /\ f[Len(b) + (n + 1)] = b \o g[n + 1]
    OBVIOUS
  <2>1. /\ n + 1 \in 1 .. Len(w) /\ Len(b) + (n + 1) \in 1 .. Len(q) /\ (n + 1) - 1 = n
        /\ (Len(b) + (n + 1)) - 1 = Len(b) + n
    BY <1>1
  <2>2. PICK p \in Seq(S) : p = g[n] /\ f[Len(b) + n] = b \o p
    <3>1. g[n] \in Seq(S) /\ f[Len(b) + n] = b \o g[n]
      BY <1>1, <1>8
    <3> QED BY <3>1
  <2>3. PICK x \in S : x = w[n + 1] /\ q[Len(b) + (n + 1)] = x
    BY <1>1, <2>1, ElementOfSeq
  <2>4. /\ f[Len(b) + (n + 1)] = IF x \in gone THEN b \o p ELSE Append(b \o p, x)
        /\ g[n + 1] = IF x \in gone THEN p ELSE Append(p, x)
    BY <1>2, <1>3, <2>1, <2>2, <2>3
  <2>5. Append(p, x) \in Seq(S) /\ Append(b \o p, x) = b \o Append(p, x)
    <3>1. /\ Append(p, x) \in Seq(S) /\ Append(p, x) = p \o <<x>> /\ b \o p \in Seq(S)
          /\ b \o (p \o <<x>>) = (b \o p) \o <<x>>
      BY AppendProperties, AppendIsConcat, ConcatProperties, ConcatAppend
    <3>2. Append(b \o p, x) = (b \o p) \o <<x>>
      BY <3>1, AppendIsConcat
    <3> QED BY <3>1, <3>2
  <2> QED BY <2>2, <2>4, <2>5
<1> HIDE DEF G
<1>9. f[Len(b) + Len(w)] = b \o g[Len(w)]
  <2>1. Len(w) \in G
    BY <1>1, <1>7, <1>8, SetInduction
  <2> QED BY <1>1, <2>1 DEF G
<1> QED BY <1>1, <1>2, <1>3, <1>9

\* Nothing happens to a queue that holds none of those.
LEMMA UnlinkedNone ==
  ASSUME NEW S, NEW q \in Seq(S), NEW gone, \A n \in 1 .. Len(q) : q[n] \notin gone
  PROVE  Unlinked(q, gone) = q
<1>1. PICK e \in Seq(S) : e = <<>> /\ Len(e) = 0
  BY EmptySeq
<1>2. Unlinked(e, gone) = <<>>
  <2>1. \A n \in 1 .. Len(e) : e[n] \in gone
    BY <1>1
  <2> QED BY <2>1, UnlinkedAll
<1>3. Unlinked(q \o e, gone) = q \o Unlinked(e, gone)
  BY UnlinkedBehind
<1> QED BY <1>1, <1>2, <1>3, ConcatEmptySeq

\* As many as are numbered, if no two are the same.
LEMMA CountDistinct ==
  ASSUME NEW S, IsFiniteSet(S), NEW n \in Nat, NEW s \in [1 .. n -> S],
         \A x, y \in 1 .. n : s[x] = s[y] => x = y, NEW R, \A v : v \in R <=> \E x \in 1 .. n : v = s[x]
  PROVE  Cardinality(R) = n /\ n <= Cardinality(S)
<1>1. IsFiniteSet(1 .. n) /\ Cardinality(1 .. n) = n
  BY FS_Interval
<1>2. s \in Surjection(1 .. n, R) /\ s \in Injection(1 .. n, R) /\ R \subseteq S
  BY DEF Surjection, Injection, IsInjective
<1>3. IsFiniteSet(R) /\ Cardinality(R) = n
  BY <1>1, <1>2, FS_Surjection
<1>4. Cardinality(R) <= Cardinality(S)
  BY <1>2, FS_Subset
<1> QED BY <1>3, <1>4

\* The front of two queues put together is the front of the first.
LEMMA TailConcat ==
  ASSUME NEW S, NEW q \in Seq(S), NEW r \in Seq(S), q # <<>>
  PROVE  q \o r # <<>> /\ Head(q \o r) = Head(q) /\ Tail(q \o r) = Tail(q) \o r
<1>1. PICK p \in Seq(S) : p = q \o r
  BY ConcatProperties
<1>2. /\ Len(p) = Len(q) + Len(r) /\ Len(q) \in Nat \ {0} /\ Len(r) \in Nat
      /\ \A n \in 1 .. Len(q) + Len(r) : p[n] = IF n <= Len(q) THEN q[n] ELSE r[n - Len(q)]
  BY <1>1, ConcatProperties, LenProperties, EmptySeq
<1>3. p # <<>>
  BY <1>2, EmptySeq
<1>4. PICK u \in Seq(S) : /\ u = Tail(p) /\ Len(u) = Len(p) - 1 /\ Head(p) = p[1]
                          /\ \A n \in 1 .. Len(u) : u[n] = p[n + 1]
  <2>1. /\ Tail(p) \in Seq(S) /\ Len(Tail(p)) = Len(p) - 1 /\ Head(p) = p[1]
        /\ \A n \in 1 .. Len(Tail(p)) : Tail(p)[n] = p[n + 1]
    BY <1>3, HeadTailProperties
  <2> QED BY <2>1, Zenon
<1>5. PICK v \in Seq(S) : /\ v = Tail(q) /\ Len(v) = Len(q) - 1 /\ Head(q) = q[1]
                          /\ \A n \in 1 .. Len(v) : v[n] = q[n + 1]
  <2>1. /\ Tail(q) \in Seq(S) /\ Len(Tail(q)) = Len(q) - 1 /\ Head(q) = q[1]
        /\ \A n \in 1 .. Len(Tail(q)) : Tail(q)[n] = q[n + 1]
    BY HeadTailProperties
  <2> QED BY <2>1, Zenon
<1>6. PICK x \in Seq(S) : /\ x = v \o r /\ Len(x) = Len(v) + Len(r)
                          /\ \A n \in 1 .. Len(v) + Len(r) : x[n] = IF n <= Len(v) THEN v[n] ELSE r[n - Len(v)]
  <2>1. /\ v \o r \in Seq(S) /\ Len(v \o r) = Len(v) + Len(r)
        /\ \A n \in 1 .. Len(v) + Len(r) : (v \o r)[n] = IF n <= Len(v) THEN v[n] ELSE r[n - Len(v)]
    BY ConcatProperties
  <2> QED BY <2>1, Zenon
<1>7. \A n \in 1 .. Len(u) : u[n] = x[n]
  BY <1>2, <1>4, <1>5, <1>6
<1>8. u = x
  <2>1. Len(u) = Len(x)
    BY <1>2, <1>4, <1>5, <1>6
  <2> QED BY <1>7, <2>1, SeqEqual
<1> QED BY <1>1, <1>2, <1>3, <1>4, <1>5, <1>6, <1>8

\* The front element of one queue goes to the end of another, in front of the rest.
LEMMA HandedOn ==
  ASSUME NEW S, NEW q \in Seq(S), NEW r \in Seq(S), r # <<>>
  PROVE  Append(q, Head(r)) \o Tail(r) = q \o r
<1>1. PICK x \in S, t \in Seq(S) : x = Head(r) /\ t = Tail(r) /\ r = <<x>> \o t
  <2>1. PICK t \in Seq(S), x \in S : /\ t = Tail(r) /\ x = Head(r) /\ x = r[1] /\ Len(t) = Len(r) - 1
                                     /\ \A n \in 1 .. Len(t) : t[n] = r[n + 1]
    <3>1. /\ Tail(r) \in Seq(S) /\ Head(r) \in S /\ Len(Tail(r)) = Len(r) - 1 /\ Head(r) = r[1]
          /\ \A n \in 1 .. Len(Tail(r)) : Tail(r)[n] = r[n + 1]
      BY HeadTailProperties
    <3> QED BY <3>1, Zenon
  <2>2. PICK o \in Seq(S) : o = <<x>> /\ Len(o) = 1 /\ o[1] = x
    <3>1. <<x>> \in Seq(S) /\ Len(<<x>>) = 1 /\ <<x>>[1] = x
      OBVIOUS
    <3> QED BY <3>1, Zenon
  <2>3. PICK p \in Seq(S) : /\ p = o \o t /\ Len(p) = Len(o) + Len(t)
                            /\ \A n \in 1 .. Len(o) + Len(t) : p[n] = IF n <= Len(o) THEN o[n] ELSE t[n - Len(o)]
    <3>1. /\ o \o t \in Seq(S) /\ Len(o \o t) = Len(o) + Len(t)
          /\ \A n \in 1 .. Len(o) + Len(t) : (o \o t)[n] = IF n <= Len(o) THEN o[n] ELSE t[n - Len(o)]
      BY ConcatProperties
    <3> QED BY <3>1, Zenon
  <2>4. Len(r) \in Nat \ {0}
    BY LenProperties, EmptySeq
  <2>5. Len(p) = Len(r) /\ \A n \in 1 .. Len(p) : p[n] = r[n]
    BY <2>1, <2>2, <2>3, <2>4
  <2>6. p = r
    BY <2>5, SeqEqual
  <2>7. r = <<x>> \o t
    BY <2>2, <2>3, <2>6
  <2> QED BY <2>1, <2>7, Zenon
<1>2. Append(q, x) = q \o <<x>> /\ <<x>> \in Seq(S)
  BY AppendIsConcat
<1>3. (q \o <<x>>) \o t = q \o (<<x>> \o t)
  BY <1>2, ConcatAssociative
<1> QED BY <1>1, <1>2, <1>3

\* What is left of a queue when the first m operations have left it.
LEMMA RestFacts ==
  ASSUME NEW S, NEW q \in Seq(S), NEW m \in 0 .. Len(q)
  PROVE  /\ SubSeq(q, m + 1, Len(q)) = <<>> <=> m = Len(q)
         /\ m < Len(q) => /\ Head(SubSeq(q, m + 1, Len(q))) = q[m + 1]
                          /\ Tail(SubSeq(q, m + 1, Len(q))) = SubSeq(q, (m + 1) + 1, Len(q))
<1>1. Len(q) \in Nat
  BY LenProperties
<1>2. ASSUME m = Len(q) PROVE SubSeq(q, m + 1, Len(q)) = <<>>
  BY <1>1, <1>2
<1>3. ASSUME m < Len(q)
      PROVE  /\ SubSeq(q, m + 1, Len(q)) # <<>> /\ Head(SubSeq(q, m + 1, Len(q))) = q[m + 1]
             /\ Tail(SubSeq(q, m + 1, Len(q))) = SubSeq(q, (m + 1) + 1, Len(q))
  <2>1. PICK k \in 1 .. Len(q) : k = m + 1
    BY <1>1, <1>3
  <2>4. PICK n \in k .. Len(q) : n = Len(q)
    BY <1>1
  <2>2. Head(SubSeq(q, k, n)) = q[k] /\ Tail(SubSeq(q, k, n)) = SubSeq(q, k + 1, n)
    BY HeadTailOfSubSeq
  <2>3. SubSeq(q, k, n) # <<>>
    <3>1. SubSeq(q, k, n) \in Seq(S) /\ Len(SubSeq(q, k, n)) = (n - k) + 1
      BY <1>1, <2>1, <2>4, SubSeqProperties, ElementOfSeq
    <3>2. PICK p \in Seq(S) : p = SubSeq(q, k, n) /\ Len(p) = (n - k) + 1
      BY <3>1, Zenon
    <3>3. Len(p) # 0
      BY <1>1, <2>1, <2>4, <3>2
    <3> QED BY <3>2, <3>3, EmptySeq
  <2> QED BY <2>1, <2>2, <2>3, <2>4
<1> QED BY <1>1, <1>2, <1>3

\* The operations numbered m + 1 to k, and one more.
LEMMA OneLonger ==
  ASSUME NEW S, NEW q \in Seq(S), NEW k \in 0 .. Len(q), NEW m \in 0 .. k
  PROVE  /\ SubSeq(q, m + 1, k) \in Seq(S) /\ SubSeq(q, k + 1, k) = <<>>
         /\ k < Len(q) => SubSeq(q, m + 1, k + 1) = Append(SubSeq(q, m + 1, k), q[k + 1])
<1>1. Len(q) \in Nat
  BY LenProperties
<1>2. SubSeq(q, m + 1, k) \in Seq(S)
  BY <1>1, SubSeqProperties, ElementOfSeq
<1>3. SubSeq(q, k + 1, k) = <<>>
  BY <1>1
<1>4. ASSUME k < Len(q) PROVE SubSeq(q, m + 1, k + 1) = Append(SubSeq(q, m + 1, k), q[k + 1])
  <2>1. PICK n \in 1 .. Len(q) : n = k + 1
    BY <1>1, <1>4
  <2>5. PICK x \in 1 .. Len(q) : x = m + 1
    BY <1>1, <1>4
  <2>6. n \in x .. Len(q)
    BY <2>1, <2>5
  <2>2. SubSeq(q, x, n) = SubSeq(q, x, n - 1) \o <<q[n]>>
    BY <2>6, SubSeqRecursiveSecond
  <2>3. n - 1 = k /\ q[n] \in S
    BY <2>1, ElementOfSeq
  <2>4. SubSeq(q, m + 1, k) \o <<q[n]>> = Append(SubSeq(q, m + 1, k), q[n])
    BY <1>2, <2>3, AppendIsConcat
  <2> QED BY <2>1, <2>2, <2>3, <2>4, <2>5
<1> QED BY <1>2, <1>3, <1>4
=============================================================================
