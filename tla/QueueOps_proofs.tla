--------------------------- MODULE QueueOps_proofs ---------------------------
(***************************************************************************)
(* What the operations on queues do to a queue that holds each process     *)
(* once, in the terms the kernel's invariants use: the set of the          *)
(* processes it holds, its length and the order of its keys.               *)
(***************************************************************************)
EXTENDS QueueOps, SequenceTheorems, WellFoundedInduction, TLAPS

(* Every nonempty set of positive numbers has a least element, so the walk *)
(* of insert ends at a place.                                              *)
LEMMA MinOfNats ==
    ASSUME NEW T, T \subseteq Nat, T # {}
    PROVE  Min(T) \in T /\ \A y \in T : Min(T) <= y
<1>1. \E x \in T : \A y \in T : ~(<<y, x>> \in OpToRel(<, Nat))
  BY NatLessThanWellFounded, WFMin
<1>2. PICK x \in T : \A y \in T : ~(<<y, x>> \in OpToRel(<, Nat))
  BY <1>1
<1>3. \A y \in T : ~(y < x)
  BY <1>2 DEF OpToRel
<1>4. \A y \in T : x <= y
  BY <1>3
<1> QED BY <1>4 DEF Min

(* And every bounded one has a greatest.                                   *)
LEMMA MaxOfBounded ==
    ASSUME NEW n \in Nat, NEW T, T \subseteq 0 .. n, T # {}
    PROVE  Max(T) \in T /\ \A y \in T : Max(T) >= y
<1> DEFINE D == {n - x : x \in T}
<1>1. D \subseteq Nat /\ D # {}
  <2>1. \A x \in T : x \in Int /\ n - x \in Nat
    OBVIOUS
  <2>2. PICK x \in T : TRUE
    OBVIOUS
  <2> QED BY <2>1, <2>2
<1> HIDE DEF D
<1>2. Min(D) \in D /\ \A y \in D : Min(D) <= y
  BY <1>1, MinOfNats
<1>3. PICK x \in T : Min(D) = n - x
  BY <1>2 DEF D
<1>4. \A y \in T : n - y \in D
  BY DEF D
<1>5. \A y \in T : x >= y
  BY <1>2, <1>3, <1>4
<1> QED BY <1>3, <1>5 DEF Max

(* What holds of 0 and passes from each number to the next one.            *)
LEMMA Induct ==
    ASSUME NEW N \in Nat, NEW T, 0 \in T,
           \A n \in 0 .. N - 1 : n \in T => n + 1 \in T
    PROVE  0 .. N \subseteq T
<1> DEFINE C == (0 .. N) \ T
           m == Min(C)
<1>1. ASSUME C # {} PROVE FALSE
  <2>1. C \subseteq Nat
    OBVIOUS
  <2>2. m \in C /\ \A y \in C : m <= y
    BY <1>1, <2>1, MinOfNats
  <2> HIDE DEF m
  <2>3. m \in 0 .. N /\ m \notin T /\ \A y \in C : m <= y
    BY <2>2
  <2>4. m # 0 /\ m - 1 \in 0 .. N - 1
    BY <2>3
  <2>5. m - 1 \in T
    BY <2>3, <2>4
  <2>6. (m - 1) + 1 \in T
    BY <2>4, <2>5
  <2> QED BY <2>3, <2>6
<1> QED BY <1>1

(* The running sums of the keys along a queue.                             *)
LEMMA SumsExist ==
    ASSUME NEW N \in Nat, NEW g, \A n \in 1 .. N : g[n] \in Nat
    PROVE  \E t \in [0 .. N -> Nat] :
               t[0] = 0 /\ \A n \in 1 .. N : t[n] = t[n - 1] + g[n]
<1> DEFINE Sums(n) == {t \in [0 .. n -> Nat] :
                           t[0] = 0 /\ \A m \in 1 .. n : t[m] = t[m - 1] + g[m]}
           T == {n \in 0 .. N : Sums(n) # {}}
<1>1. 0 \in T
  <2> DEFINE t == [n \in 0 .. 0 |-> 0]
  <2>1. t \in [0 .. 0 -> Nat] /\ t[0] = 0 /\ \A m \in 1 .. 0 : t[m] = t[m - 1] + g[m]
    OBVIOUS
  <2>2. t \in Sums(0)
    BY <2>1
  <2> HIDE DEF Sums
  <2> QED BY <2>2
<1>2. ASSUME NEW n \in 0 .. N - 1, n \in T
      PROVE  n + 1 \in T
  <2>1. PICK t \in [0 .. n -> Nat] :
            t[0] = 0 /\ \A m \in 1 .. n : t[m] = t[m - 1] + g[m]
    BY <1>2
  <2> DEFINE u == [m \in 0 .. n + 1 |-> IF m = n + 1 THEN t[n] + g[n + 1] ELSE t[m]]
  <2>2. n + 1 \in 1 .. N /\ n \in 0 .. n /\ g[n + 1] \in Nat /\ t[n] \in Nat
    OBVIOUS
  <2>3. \A m \in 0 .. n : m \in 0 .. n + 1 /\ m # n + 1
    BY <2>2
  <2>4. u \in [0 .. n + 1 -> Nat]
    <3>1. \A m \in 0 .. n + 1 : m # n + 1 => m \in 0 .. n
      BY <2>2
    <3> QED BY <2>1, <2>2, <3>1
  <2>5. \A m \in 0 .. n : u[m] = t[m]
    BY <2>3
  <2>6. u[n + 1] = t[n] + g[n + 1]
    BY <2>2
  <2>7. \A m \in 1 .. n + 1 : u[m] = u[m - 1] + g[m]
    <3> SUFFICES ASSUME NEW m \in 1 .. n + 1 PROVE u[m] = u[m - 1] + g[m]
      OBVIOUS
    <3> HIDE DEF u
    <3>1. CASE m = n + 1
      <4>1. m - 1 = n
        BY <3>1, <2>2
      <4> QED BY <3>1, <4>1, <2>2, <2>5, <2>6
    <3>2. CASE m # n + 1
      <4>1. m \in 1 .. n /\ m \in 0 .. n /\ m - 1 \in 0 .. n
        BY <3>2, <2>2
      <4> QED BY <4>1, <2>1, <2>5
    <3> QED BY <3>1, <3>2
  <2>8. u[0] = 0
    BY <2>1, <2>2, <2>5
  <2> HIDE DEF u
  <2>9. u \in Sums(n + 1)
    BY <2>4, <2>7, <2>8
  <2>10. n + 1 \in 0 .. N
    BY <2>2
  <2> HIDE DEF Sums
  <2> QED BY <2>9, <2>10
<1>3. N \in T
  <2> HIDE DEF T
  <2>1. 0 .. N \subseteq T
    BY <1>1, <1>2, Induct
  <2> QED BY <2>1
<1> QED BY <1>3

LEMMA InsertAtShape ==
    ASSUME NEW S, NEW q \in Seq(S), NEW e \in S, NEW i \in 1 .. Len(q) + 1
    PROVE  /\ InsertAt(q, i, e) \in Seq(S)
           /\ Len(InsertAt(q, i, e)) = Len(q) + 1
           /\ \A j \in 1 .. Len(q) + 1 : InsertAt(q, i, e)[j] =
                  IF j < i THEN q[j] ELSE IF j = i THEN e ELSE q[j - 1]
<1> DEFINE a == SubSeq(q, 1, i - 1)
           b == SubSeq(q, i, Len(q))
<1>1. Len(q) \in Nat /\ i \in Int /\ \A j \in 1 .. Len(q) : q[j] \in S
  BY LenProperties, ElementOfSeq
<1>2. /\ a \in Seq(S) /\ Len(a) = i - 1
      /\ \A j \in 1 .. i - 1 : a[j] = q[j]
  BY <1>1, SubSeqProperties, \A j \in 1 .. i - 1 : q[j] \in S
<1>3. /\ b \in Seq(S) /\ Len(b) = Len(q) - i + 1
      /\ \A j \in 1 .. Len(q) - i + 1 : b[j] = q[i + j - 1]
  BY <1>1, SubSeqProperties, \A j \in i .. Len(q) : q[j] \in S
<1>4. /\ <<e>> \in Seq(S) /\ Len(<<e>>) = 1 /\ <<e>>[1] = e
  OBVIOUS
<1>5. /\ a \o <<e>> \in Seq(S) /\ Len(a \o <<e>>) = i
      /\ \A j \in 1 .. i : (a \o <<e>>)[j] = IF j < i THEN q[j] ELSE e
  BY <1>1, <1>2, <1>4, ConcatProperties
<1> DEFINE c == a \o <<e>>
<1>6. /\ c \in Seq(S) /\ Len(c) = i
      /\ \A j \in 1 .. i : c[j] = IF j < i THEN q[j] ELSE e
  BY <1>5
<1> HIDE DEF a, b, c
<1>7. /\ c \o b \in Seq(S)
      /\ Len(c \o b) = Len(c) + Len(b)
      /\ \A j \in 1 .. Len(c) + Len(b) :
             (c \o b)[j] = IF j <= Len(c) THEN c[j] ELSE b[j - Len(c)]
  BY <1>3, <1>6, ConcatProperties
<1>8. Len(c) + Len(b) = Len(q) + 1
  BY <1>1, <1>3, <1>6
<1>9. InsertAt(q, i, e) = c \o b
  BY DEF InsertAt, a, b, c
<1>10. ASSUME NEW j \in 1 .. Len(q) + 1
       PROVE  (c \o b)[j] = IF j < i THEN q[j] ELSE IF j = i THEN e ELSE q[j - 1]
  <2>1. CASE j <= i
    BY <2>1, <1>1, <1>6, <1>7, <1>8
  <2>2. CASE j > i
    <3>1. j - i \in 1 .. Len(q) - i + 1 /\ i + (j - i) - 1 = j - 1
      BY <2>2, <1>1
    <3>2. b[j - i] = q[j - 1]
      BY <3>1, <1>3
    <3> QED BY <3>2, <2>2, <1>1, <1>6, <1>7, <1>8
  <2>3. j <= i \/ j > i
    BY <1>1
  <2> QED BY <2>1, <2>2, <2>3
<1> QED BY <1>7, <1>8, <1>9, <1>10

LEMMA RemoveAtShape ==
    ASSUME NEW S, NEW q \in Seq(S), NEW i \in 1 .. Len(q)
    PROVE  /\ RemoveAt(q, i) \in Seq(S)
           /\ Len(RemoveAt(q, i)) = Len(q) - 1
           /\ \A j \in 1 .. Len(q) - 1 : RemoveAt(q, i)[j] =
                  IF j < i THEN q[j] ELSE q[j + 1]
<1> DEFINE a == SubSeq(q, 1, i - 1)
           b == SubSeq(q, i + 1, Len(q))
<1>1. Len(q) \in Nat /\ i \in Int /\ \A j \in 1 .. Len(q) : q[j] \in S
  BY LenProperties, ElementOfSeq
<1>2. /\ a \in Seq(S) /\ Len(a) = i - 1
      /\ \A j \in 1 .. i - 1 : a[j] = q[j]
  BY <1>1, SubSeqProperties, \A j \in 1 .. i - 1 : q[j] \in S
<1>3. /\ b \in Seq(S) /\ Len(b) = Len(q) - i
      /\ \A j \in 1 .. Len(q) - i : b[j] = q[i + j]
  BY <1>1, SubSeqProperties, \A j \in i + 1 .. Len(q) : q[j] \in S
<1> HIDE DEF a, b
<1>4. /\ a \o b \in Seq(S)
      /\ Len(a \o b) = Len(a) + Len(b)
      /\ \A j \in 1 .. Len(a) + Len(b) :
             (a \o b)[j] = IF j <= Len(a) THEN a[j] ELSE b[j - Len(a)]
  BY <1>2, <1>3, ConcatProperties
<1>5. Len(a) + Len(b) = Len(q) - 1
  BY <1>1, <1>2, <1>3
<1>6. ASSUME NEW j \in 1 .. Len(q) - 1
      PROVE  (a \o b)[j] = IF j < i THEN q[j] ELSE q[j + 1]
  <2>1. CASE j < i
    BY <2>1, <1>1, <1>2, <1>4, <1>5
  <2>2. CASE j >= i
    <3>1. j - (i - 1) \in 1 .. Len(q) - i /\ i + (j - (i - 1)) = j + 1
      BY <2>2, <1>1
    <3>2. b[j - (i - 1)] = q[j + 1]
      BY <3>1, <1>3
    <3> QED BY <3>2, <2>2, <1>1, <1>2, <1>4, <1>5
  <2>3. j < i \/ j >= i
    BY <1>1
  <2> QED BY <2>1, <2>2, <2>3
<1>7. RemoveAt(q, i) = a \o b
  BY DEF RemoveAt, a, b
<1> QED BY <1>4, <1>5, <1>6, <1>7

-----------------------------------------------------------------------------
(* The same facts in terms of the set a queue holds.                       *)

LEMMA InsertAtHolds ==
    ASSUME NEW S, NEW T, NEW q \in Seq(S), Holds(q, T),
           NEW e \in S, e \notin T, NEW i \in 1 .. Len(q) + 1
    PROVE  /\ InsertAt(q, i, e) \in Seq(S)
           /\ Len(InsertAt(q, i, e)) = Len(q) + 1
           /\ Holds(InsertAt(q, i, e), T \cup {e})
<1> DEFINE r == InsertAt(q, i, e)
<1>1. /\ r \in Seq(S) /\ Len(r) = Len(q) + 1
      /\ \A j \in 1 .. Len(q) + 1 : r[j] =
             IF j < i THEN q[j] ELSE IF j = i THEN e ELSE q[j - 1]
  BY InsertAtShape
<1>2. /\ Len(q) \in Nat /\ DOMAIN q = 1 .. Len(q)
      /\ DOMAIN r = 1 .. Len(q) + 1
  BY <1>1, LenProperties
<1>3. /\ \A j \in 1 .. Len(q) : q[j] \in T /\ q[j] # e
      /\ \A j, m \in 1 .. Len(q) : q[j] = q[m] => j = m
  BY <1>2 DEF Holds, ToSet, IsInjective
<1> HIDE DEF r
<1>4. \A j, m \in 1 .. Len(q) + 1 : r[j] = r[m] => j = m
  <2> SUFFICES ASSUME NEW j \in 1 .. Len(q) + 1, NEW m \in 1 .. Len(q) + 1,
                      r[j] = r[m]
               PROVE  j = m
    OBVIOUS
  <2>1. /\ j < i => r[j] = q[j] /\ j \in 1 .. Len(q)
        /\ j = i => r[j] = e
        /\ j > i => r[j] = q[j - 1] /\ j - 1 \in 1 .. Len(q)
    BY <1>1, <1>2
  <2>2. /\ m < i => r[m] = q[m] /\ m \in 1 .. Len(q)
        /\ m = i => r[m] = e
        /\ m > i => r[m] = q[m - 1] /\ m - 1 \in 1 .. Len(q)
    BY <1>1, <1>2
  <2> QED BY <2>1, <2>2, <1>2, <1>3
<1>5. ToSet(r) \subseteq T \cup {e}
  <2> SUFFICES ASSUME NEW j \in 1 .. Len(q) + 1 PROVE r[j] \in T \cup {e}
    BY <1>2 DEF ToSet
  <2>1. \/ j < i /\ j \in 1 .. Len(q) /\ r[j] = q[j]
        \/ r[j] = e
        \/ j > i /\ j - 1 \in 1 .. Len(q) /\ r[j] = q[j - 1]
    BY <1>1, <1>2
  <2> QED BY <2>1, <1>3
<1>6. T \cup {e} \subseteq ToSet(r)
  <2>1. e \in ToSet(r)
    BY <1>1, <1>2 DEF ToSet
  <2>2. ASSUME NEW j \in 1 .. Len(q) PROVE q[j] \in ToSet(r)
    <3>1. CASE j < i
      BY <3>1, <1>1, <1>2 DEF ToSet
    <3>2. CASE j >= i
      <4>1. j + 1 \in DOMAIN r /\ r[j + 1] = q[j]
        BY <3>2, <1>1, <1>2
      <4> QED BY <4>1 DEF ToSet
    <3> QED BY <3>1, <3>2, <1>2
  <2> QED BY <2>1, <2>2, <1>2 DEF Holds, ToSet
<1> QED BY <1>1, <1>2, <1>4, <1>5, <1>6 DEF Holds, IsInjective, r

LEMMA RemoveAtHolds ==
    ASSUME NEW S, NEW T, NEW q \in Seq(S), Holds(q, T), NEW i \in 1 .. Len(q)
    PROVE  /\ RemoveAt(q, i) \in Seq(S)
           /\ Len(RemoveAt(q, i)) = Len(q) - 1
           /\ Holds(RemoveAt(q, i), T \ {q[i]})
<1> DEFINE r == RemoveAt(q, i)
<1>1. /\ r \in Seq(S) /\ Len(r) = Len(q) - 1
      /\ \A j \in 1 .. Len(q) - 1 : r[j] = IF j < i THEN q[j] ELSE q[j + 1]
  BY RemoveAtShape
<1>2. /\ Len(q) \in Nat /\ DOMAIN q = 1 .. Len(q)
      /\ Len(r) \in Nat /\ DOMAIN r = 1 .. Len(q) - 1
  BY <1>1, LenProperties
<1>3. /\ \A j \in 1 .. Len(q) : q[j] \in T
      /\ \A j, m \in 1 .. Len(q) : q[j] = q[m] => j = m
  BY <1>2 DEF Holds, ToSet, IsInjective
<1> HIDE DEF r
<1>4. ASSUME NEW j \in 1 .. Len(q) - 1
      PROVE  \/ j < i /\ r[j] = q[j] /\ j \in 1 .. Len(q)
             \/ j >= i /\ r[j] = q[j + 1] /\ j + 1 \in 1 .. Len(q)
  BY <1>1, <1>2
<1>5. \A j, m \in 1 .. Len(q) - 1 : r[j] = r[m] => j = m
  <2> SUFFICES ASSUME NEW j \in 1 .. Len(q) - 1, NEW m \in 1 .. Len(q) - 1,
                      r[j] = r[m]
               PROVE  j = m
    OBVIOUS
  <2> QED BY <1>2, <1>3, <1>4
<1>6. ToSet(r) \subseteq T \ {q[i]}
  <2> SUFFICES ASSUME NEW j \in 1 .. Len(q) - 1 PROVE r[j] \in T \ {q[i]}
    BY <1>2 DEF ToSet
  <2> QED BY <1>2, <1>3, <1>4
<1>7. ASSUME NEW j \in 1 .. Len(q), j # i PROVE q[j] \in ToSet(r)
  <2>1. CASE j < i
    BY <2>1, <1>1, <1>2 DEF ToSet
  <2>2. CASE j > i
    <3>1. j - 1 \in DOMAIN r /\ r[j - 1] = q[j]
      BY <2>2, <1>1, <1>2
    <3> QED BY <3>1 DEF ToSet
  <2> QED BY <1>7, <2>1, <2>2, <1>2
<1>8. T \ {q[i]} \subseteq ToSet(r)
  BY <1>2, <1>7 DEF Holds, ToSet
<1> QED BY <1>1, <1>2, <1>5, <1>6, <1>8 DEF Holds, IsInjective, r

(* dequeue takes exactly the process it is given out of its queue.         *)
LEMMA DequeueHolds ==
    ASSUME NEW S, NEW T, NEW q \in Seq(S), Holds(q, T), NEW p \in T
    PROVE  /\ Dequeue(q, p) \in Seq(S)
           /\ Len(Dequeue(q, p)) = Len(q) - 1
           /\ Holds(Dequeue(q, p), T \ {p})
<1> DEFINE i == CHOOSE j \in DOMAIN q : q[j] = p
<1>1. i \in DOMAIN q /\ q[i] = p
  BY DEF Holds, ToSet
<1>2. DOMAIN q = 1 .. Len(q)
  BY LenProperties
<1> HIDE DEF i
<1>3. /\ RemoveAt(q, i) \in Seq(S)
      /\ Len(RemoveAt(q, i)) = Len(q) - 1
      /\ Holds(RemoveAt(q, i), T \ {p})
  BY <1>1, <1>2, RemoveAtHolds
<1> QED BY <1>3 DEF Dequeue, i

(* insert puts the process at a place before which all keys are smaller    *)
(* and from which on, in an ordered queue, none is.                        *)
LEMMA InsertPlace ==
    ASSUME NEW S, NEW q \in Seq(S), NEW k \in [S -> Int], NEW key \in Int
    PROVE  LET i == Min(KeyPlaces(q, key, k))
           IN  /\ i \in 1 .. Len(q) + 1
               /\ i <= Len(q) => k[q[i]] >= key
               /\ \A j \in 1 .. Len(q) : j < i => k[q[j]] < key
<1> DEFINE P == KeyPlaces(q, key, k)
           i == Min(P)
<1>1. Len(q) \in Nat /\ \A j \in 1 .. Len(q) : q[j] \in S /\ k[q[j]] \in Int
  BY LenProperties, ElementOfSeq
<1>2. P \subseteq Nat /\ Len(q) + 1 \in P
  BY <1>1 DEF KeyPlaces
<1>3. i \in P /\ \A j \in P : i <= j
  <2> HIDE DEF P
  <2> QED BY <1>2, MinOfNats
<1>4. i \in 1 .. Len(q) + 1 /\ (i <= Len(q) => k[q[i]] >= key)
  BY <1>3 DEF KeyPlaces
<1>5. ASSUME NEW j \in 1 .. Len(q), j < i PROVE k[q[j]] < key
  <2>1. j \notin P
    <3> HIDE DEF P, i
    <3> QED BY <1>1, <1>3, <1>4, <1>5
  <2>2. ~(k[q[j]] >= key)
    BY <2>1, <1>1 DEF KeyPlaces
  <2> QED BY <2>2, <1>1
<1> QED BY <1>4, <1>5

LEMMA InsertHolds ==
    ASSUME NEW S, NEW T, NEW q \in Seq(S), Holds(q, T),
           NEW k \in [S -> Int], NEW key \in Int, NEW p \in S, p \notin T
    PROVE  /\ Insert(q, p, key, k) \in Seq(S)
           /\ Len(Insert(q, p, key, k)) = Len(q) + 1
           /\ Holds(Insert(q, p, key, k), T \cup {p})
<1> DEFINE i == Min(KeyPlaces(q, key, k))
<1>1. i \in 1 .. Len(q) + 1
  BY InsertPlace
<1> HIDE DEF i
<1>2. /\ InsertAt(q, i, p) \in Seq(S)
      /\ Len(InsertAt(q, i, p)) = Len(q) + 1
      /\ Holds(InsertAt(q, i, p), T \cup {p})
  BY <1>1, InsertAtHolds
<1> QED BY <1>2 DEF Insert, i

LEMMA LastFrontHolds ==
    ASSUME NEW S, NEW T, NEW q \in Seq(S), Holds(q, T), T # {}
    PROVE  /\ Last(q) \in T /\ Last(q) \in S
           /\ Front(q) \in Seq(S)
           /\ Holds(Front(q), T \ {Last(q)})
<1>1. /\ Len(q) \in Nat /\ DOMAIN q = 1 .. Len(q)
      /\ \A j \in 1 .. Len(q) : q[j] \in S
  BY LenProperties, ElementOfSeq
<1>2. Len(q) \in 1 .. Len(q)
  BY <1>1 DEF Holds, ToSet
<1>3. /\ RemoveAt(q, Len(q)) \in Seq(S)
      /\ Len(RemoveAt(q, Len(q))) = Len(q) - 1
      /\ Holds(RemoveAt(q, Len(q)), T \ {q[Len(q)]})
      /\ \A j \in 1 .. Len(q) - 1 : RemoveAt(q, Len(q))[j] =
             IF j < Len(q) THEN q[j] ELSE q[j + 1]
  BY <1>2, RemoveAtHolds, RemoveAtShape
<1>4. /\ Front(q) \in Seq(S) /\ Len(Front(q)) = Len(q) - 1
      /\ \A j \in 1 .. Len(q) - 1 : Front(q)[j] = q[j]
  <2>1. /\ SubSeq(q, 1, Len(q) - 1) \in Seq(S)
        /\ Len(SubSeq(q, 1, Len(q) - 1)) =
              IF 1 <= Len(q) - 1 THEN (Len(q) - 1) - 1 + 1 ELSE 0
        /\ \A j \in 1 .. (Len(q) - 1) - 1 + 1 :
               SubSeq(q, 1, Len(q) - 1)[j] = q[1 + j - 1]
    BY <1>1, SubSeqProperties, \A j \in 1 .. Len(q) - 1 : q[j] \in S,
       1 \in Int, Len(q) - 1 \in Int
  <2> QED BY <2>1, <1>1, <1>2 DEF Front
<1>5. Front(q) = RemoveAt(q, Len(q))
  BY <1>1, <1>3, <1>4, SeqEqual
<1>6. Last(q) \in T /\ Last(q) = q[Len(q)]
  BY <1>1, <1>2 DEF Last, Holds, ToSet
<1> QED BY <1>1, <1>2, <1>3, <1>4, <1>5, <1>6

LEMMA HeadTailHolds ==
    ASSUME NEW S, NEW T, NEW q \in Seq(S), Holds(q, T), q # <<>>
    PROVE  /\ Head(q) \in T /\ Head(q) \in S
           /\ Tail(q) \in Seq(S)
           /\ Len(Tail(q)) = Len(q) - 1
           /\ Holds(Tail(q), T \ {Head(q)})
<1>1. /\ Len(q) \in Nat /\ DOMAIN q = 1 .. Len(q)
      /\ \A j \in 1 .. Len(q) : q[j] \in S
  BY LenProperties, ElementOfSeq
<1>2. 1 \in 1 .. Len(q)
  BY <1>1, EmptySeq
<1>3. /\ RemoveAt(q, 1) \in Seq(S)
      /\ Len(RemoveAt(q, 1)) = Len(q) - 1
      /\ Holds(RemoveAt(q, 1), T \ {q[1]})
      /\ \A j \in 1 .. Len(q) - 1 : RemoveAt(q, 1)[j] =
             IF j < 1 THEN q[j] ELSE q[j + 1]
  BY <1>2, RemoveAtHolds, RemoveAtShape
<1>4. /\ Tail(q) \in Seq(S) /\ Len(Tail(q)) = Len(q) - 1
      /\ \A j \in 1 .. Len(q) - 1 : Tail(q)[j] = q[j + 1]
      /\ Head(q) = q[1]
  BY <1>1, HeadTailProperties
<1>5. Tail(q) = RemoveAt(q, 1)
  BY <1>1, <1>3, <1>4, SeqEqual
<1>6. q[1] \in T /\ q[1] \in S
  BY <1>1, <1>2 DEF Holds, ToSet
<1> QED BY <1>3, <1>4, <1>5, <1>6

LEMMA AppendHolds ==
    ASSUME NEW S, NEW T, NEW q \in Seq(S), Holds(q, T), NEW p \in S, p \notin T
    PROVE  /\ Append(q, p) \in Seq(S)
           /\ Len(Append(q, p)) = Len(q) + 1
           /\ Holds(Append(q, p), T \cup {p})
<1> DEFINE n == Len(q) + 1
<1>1. Len(q) \in Nat /\ n \in 1 .. Len(q) + 1 /\ n = Len(q) + 1
  BY LenProperties
<1> HIDE DEF n
<1>2. /\ InsertAt(q, n, p) \in Seq(S)
      /\ Len(InsertAt(q, n, p)) = Len(q) + 1
      /\ Holds(InsertAt(q, n, p), T \cup {p})
      /\ \A j \in 1 .. Len(q) + 1 : InsertAt(q, n, p)[j] =
             IF j < n THEN q[j] ELSE IF j = n THEN p ELSE q[j - 1]
  <2>1. /\ InsertAt(q, n, p) \in Seq(S)
        /\ Len(InsertAt(q, n, p)) = Len(q) + 1
        /\ Holds(InsertAt(q, n, p), T \cup {p})
    BY <1>1, InsertAtHolds
  <2>2. \A j \in 1 .. Len(q) + 1 : InsertAt(q, n, p)[j] =
            IF j < n THEN q[j] ELSE IF j = n THEN p ELSE q[j - 1]
    BY <1>1, InsertAtShape, SMTT(30)
  <2> QED BY <2>1, <2>2
<1>3. /\ Append(q, p) \in Seq(S) /\ Len(Append(q, p)) = Len(q) + 1
      /\ \A j \in 1 .. Len(q) : Append(q, p)[j] = q[j]
      /\ Append(q, p)[Len(q) + 1] = p
  BY AppendProperties
<1>4. Append(q, p) = InsertAt(q, n, p)
  <2>1. \A j \in 1 .. Len(q) + 1 : Append(q, p)[j] = InsertAt(q, n, p)[j]
    BY <1>1, <1>2, <1>3
  <2> QED BY <2>1, <1>2, <1>3, SeqEqual
<1> QED BY <1>2, <1>4

-----------------------------------------------------------------------------
(* The order of the keys.                                                  *)

(* insert keeps an ordered queue ordered.                                  *)
LEMMA InsertOrdered ==
    ASSUME NEW S, NEW T, NEW q \in Seq(S), Holds(q, T),
           NEW k \in [S -> Int], NEW key \in Int, NEW p \in S, p \notin T,
           Ordered(q, k)
    PROVE  Ordered(Insert(q, p, key, k), [k EXCEPT ![p] = key])
<1> DEFINE i == Min(KeyPlaces(q, key, k))
           r == InsertAt(q, i, p)
           l == [k EXCEPT ![p] = key]
<1>1. /\ Len(q) \in Nat /\ DOMAIN q = 1 .. Len(q)
      /\ \A j \in 1 .. Len(q) : q[j] \in S /\ q[j] # p /\ k[q[j]] \in Int
  BY LenProperties, ElementOfSeq DEF Holds, ToSet
<1>2. /\ i \in 1 .. Len(q) + 1
      /\ i <= Len(q) => k[q[i]] >= key
      /\ \A j \in 1 .. Len(q) : j < i => k[q[j]] < key
  BY InsertPlace
<1> HIDE DEF i
<1>3. /\ r \in Seq(S) /\ Len(r) = Len(q) + 1
      /\ \A j \in 1 .. Len(q) + 1 : r[j] =
             IF j < i THEN q[j] ELSE IF j = i THEN p ELSE q[j - 1]
  BY <1>2, InsertAtShape
<1>4. DOMAIN r = 1 .. Len(q) + 1
  BY <1>3, LenProperties
<1>5. l[p] = key /\ \A j \in 1 .. Len(q) : l[q[j]] = k[q[j]]
  BY <1>1
<1>6. \A j, m \in 1 .. Len(q) : j < m => k[q[j]] <= k[q[m]]
  BY <1>1 DEF Ordered
<1> HIDE DEF r, l
<1>7. \A j \in 1 .. Len(q) : j >= i => k[q[j]] >= key
  <2> SUFFICES ASSUME NEW j \in 1 .. Len(q), j >= i PROVE k[q[j]] >= key
    OBVIOUS
  <2>1. i \in 1 .. Len(q) /\ k[q[i]] >= key
    BY <1>1, <1>2
  <2>2. j = i \/ k[q[i]] <= k[q[j]]
    BY <2>1, <1>6, <1>1
  <2> QED BY <2>1, <2>2, <1>1
<1>8. ASSUME NEW j \in 1 .. Len(q) + 1, NEW m \in 1 .. Len(q) + 1, j < m
      PROVE  l[r[j]] <= l[r[m]]
  <2>1. CASE m < i
    <3>1. r[j] = q[j] /\ r[m] = q[m] /\ j \in 1 .. Len(q) /\ m \in 1 .. Len(q)
      BY <2>1, <1>1, <1>2, <1>3, <1>8
    <3> QED BY <3>1, <1>5, <1>6, <1>8
  <2>2. CASE m = i
    <3>1. r[j] = q[j] /\ r[m] = p /\ j \in 1 .. Len(q) /\ j < i
      BY <2>2, <1>1, <1>2, <1>3, <1>8
    <3> QED BY <3>1, <1>1, <1>2, <1>5
  <2>3. CASE m > i
    <3>1. r[m] = q[m - 1] /\ m - 1 \in 1 .. Len(q) /\ m - 1 >= i
      BY <2>3, <1>1, <1>2, <1>3
    <3>2. CASE j < i
      <4>1. r[j] = q[j] /\ j \in 1 .. Len(q) /\ j < m - 1
        BY <3>1, <3>2, <1>1, <1>2, <1>3
      <4> QED BY <3>1, <4>1, <1>5, <1>6
    <3>3. CASE j = i
      <4>1. r[j] = p
        BY <3>3, <1>3
      <4> QED BY <3>1, <4>1, <1>1, <1>5, <1>7
    <3>4. CASE j > i
      <4>1. r[j] = q[j - 1] /\ j - 1 \in 1 .. Len(q) /\ j - 1 < m - 1
        BY <3>4, <1>1, <1>2, <1>3, <1>8
      <4> QED BY <3>1, <4>1, <1>5, <1>6
    <3>5. j < i \/ j = i \/ j > i
      BY <1>2
    <3> QED BY <3>2, <3>3, <3>4, <3>5
  <2>4. m < i \/ m = i \/ m > i
    BY <1>2
  <2> QED BY <2>1, <2>2, <2>3, <2>4
<1>9. Ordered(r, l)
  BY <1>4, <1>8 DEF Ordered
<1> QED BY <1>9 DEF Insert, r, i, l

LEMMA RemoveAtOrdered ==
    ASSUME NEW S, NEW q \in Seq(S), NEW i \in 1 .. Len(q),
           NEW k \in [S -> Int], Ordered(q, k)
    PROVE  Ordered(RemoveAt(q, i), k)
<1> DEFINE r == RemoveAt(q, i)
<1>1. /\ r \in Seq(S) /\ Len(r) = Len(q) - 1
      /\ \A j \in 1 .. Len(q) - 1 : r[j] = IF j < i THEN q[j] ELSE q[j + 1]
  BY RemoveAtShape
<1>2. /\ Len(q) \in Nat /\ DOMAIN q = 1 .. Len(q)
      /\ DOMAIN r = 1 .. Len(q) - 1
  BY <1>1, LenProperties
<1>3. \A j, m \in 1 .. Len(q) : j < m => k[q[j]] <= k[q[m]]
  BY <1>2 DEF Ordered
<1> HIDE DEF r
<1>4. ASSUME NEW j \in 1 .. Len(q) - 1
      PROVE  \E n \in 1 .. Len(q) : /\ r[j] = q[n]
                                    /\ n = IF j < i THEN j ELSE j + 1
  <2>1. r[j] = IF j < i THEN q[j] ELSE q[j + 1]
    BY <1>1
  <2>2. j \in 1 .. Len(q) /\ j + 1 \in 1 .. Len(q)
    BY <1>2
  <2>3. CASE j < i
    BY <2>1, <2>2, <2>3
  <2>4. CASE ~(j < i)
    BY <2>1, <2>2, <2>4
  <2> QED BY <2>3, <2>4
<1>5. ASSUME NEW j \in 1 .. Len(q) - 1, NEW m \in 1 .. Len(q) - 1, j < m
      PROVE  k[r[j]] <= k[r[m]]
  <2>1. PICK a \in 1 .. Len(q) : r[j] = q[a] /\ a = IF j < i THEN j ELSE j + 1
    BY <1>4
  <2>2. PICK b \in 1 .. Len(q) : r[m] = q[b] /\ b = IF m < i THEN m ELSE m + 1
    BY <1>4
  <2>3. a < b
    BY <2>1, <2>2, <1>5
  <2> QED BY <2>1, <2>2, <2>3, <1>3
<1> QED BY <1>2, <1>5 DEF Ordered, r

LEMMA DequeueOrdered ==
    ASSUME NEW S, NEW T, NEW q \in Seq(S), Holds(q, T), NEW p \in T,
           NEW k \in [S -> Int], Ordered(q, k)
    PROVE  Ordered(Dequeue(q, p), k)
<1> DEFINE i == CHOOSE j \in DOMAIN q : q[j] = p
<1>1. i \in DOMAIN q
  BY DEF Holds, ToSet
<1>2. DOMAIN q = 1 .. Len(q)
  BY LenProperties
<1> HIDE DEF i
<1> QED BY <1>1, <1>2, RemoveAtOrdered DEF Dequeue, i

(* The order depends on the keys of the queue's own processes only.        *)
LEMMA OrderedAgrees ==
    ASSUME NEW q, NEW k, NEW l, Ordered(q, k), \A p \in ToSet(q) : l[p] = k[p]
    PROVE  Ordered(q, l)
BY DEF Ordered, ToSet

(* getlast takes the process with the greatest key.                        *)
LEMMA LastIsGreatest ==
    ASSUME NEW S, NEW T, NEW q \in Seq(S), Holds(q, T), T # {},
           NEW k \in [S -> Int], Ordered(q, k)
    PROVE  /\ \A p \in T : k[p] <= k[Last(q)]
           /\ Ordered(Front(q), k)
<1>1. /\ Len(q) \in Nat /\ DOMAIN q = 1 .. Len(q)
      /\ \A j \in 1 .. Len(q) : q[j] \in S /\ k[q[j]] \in Int
  BY LenProperties, ElementOfSeq
<1>2. Len(q) \in 1 .. Len(q)
  BY <1>1 DEF Holds, ToSet
<1>3. \A j, m \in 1 .. Len(q) : j < m => k[q[j]] <= k[q[m]]
  BY <1>1 DEF Ordered
<1>4. \A j \in 1 .. Len(q) : k[q[j]] <= k[q[Len(q)]]
  BY <1>1, <1>2, <1>3
<1>5. \A p \in T : k[p] <= k[Last(q)]
  BY <1>1, <1>4 DEF Last, Holds, ToSet
<1>6. /\ Front(q) \in Seq(S) /\ Len(Front(q)) = Len(q) - 1
      /\ \A j \in 1 .. Len(q) - 1 : Front(q)[j] = q[j]
  <2>1. /\ SubSeq(q, 1, Len(q) - 1) \in Seq(S)
        /\ Len(SubSeq(q, 1, Len(q) - 1)) =
              IF 1 <= Len(q) - 1 THEN (Len(q) - 1) - 1 + 1 ELSE 0
        /\ \A j \in 1 .. (Len(q) - 1) - 1 + 1 :
               SubSeq(q, 1, Len(q) - 1)[j] = q[1 + j - 1]
    BY <1>1, SubSeqProperties, \A j \in 1 .. Len(q) - 1 : q[j] \in S,
       1 \in Int, Len(q) - 1 \in Int
  <2> QED BY <2>1, <1>1, <1>2 DEF Front
<1>7. DOMAIN Front(q) = 1 .. Len(q) - 1
  BY <1>6, LenProperties
<1>8. ASSUME NEW j \in 1 .. Len(q) - 1, NEW m \in 1 .. Len(q) - 1, j < m
      PROVE  k[Front(q)[j]] <= k[Front(q)[m]]
  <2>1. j \in 1 .. Len(q) /\ m \in 1 .. Len(q)
    BY <1>1
  <2> QED BY <2>1, <1>3, <1>6, <1>8
<1>9. Ordered(Front(q), k)
  BY <1>7, <1>8 DEF Ordered
<1> QED BY <1>5, <1>9

=============================================================================
