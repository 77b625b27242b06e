----------------------------- MODULE Tty_proofs -----------------------------
(***************************************************************************)
(* Theorems about the console: its types, that the two semaphores count    *)
(* the places of the two rings, that the input side implements InputLine,  *)
(* and that the line shows every process's text in order.                  *)
(***************************************************************************)
EXTENDS Tty, QueueOps_proofs, FiniteSetTheorems

(***************************************************************************)
(* Places of a ring.                                                       *)
(***************************************************************************)

LEMMA ModFacts ==
    ASSUME NEW L \in Nat \ {0}, NEW a \in Int
    PROVE  /\ a % L \in 0 .. L - 1 /\ a % L \in Int
           /\ \E k \in Int : a = L * k + (a % L)
<1>1. a = L * (a \div L) + (a % L) /\ a \div L \in Int /\ a % L \in 0 .. L - 1
  OBVIOUS
<1> DEFINE k == a \div L
<1>2. k \in Int /\ a = L * k + (a % L)
  BY <1>1
<1> HIDE DEF k
<1>3. \E j \in Int : a = L * j + (a % L)
  BY <1>2, Zenon
<1>4. a % L \in Int
  OBVIOUS
<1> QED BY <1>1, <1>3, <1>4, Zenon

LEMMA ModIs ==
    ASSUME NEW L \in Nat \ {0}, NEW a \in Int, NEW k \in Int, NEW r \in 0 .. L - 1,
           a = L * k + r
    PROVE  a % L = r
OBVIOUS

(* Full turns around the ring do not count.                                *)
LEMMA ModTurns ==
    ASSUME NEW L \in Nat \ {0}, NEW a \in Int, NEW k \in Int
    PROVE  (a + L * k) % L = a % L
<1>1. PICK j \in Int : a = L * j + (a % L)
  BY ModFacts
<1>2. a + L * k = L * (j + k) + (a % L) /\ a + L * k \in Int /\ j + k \in Int
  BY <1>1
<1>3. a % L \in 0 .. L - 1
  BY ModFacts
<1> QED BY <1>2, <1>3, ModIs

(* Where one gets to from a place of the ring.                              *)
LEMMA ModShift ==
    ASSUME NEW L \in Nat \ {0}, NEW a \in Int, NEW b \in Int
    PROVE  ((a % L) + b) % L = (a + b) % L
<1> DEFINE m == a % L
<1>1. m \in Int
  BY ModFacts
<1>2. PICK k \in Int : a = L * k + m
  BY ModFacts
<1> HIDE DEF m
<1>3. a + b = (m + b) + L * k /\ m + b \in Int
  BY <1>1, <1>2
<1>4. ((m + b) + L * k) % L = (m + b) % L
  BY <1>3, ModTurns
<1> QED BY <1>3, <1>4 DEF m

LEMMA ModZero ==
    ASSUME NEW L \in Nat \ {0}, NEW a \in Int, NEW b \in Int, a % L = 0
    PROVE  (a + b) % L = b % L
<1>1. PICK k \in Int : a = L * k + (a % L)
  BY ModFacts
<1>2. a + b = b + L * k
  BY <1>1
<1> QED BY <1>2, ModTurns

(* Less than a turn apart are different places.                            *)
LEMMA ModApart ==
    ASSUME NEW L \in Nat \ {0}, NEW a \in Int, NEW b \in Int, a % L = b % L
    PROVE  a = b \/ a - b >= L \/ b - a >= L
<1>1. PICK k \in Int : a = L * k + (a % L)
  BY ModFacts
<1>2. PICK j \in Int : b = L * j + (b % L)
  BY ModFacts
<1>3. a % L \in Int
  BY ModFacts
<1> DEFINE d == k - j
<1>4. d \in Int /\ a - b = L * d
  BY <1>1, <1>2, <1>3
<1>5. CASE d = 0
  BY <1>4, <1>5
<1>6. CASE d > 0
  <2> HIDE DEF d
  <2>1. L * d >= L
    BY <1>4, <1>6
  <2> QED BY <1>4, <2>1
<1>7. CASE d < 0
  <2> HIDE DEF d
  <2>1. -(L * d) >= L
    BY <1>4, <1>7
  <2>2. b - a = -(L * d)
    BY <1>4
  <2> QED BY <2>1, <2>2
<1> QED BY <1>4, <1>5, <1>6, <1>7
-----------------------------------------------------------------------------
(***************************************************************************)
(* A semaphore and those inside it: the processes at a place from which    *)
(* they have asked for a unit and not used it yet.  Some of them are in    *)
(* the queue, the others have been let go.  For osem they are about to put *)
(* a character, for isem to take one.                                      *)
(***************************************************************************)

PutOps == {"put", "place"}
GetOps == {"get", "peek"}

Inside(at, ops) == {p \in Users : at[p].op \in ops}

SemOK(sem, at, ops) ==
    /\ sem \in [cnt : Int, queue : Seq(Users)]
    /\ Len(sem.queue) = AtLeast0(-sem.cnt)
    /\ \A i, j \in 1 .. Len(sem.queue) : sem.queue[i] = sem.queue[j] => i = j
    /\ \A i \in 1 .. Len(sem.queue) : at[sem.queue[i]].op \in ops

(* The units that nobody has a claim on, or if negative, claims.           *)
Units(sem, at, ops) == sem.cnt + Cardinality(Inside(at, ops))

LEMMA UsersFinite ==
    /\ IsFiniteSet(Users)
    /\ \A at, ops : /\ IsFiniteSet(Inside(at, ops))
                    /\ Cardinality(Inside(at, ops)) \in Nat
<1>1. IsFiniteSet(Users)
  BY TtyAssumption
<1>2. ASSUME NEW at, NEW ops
      PROVE  IsFiniteSet(Inside(at, ops)) /\ Cardinality(Inside(at, ops)) \in Nat
  <2>1. Inside(at, ops) \subseteq Users
    BY DEF Inside
  <2>2. IsFiniteSet(Inside(at, ops))
    BY <1>1, <2>1, FS_Subset
  <2> QED BY <2>2, FS_CardinalityType
<1> QED BY <1>1, <1>2

GoesOn(at, p, r, new) == new = [at EXCEPT ![p] = r]

One(op, ops) == IF op \in ops THEN 1 ELSE 0

(* How many are inside after process p has gone on to another place.       *)
LEMMA InsideMoves ==
    ASSUME NEW at, DOMAIN at = Users, NEW ops, NEW p \in Users, NEW r,
           NEW new, GoesOn(at, p, r, new)
    PROVE  Cardinality(Inside(new, ops)) =
               Cardinality(Inside(at, ops))
                   + One(r.op, ops)
                   - One(at[p].op, ops)
<1> DEFINE S == Inside(at, ops)
           T == Inside(new, ops)
<1>1. IsFiniteSet(S) /\ Cardinality(S) \in Nat
  BY UsersFinite
<1>2. p \in S <=> at[p].op \in ops
  BY DEF Inside
<1>3. p \in T <=> r.op \in ops
  BY DEF Inside, GoesOn
<1>4. T \ {p} = S \ {p}
  BY DEF Inside, GoesOn
<1> HIDE DEF S, T, One
<1>5. CASE r.op \in ops /\ at[p].op \in ops
  <2>1. S = T
    BY <1>2, <1>3, <1>4, <1>5
  <2> QED BY <1>1, <1>5, <2>1 DEF S, T, One
<1>6. CASE r.op \notin ops /\ at[p].op \notin ops
  <2>1. S = T
    BY <1>2, <1>3, <1>4, <1>6
  <2> QED BY <1>1, <1>6, <2>1 DEF S, T, One
<1>7. CASE r.op \in ops /\ at[p].op \notin ops
  <2>1. T = S \cup {p} /\ p \notin S
    BY <1>2, <1>3, <1>4, <1>7
  <2>2. Cardinality(T) = Cardinality(S) + 1
    BY <1>1, <2>1, FS_AddElement
  <2> QED BY <1>1, <1>7, <2>2 DEF S, T, One
<1>8. CASE r.op \notin ops /\ at[p].op \in ops
  <2>1. T = S \ {p} /\ p \in S
    BY <1>2, <1>3, <1>4, <1>8
  <2>2. Cardinality(T) = Cardinality(S) - 1
    BY <1>1, <2>1, FS_RemoveElement
  <2> QED BY <1>1, <1>8, <2>2 DEF S, T, One
<1> QED BY <1>5, <1>6, <1>7, <1>8

(* Those inside that are not in the queue hold a unit each: together with  *)
(* the count they make up the units.                                       *)
LEMMA LetGoCounted ==
    ASSUME NEW sem, NEW at, NEW ops, SemOK(sem, at, ops)
    PROVE  Cardinality({p \in Users : at[p].op \in ops /\ ~Contains(sem.queue, p)})
               = Cardinality(Inside(at, ops)) - AtLeast0(-sem.cnt)
<1> DEFINE q == sem.queue
           S == Inside(at, ops)
           Q == {q[i] : i \in 1 .. Len(q)}
           R == {p \in Users : at[p].op \in ops /\ ~Contains(sem.queue, p)}
<1>1. /\ q \in Seq(Users) /\ Len(q) \in Nat /\ Len(q) = AtLeast0(-sem.cnt)
      /\ \A i \in 1 .. Len(q) : q[i] \in S
  BY DEF SemOK, Inside
<1>2. IsFiniteSet(S) /\ Cardinality(S) \in Nat
  BY UsersFinite
<1>3. R = S \ Q
  BY DEF Inside, Contains
<1>4. IsFiniteSet(Q) /\ Cardinality(Q) = Len(q)
  <2>1. ExistsBijection(1 .. Len(q), Q)
    <3>1. [i \in 1 .. Len(q) |-> q[i]] \in Bijection(1 .. Len(q), Q)
      BY DEF Bijection, Injection, Surjection, IsInjective, SemOK
    <3> QED BY <3>1 DEF ExistsBijection
  <2> DEFINE n == Len(q)
  <2>2. n \in Nat
    BY <1>1
  <2> HIDE DEF n, Q, q
  <2> QED BY <2>1, <2>2, FS_CountingElements, FS_NatBijection DEF n
<1>5. Q \subseteq S
  BY <1>1
<1>6. Cardinality(S \ Q) = Cardinality(S) - Cardinality(S \cap Q)
  BY <1>2, FS_Difference
<1>7. S \cap Q = Q
  BY <1>5
<1> QED BY <1>1, <1>3, <1>4, <1>6, <1>7

(* What the semaphore's own invariant needs of a process that goes on.     *)
LEMMA QueueUndisturbed ==
    ASSUME NEW sem, NEW at, DOMAIN at = Users, NEW ops, SemOK(sem, at, ops),
           NEW p \in Users, NEW r, r.op \in ops \/ ~Contains(sem.queue, p),
           NEW new, GoesOn(at, p, r, new)
    PROVE  SemOK(sem, new, ops)
<1> DEFINE q == sem.queue
<1>1. /\ q \in Seq(Users) /\ Len(q) \in Nat
      /\ \A i \in 1 .. Len(q) : q[i] \in Users /\ at[q[i]].op \in ops
  BY DEF SemOK
<1>2. ASSUME NEW i \in 1 .. Len(q)
      PROVE  new[q[i]].op \in ops
  <2>1. CASE q[i] = p
    BY <1>1, <2>1 DEF Contains, GoesOn
  <2>2. CASE q[i] # p
    BY <1>1, <2>2 DEF GoesOn
  <2> QED BY <2>1, <2>2
<1> QED BY <1>2 DEF SemOK

LEMMA OutsideNotQueued ==
    ASSUME NEW sem, NEW at, NEW ops, SemOK(sem, at, ops),
           NEW p, at[p].op \notin ops
    PROVE  ~Contains(sem.queue, p)
BY DEF SemOK, Contains

(* A process goes on to another place.                                     *)
LEMMA PlaceUnits ==
    ASSUME NEW sem, NEW at, DOMAIN at = Users, NEW ops, SemOK(sem, at, ops),
           NEW p \in Users, NEW r, r.op \in ops \/ ~Contains(sem.queue, p),
           NEW new, GoesOn(at, p, r, new)
    PROVE  /\ SemOK(sem, new, ops)
           /\ Units(sem, new, ops) =
                  Units(sem, at, ops) + One(r.op, ops) - One(at[p].op, ops)
<1>1. SemOK(sem, new, ops)
  BY QueueUndisturbed
<1>2. sem.cnt \in Int /\ Cardinality(Inside(at, ops)) \in Nat
  BY UsersFinite DEF SemOK
<1>3. Cardinality(Inside(new, ops)) =
          Cardinality(Inside(at, ops)) + One(r.op, ops) - One(at[p].op, ops)
  BY InsideMoves
<1>4. One(r.op, ops) \in Int /\ One(at[p].op, ops) \in Int
  BY DEF One
<1> QED BY <1>1, <1>2, <1>3, <1>4 DEF Units

LEMMA StaysOutside ==
    ASSUME NEW sem, NEW at, DOMAIN at = Users, NEW ops, SemOK(sem, at, ops),
           NEW p \in Users, NEW r, at[p].op \notin ops, r.op \notin ops,
           NEW new, GoesOn(at, p, r, new)
    PROVE  /\ SemOK(sem, new, ops)
           /\ Units(sem, new, ops) = Units(sem, at, ops)
<1>1. ~Contains(sem.queue, p)
  BY OutsideNotQueued
<1>2. /\ SemOK(sem, new, ops)
      /\ Units(sem, new, ops) =
             Units(sem, at, ops) + One(r.op, ops) - One(at[p].op, ops)
  BY <1>1, PlaceUnits
<1>3. One(r.op, ops) = 0 /\ One(at[p].op, ops) = 0
  BY DEF One
<1>4. Units(sem, at, ops) \in Int
  BY UsersFinite DEF SemOK, Units
<1> QED BY <1>2, <1>3, <1>4

(* Units that are there are taken.                                         *)
LEMMA TakenUnits ==
    ASSUME NEW sem, NEW at, NEW ops, SemOK(sem, at, ops),
           NEW n \in Nat, n <= AtLeast0(sem.cnt)
    PROVE  /\ SemOK(Taken(sem, n), at, ops)
           /\ Units(Taken(sem, n), at, ops) = Units(sem, at, ops) - n
           /\ Taken(sem, n).cnt = sem.cnt - n
           /\ Taken(sem, n).queue = sem.queue
<1>1. sem.cnt \in Int /\ sem \in [cnt : Int, queue : Seq(Users)]
      /\ Cardinality(Inside(at, ops)) \in Nat
  BY UsersFinite DEF SemOK
<1>2. /\ Taken(sem, n) \in [cnt : Int, queue : Seq(Users)]
      /\ Taken(sem, n).cnt = sem.cnt - n
      /\ Taken(sem, n).queue = sem.queue
  BY <1>1 DEF Taken
<1>3. AtLeast0(-(sem.cnt - n)) = AtLeast0(-sem.cnt)
  BY <1>1 DEF AtLeast0
<1>4. SemOK(Taken(sem, n), at, ops)
  BY <1>2, <1>3 DEF SemOK
<1>5. Units(Taken(sem, n), at, ops) = Units(sem, at, ops) - n
  BY <1>1, <1>2 DEF Units
<1> QED BY <1>2, <1>4, <1>5

(* A process comes in and takes a unit if there is one, or waits.          *)
LEMMA QueuedUnits ==
    ASSUME NEW sem, NEW at, NEW ops, SemOK(sem, at, ops),
           NEW p \in Users, at[p].op \in ops, ~Contains(sem.queue, p),
           sem.cnt <= 0
    PROVE  /\ SemOK(Queued(sem, p), at, ops)
           /\ Units(Queued(sem, p), at, ops) = Units(sem, at, ops) - 1
           /\ Queued(sem, p).cnt = sem.cnt - 1
<1> DEFINE q == sem.queue
           w == Append(q, p)
<1>1. sem.cnt \in Int /\ q \in Seq(Users) /\ Len(q) \in Nat
      /\ Cardinality(Inside(at, ops)) \in Nat
  BY UsersFinite DEF SemOK
<1>2. /\ w \in Seq(Users) /\ Len(w) = Len(q) + 1
      /\ \A i \in 1 .. Len(q) : w[i] = q[i]
      /\ w[Len(q) + 1] = p
  BY <1>1, AppendProperties
<1>3. /\ Queued(sem, p) \in [cnt : Int, queue : Seq(Users)]
      /\ Queued(sem, p).cnt = sem.cnt - 1
      /\ Queued(sem, p).queue = w
  BY <1>1, <1>2 DEF Queued
<1>4. /\ Len(q) = AtLeast0(-sem.cnt)
      /\ \A i, j \in 1 .. Len(q) : q[i] = q[j] => i = j
      /\ \A i \in 1 .. Len(q) : at[q[i]].op \in ops /\ q[i] # p
  BY DEF SemOK, Contains
<1> HIDE DEF q, w
<1>5. Len(w) = AtLeast0(-(sem.cnt - 1))
  BY <1>1, <1>2, <1>4 DEF AtLeast0
<1>6. \A i \in 1 .. Len(w) : i \in 1 .. Len(q) \/ i = Len(q) + 1
  BY <1>1, <1>2
<1>7. \A i, j \in 1 .. Len(w) : w[i] = w[j] => i = j
  BY <1>2, <1>4, <1>6
<1>8. \A i \in 1 .. Len(w) : at[w[i]].op \in ops
  BY <1>2, <1>4, <1>6
<1>9. SemOK(Queued(sem, p), at, ops)
  BY <1>3, <1>5, <1>7, <1>8 DEF SemOK
<1>10. Units(Queued(sem, p), at, ops) = Units(sem, at, ops) - 1
  BY <1>1, <1>3 DEF Units
<1> QED BY <1>3, <1>9, <1>10

LEMMA SignalledUnits ==
    ASSUME NEW sem, NEW at, NEW ops, SemOK(sem, at, ops), NEW n \in Nat
    PROVE  /\ SemOK(Signalled(sem, n), at, ops)
           /\ Units(Signalled(sem, n), at, ops) = Units(sem, at, ops) + n
           /\ Signalled(sem, n).cnt = sem.cnt + n
<1> DEFINE q == sem.queue
           m == AtMost(n, Len(q))
           w == SubSeq(q, 1 + m, Len(q))
<1>1. sem.cnt \in Int /\ q \in Seq(Users) /\ Len(q) \in Nat
      /\ Cardinality(Inside(at, ops)) \in Nat
  BY UsersFinite DEF SemOK
<1>2. m \in 0 .. Len(q) /\ (m = n \/ m = Len(q))
  BY <1>1 DEF AtMost
<1>3. /\ Len(q) = AtLeast0(-sem.cnt)
      /\ \A i, j \in 1 .. Len(q) : q[i] = q[j] => i = j
      /\ \A i \in 1 .. Len(q) : q[i] \in Users /\ at[q[i]].op \in ops
  BY DEF SemOK
<1>4. Len(q) - m = AtLeast0(-(sem.cnt + n))
  BY <1>1, <1>3 DEF AtLeast0, AtMost
<1> HIDE DEF q, m
<1>5. /\ w \in Seq(Users) /\ Len(w) = Len(q) - m
      /\ \A i \in 1 .. Len(q) - m : w[i] = q[i + m]
  BY <1>1, <1>2, <1>3, SubSeqProperties
<1>6. /\ Signalled(sem, n) \in [cnt : Int, queue : Seq(Users)]
      /\ Signalled(sem, n).cnt = sem.cnt + n
      /\ Signalled(sem, n).queue = w
  <2>1. Signalled(sem, n) = [cnt |-> sem.cnt + n, queue |-> w]
    BY Zenon DEF Signalled, q, m
  <2>2. sem.cnt + n \in Int
    BY <1>1
  <2> HIDE DEF w
  <2> QED BY <1>5, <2>1, <2>2
<1> HIDE DEF w
<1>7. \A i \in 1 .. Len(w) : w[i] = q[i + m] /\ i + m \in 1 .. Len(q) /\ i \in Int
  BY <1>1, <1>2, <1>5
<1>8. \A i, j \in 1 .. Len(w) : w[i] = w[j] => i = j
  <2> SUFFICES ASSUME NEW i \in 1 .. Len(w), NEW j \in 1 .. Len(w), w[i] = w[j]
               PROVE  i = j
    OBVIOUS
  <2>1. i + m = j + m
    BY <1>3, <1>7
  <2> QED BY <1>2, <2>1
<1>9. \A i \in 1 .. Len(w) : at[w[i]].op \in ops
  BY <1>3, <1>7
<1>10. SemOK(Signalled(sem, n), at, ops)
  BY <1>4, <1>5, <1>6, <1>8, <1>9 DEF SemOK
<1>11. Units(Signalled(sem, n), at, ops) = Units(sem, at, ops) + n
  BY <1>1, <1>6 DEF Units
<1> QED BY <1>6, <1>10, <1>11

(* sreset keeps the count of units if nobody waits, as in readcopy and     *)
(* writcopy, and always leaves a semaphore in order.                       *)
LEMMA ResetUnits ==
    ASSUME NEW sem, NEW at, NEW ops, SemOK(sem, at, ops), NEW n \in Nat
    PROVE  /\ SemOK(Reset(n), at, ops)
           /\ Units(Reset(n), at, ops) = Units(sem, at, ops) - (sem.cnt - n)
<1>1. sem.cnt \in Int /\ Cardinality(Inside(at, ops)) \in Nat
  BY UsersFinite DEF SemOK
<1>2. /\ Reset(n).cnt = n /\ Reset(n).queue = <<>>
      /\ Reset(n) \in [cnt : Int, queue : Seq(Users)]
      /\ Len(<<>>) = 0
  BY DEF Reset
<1>3. AtLeast0(-n) = 0
  BY DEF AtLeast0
<1>4. SemOK(Reset(n), at, ops)
  BY <1>2, <1>3 DEF SemOK
<1>5. Units(Reset(n), at, ops) = Units(sem, at, ops) - (sem.cnt - n)
  BY <1>1, <1>2 DEF Units
<1> QED BY <1>4, <1>5

(* How many units the loops of ttyputc and ttygetc take.                   *)
LEMMA UnitsTaken ==
    ASSUME NEW c \in Int, NEW held \in {0, 1}, NEW l \in Nat, held = 1 => l > 0,
           NEW n, n = AtMost(held + AtLeast0(c), l)
    PROVE  /\ n \in Nat /\ n >= held /\ n <= l /\ n - held \in Nat
           /\ n - held <= AtLeast0(c)
           /\ n < l => n - held = AtLeast0(c)
<1>1. CASE c > 0
  BY <1>1 DEF AtMost, AtLeast0
<1>2. CASE ~(c > 0)
  BY <1>2 DEF AtMost, AtLeast0
<1> QED BY <1>1, <1>2

(* The loops of ttyputc and of ttygetc.  A process that holds a unit, or   *)
(* none, takes units that are there and leaves ...                         *)
LEMMA TakesAndLeaves ==
    ASSUME NEW sem, NEW at, DOMAIN at = Users, NEW ops, SemOK(sem, at, ops),
           NEW p \in Users, ~Contains(sem.queue, p),
           NEW held, held = One(at[p].op, ops),
           NEW k \in Nat, k <= AtLeast0(sem.cnt),
           NEW r, r.op \notin ops, NEW new, GoesOn(at, p, r, new)
    PROVE  /\ SemOK(Taken(sem, k), new, ops)
           /\ Units(Taken(sem, k), new, ops) = Units(sem, at, ops) - (k + held)
           /\ Taken(sem, k).cnt <= sem.cnt
<1>1. /\ SemOK(sem, new, ops)
      /\ Units(sem, new, ops) =
             Units(sem, at, ops) + One(r.op, ops) - One(at[p].op, ops)
  BY PlaceUnits
<1>2. /\ SemOK(Taken(sem, k), new, ops)
      /\ Units(Taken(sem, k), new, ops) = Units(sem, new, ops) - k
      /\ Taken(sem, k).cnt = sem.cnt - k
  BY <1>1, TakenUnits
<1>3. One(r.op, ops) = 0 /\ One(at[p].op, ops) \in Int
  BY DEF One
<1>4. Units(sem, at, ops) \in Int /\ sem.cnt \in Int
  BY UsersFinite DEF SemOK, Units
<1> QED BY <1>1, <1>2, <1>3, <1>4

(* ... or takes all that are there and waits.                              *)
LEMMA TakesAndWaits ==
    ASSUME NEW sem, NEW at, DOMAIN at = Users, NEW ops, SemOK(sem, at, ops),
           NEW p \in Users, ~Contains(sem.queue, p),
           NEW held, held = One(at[p].op, ops),
           NEW k, k = AtLeast0(sem.cnt),
           NEW r, r.op \in ops, NEW new, GoesOn(at, p, r, new)
    PROVE  /\ SemOK(Queued(Taken(sem, k), p), new, ops)
           /\ Units(Queued(Taken(sem, k), p), new, ops) =
                  Units(sem, at, ops) - (k + held)
           /\ Queued(Taken(sem, k), p).cnt <= sem.cnt
<1> DEFINE t == Taken(sem, k)
<1>1. /\ SemOK(sem, new, ops)
      /\ Units(sem, new, ops) =
             Units(sem, at, ops) + One(r.op, ops) - One(at[p].op, ops)
  BY PlaceUnits
<1>2. sem.cnt \in Int /\ Units(sem, at, ops) \in Int
  BY UsersFinite DEF SemOK, Units
<1>3. k \in Nat /\ k <= AtLeast0(sem.cnt) /\ sem.cnt - k <= 0
  BY <1>2 DEF AtLeast0
<1>4. /\ SemOK(t, new, ops)
      /\ Units(t, new, ops) = Units(sem, new, ops) - k
      /\ t.cnt = sem.cnt - k /\ t.queue = sem.queue
  BY <1>1, <1>3, TakenUnits
<1>5. new[p].op \in ops
  BY DEF GoesOn
<1> HIDE DEF t
<1>6. t.cnt <= 0 /\ ~Contains(t.queue, p)
  BY <1>3, <1>4
<1>7. /\ SemOK(Queued(t, p), new, ops)
      /\ Units(Queued(t, p), new, ops) = Units(t, new, ops) - 1
      /\ Queued(t, p).cnt = t.cnt - 1
  BY <1>4, <1>5, <1>6, QueuedUnits
<1>8. One(r.op, ops) = 1 /\ One(at[p].op, ops) \in Int
  BY DEF One
<1>9. /\ Units(Queued(t, p), new, ops) = Units(sem, at, ops) - (k + held)
      /\ Queued(t, p).cnt <= sem.cnt
  BY <1>1, <1>2, <1>3, <1>4, <1>7, <1>8
<1> QED BY <1>7, <1>9 DEF t

(* wait: a process comes in for one unit.                                  *)
LEMMA WaitsForOne ==
    ASSUME NEW sem, NEW at, DOMAIN at = Users, NEW ops, SemOK(sem, at, ops),
           NEW p \in Users, at[p].op \notin ops,
           NEW r, r.op \in ops, NEW new, GoesOn(at, p, r, new),
           NEW next, next = IF sem.cnt > 0 THEN Taken(sem, 1) ELSE Queued(sem, p)
    PROVE  /\ SemOK(next, new, ops)
           /\ Units(next, new, ops) = Units(sem, at, ops)
           /\ next.cnt <= sem.cnt
<1>1. ~Contains(sem.queue, p)
  BY OutsideNotQueued
<1>2. /\ SemOK(sem, new, ops)
      /\ Units(sem, new, ops) =
             Units(sem, at, ops) + One(r.op, ops) - One(at[p].op, ops)
  BY PlaceUnits
<1>3. One(r.op, ops) = 1 /\ One(at[p].op, ops) = 0
  BY DEF One
<1>4. Units(sem, at, ops) \in Int /\ sem.cnt \in Int
  BY UsersFinite DEF SemOK, Units
<1>5. Units(sem, new, ops) = Units(sem, at, ops) + 1
  BY <1>2, <1>3, <1>4
<1>6. CASE sem.cnt > 0
  <2>1. 1 \in Nat /\ 1 <= AtLeast0(sem.cnt)
    BY <1>4, <1>6 DEF AtLeast0
  <2>2. /\ SemOK(Taken(sem, 1), new, ops)
        /\ Units(Taken(sem, 1), new, ops) = Units(sem, new, ops) - 1
        /\ Taken(sem, 1).cnt = sem.cnt - 1
    BY <1>2, <2>1, TakenUnits
  <2>3. next = Taken(sem, 1)
    BY <1>6
  <2> QED BY <1>4, <1>5, <2>2, <2>3
<1>7. CASE ~(sem.cnt > 0)
  <2>1. new[p].op \in ops /\ sem.cnt <= 0
    BY <1>4, <1>7 DEF GoesOn
  <2>2. /\ SemOK(Queued(sem, p), new, ops)
        /\ Units(Queued(sem, p), new, ops) = Units(sem, new, ops) - 1
        /\ Queued(sem, p).cnt = sem.cnt - 1
    BY <1>1, <1>2, <2>1, QueuedUnits
  <2>3. next = Queued(sem, p)
    BY <1>7
  <2> QED BY <1>4, <1>5, <2>2, <2>3
<1> QED BY <1>6, <1>7

-----------------------------------------------------------------------------
(***************************************************************************)
(* FlattenSeq is a recursive function, so these are inductions.            *)
(***************************************************************************)

LEMMA JoinsExist ==
    ASSUME NEW S, NEW ss \in Seq(Seq(S)), Len(ss) > 0
    PROVE  \E g \in [1 .. Len(ss) -> Seq(S)] :
               g[1] = ss[1] /\ \A i \in 2 .. Len(ss) : g[i] = g[i - 1] \o ss[i]
<1> DEFINE N == Len(ss)
           Joins(n) == {g \in [1 .. n -> Seq(S)] :
               g[1] = ss[1] /\ \A i \in 2 .. n : g[i] = g[i - 1] \o ss[i]}
           T == {n \in 0 .. N - 1 : Joins(n + 1) # {}}
<1>1. /\ N \in Nat /\ N - 1 \in Nat /\ N = (N - 1) + 1
      /\ \A i \in 1 .. N : ss[i] \in Seq(S)
  BY ElementOfSeq, LenProperties
<1> HIDE DEF N
<1>2. 0 \in T
  <2> DEFINE g == [i \in 1 .. 1 |-> ss[1]]
  <2>1. g \in [1 .. 1 -> Seq(S)] /\ g[1] = ss[1]
    BY <1>1
  <2> HIDE DEF g
  <2>2. \A i \in 2 .. 1 : g[i] = g[i - 1] \o ss[i]
    OBVIOUS
  <2>3. g \in Joins(0 + 1)
    BY <2>1, <2>2
  <2> HIDE DEF Joins
  <2> QED BY <1>1, <2>3
<1>3. ASSUME NEW n \in 0 .. (N - 1) - 1, n \in T
      PROVE  n + 1 \in T
  <2>1. PICK g \in [1 .. n + 1 -> Seq(S)] :
            g[1] = ss[1] /\ \A i \in 2 .. n + 1 : g[i] = g[i - 1] \o ss[i]
    BY <1>3
  <2> DEFINE u == [i \in 1 .. (n + 1) + 1 |->
                      IF i = (n + 1) + 1 THEN g[n + 1] \o ss[(n + 1) + 1] ELSE g[i]]
  <2>2. /\ n \in Nat /\ (n + 1) + 1 \in 1 .. N /\ n + 1 \in 0 .. N - 1
        /\ n + 1 \in 1 .. n + 1
    BY <1>1
  <2>3. g[n + 1] \in Seq(S) /\ ss[(n + 1) + 1] \in Seq(S)
    BY <1>1, <2>2
  <2>4. g[n + 1] \o ss[(n + 1) + 1] \in Seq(S)
    BY <2>3, ConcatProperties
  <2>5. \A i \in 1 .. (n + 1) + 1 : i # (n + 1) + 1 => i \in 1 .. n + 1
    BY <2>2
  <2>6. u \in [1 .. (n + 1) + 1 -> Seq(S)]
    BY <2>4, <2>5
  <2>7. \A i \in 1 .. n + 1 : u[i] = g[i]
    <3>1. \A i \in 1 .. n + 1 : i \in 1 .. (n + 1) + 1 /\ i # (n + 1) + 1
      BY <2>2
    <3> QED BY <3>1
  <2>8. u[(n + 1) + 1] = g[n + 1] \o ss[(n + 1) + 1]
    <3>1. (n + 1) + 1 \in 1 .. (n + 1) + 1
      BY <2>2
    <3> QED BY <3>1
  <2> HIDE DEF u
  <2>9. ASSUME NEW i \in 2 .. (n + 1) + 1
        PROVE  u[i] = u[i - 1] \o ss[i]
    <3>1. CASE i = (n + 1) + 1
      <4>1. i - 1 = n + 1
        BY <2>2, <3>1
      <4> QED BY <2>2, <2>7, <2>8, <3>1, <4>1
    <3>2. CASE i # (n + 1) + 1
      <4>1. i \in 2 .. n + 1 /\ i \in 1 .. n + 1 /\ i - 1 \in 1 .. n + 1
        BY <2>2, <3>2
      <4> QED BY <2>1, <2>7, <4>1
    <3> QED BY <3>1, <3>2
  <2>10. u[1] = ss[1]
    BY <2>1, <2>2, <2>7
  <2>11. u \in Joins((n + 1) + 1)
    BY <2>6, <2>9, <2>10
  <2> HIDE DEF Joins
  <2> QED BY <2>2, <2>11
<1>4. N - 1 \in T
  <2> HIDE DEF T
  <2>1. 0 .. N - 1 \subseteq T
    BY <1>1, <1>2, <1>3, Induct
  <2> QED BY <1>1, <2>1
<1>5. Joins(N) # {}
  <2> HIDE DEF Joins
  <2> QED BY <1>1, <1>4
<1>6. PICK g : g \in Joins(N)
  <2> HIDE DEF Joins
  <2> QED BY <1>5
<1> QED BY <1>6 DEF N

LEMMA FlattenIs ==
    ASSUME NEW S, NEW ss \in Seq(Seq(S)), Len(ss) > 0, NEW g,
           g[1] = ss[1], \A i \in 2 .. Len(ss) : g[i] = g[i - 1] \o ss[i]
    PROVE  FlattenSeq(ss) = g[Len(ss)]
<1> DEFINE N == Len(ss)
           h == CHOOSE f : f = [i \in 1 .. Len(ss) |->
                                   IF i = 1 THEN ss[i] ELSE f[i - 1] \o ss[i]]
<1>1. FlattenSeq(ss) = h[N]
  BY DEF FlattenSeq
<1>2. PICK e \in [1 .. Len(ss) -> Seq(S)] :
          e[1] = ss[1] /\ \A i \in 2 .. Len(ss) : e[i] = e[i - 1] \o ss[i]
  BY JoinsExist
<1>3. e = [i \in 1 .. Len(ss) |-> IF i = 1 THEN ss[i] ELSE e[i - 1] \o ss[i]]
  <2>1. ASSUME NEW i \in 1 .. Len(ss)
        PROVE  e[i] = IF i = 1 THEN ss[i] ELSE e[i - 1] \o ss[i]
    <3>1. i = 1 \/ i \in 2 .. Len(ss)
      OBVIOUS
    <3> QED BY <1>2, <3>1
  <2> QED BY <2>1, Zenon
<1>4. h = [i \in 1 .. Len(ss) |-> IF i = 1 THEN ss[i] ELSE h[i - 1] \o ss[i]]
  BY <1>3, Zenon
<1>5. N \in Nat /\ N - 1 \in Nat /\ (N - 1) + 1 = N /\ 1 \in 1 .. N
  BY LenProperties
<1> HIDE DEF h
<1> DEFINE T == {n \in 0 .. N - 1 : h[n + 1] = g[n + 1]}
<1>6. h[1] = ss[1]
  BY <1>4, <1>5
<1> HIDE DEF N
<1>7. 0 \in T
  BY <1>5, <1>6
<1>8. ASSUME NEW n \in 0 .. (N - 1) - 1, n \in T
      PROVE  n + 1 \in T
  <2>1. /\ n + 1 \in 0 .. N - 1 /\ (n + 1) + 1 \in 2 .. N /\ (n + 1) + 1 \in 1 .. N
        /\ (n + 1) + 1 # 1 /\ ((n + 1) + 1) - 1 = n + 1
    BY <1>5
  <2>2. h[(n + 1) + 1] = h[n + 1] \o ss[(n + 1) + 1]
    BY <1>4, <2>1 DEF N
  <2>3. g[(n + 1) + 1] = g[n + 1] \o ss[(n + 1) + 1]
    BY <2>1 DEF N
  <2> QED BY <1>8, <2>1, <2>2, <2>3
<1>9. N - 1 \in T
  <2> HIDE DEF T
  <2>1. 0 .. N - 1 \subseteq T
    BY <1>5, <1>7, <1>8, Induct
  <2> QED BY <1>5, <2>1
<1>10. h[N] = g[N]
  BY <1>5, <1>9
<1> QED BY <1>1, <1>10 DEF N

LEMMA FlattenSeqs ==
    ASSUME NEW S, NEW ss \in Seq(Seq(S))
    PROVE  /\ FlattenSeq(ss) \in Seq(S)
           /\ Len(ss) = 0 => FlattenSeq(ss) = <<>>
           /\ Len(ss) = 1 => FlattenSeq(ss) = ss[1]
<1>1. CASE Len(ss) = 0
  <2>1. ss = <<>>
    BY <1>1, EmptySeq
  <2>2. FlattenSeq(ss) = <<>> /\ <<>> \in Seq(S)
    BY <2>1, EmptySeq DEF FlattenSeq
  <2> QED BY <1>1, <2>2
<1>2. CASE Len(ss) > 0
  <2>1. PICK g \in [1 .. Len(ss) -> Seq(S)] :
            g[1] = ss[1] /\ \A i \in 2 .. Len(ss) : g[i] = g[i - 1] \o ss[i]
    BY <1>2, JoinsExist
  <2>2. FlattenSeq(ss) = g[Len(ss)]
    BY <1>2, <2>1, FlattenIs
  <2>3. Len(ss) \in 1 .. Len(ss)
    BY <1>2, LenProperties
  <2>4. g[Len(ss)] \in Seq(S)
    BY <2>1, <2>3
  <2>5. Len(ss) = 1 => g[Len(ss)] = ss[1]
    BY <2>1
  <2>6. Len(ss) # 0
    BY <1>2
  <2> QED BY <2>2, <2>4, <2>5, <2>6
<1> QED BY <1>1, <1>2, LenProperties

LEMMA FlattenAppend ==
    ASSUME NEW S, NEW ss \in Seq(Seq(S)), NEW x \in Seq(S)
    PROVE  FlattenSeq(Append(ss, x)) = FlattenSeq(ss) \o x
<1> DEFINE tt == Append(ss, x)
           N == Len(ss)
<1>1. /\ tt \in Seq(Seq(S)) /\ Len(tt) = N + 1 /\ tt[N + 1] = x /\ N \in Nat
      /\ \A i \in 1 .. N : tt[i] = ss[i]
  BY AppendProperties, LenProperties
<1> HIDE DEF tt
<1>2. PICK g \in [1 .. Len(tt) -> Seq(S)] :
          g[1] = tt[1] /\ \A i \in 2 .. Len(tt) : g[i] = g[i - 1] \o tt[i]
  <2>1. Len(tt) > 0
    BY <1>1
  <2>2. tt \in Seq(Seq(S))
    BY <1>1
  <2> QED BY <2>1, <2>2, JoinsExist, Zenon
<1>3. FlattenSeq(tt) = g[N + 1]
  <2>1. Len(tt) > 0
    BY <1>1
  <2> QED BY <1>1, <1>2, <2>1, FlattenIs
<1>4. CASE N = 0
  <2>1. FlattenSeq(ss) = <<>>
    BY <1>4, FlattenSeqs
  <2>2. FlattenSeq(tt) = x
    BY <1>1, <1>2, <1>3, <1>4
  <2>3. <<>> \o x = x
    BY ConcatEmptySeq
  <2> QED BY <2>1, <2>2, <2>3 DEF tt
<1>5. CASE N > 0
  <2>1. g[1] = ss[1] /\ \A i \in 2 .. Len(ss) : g[i] = g[i - 1] \o ss[i]
    <3>1. 1 \in 1 .. N /\ \A i \in 2 .. N : i \in 1 .. N /\ i \in 2 .. Len(tt)
      BY <1>1, <1>5
    <3> QED BY <1>1, <1>2, <3>1
  <2>2. FlattenSeq(ss) = g[Len(ss)]
    BY <1>5, <2>1, FlattenIs
  <2>3. N + 1 \in 2 .. Len(tt) /\ (N + 1) - 1 = N
    BY <1>1, <1>5
  <2>4. g[N + 1] = g[N] \o x
    BY <1>1, <1>2, <2>3
  <2> QED BY <1>3, <2>2, <2>4 DEF tt
<1> QED BY <1>1, <1>4, <1>5

LEMMA FlattenConcat ==
    ASSUME NEW S, NEW ss \in Seq(Seq(S)), NEW tt \in Seq(Seq(S))
    PROVE  FlattenSeq(ss \o tt) = FlattenSeq(ss) \o FlattenSeq(tt)
<1> DEFINE N == Len(tt)
           Part(n) == SubSeq(tt, 1, n)
           T == {n \in 0 .. N : FlattenSeq(ss \o Part(n))
                                    = FlattenSeq(ss) \o FlattenSeq(Part(n))}
<1>1. N \in Nat /\ \A i \in 1 .. N : tt[i] \in Seq(S)
  BY LenProperties, ElementOfSeq
<1>2. ASSUME NEW n \in 0 .. N
      PROVE  Part(n) \in Seq(Seq(S)) /\ Len(Part(n)) = n
  <2>1. n \in Int /\ \A i \in 1 .. n : tt[i] \in Seq(S)
    BY <1>1
  <2> QED BY <2>1, SubSeqProperties
<1>3. 0 \in T
  <2>1. Part(0) = <<>>
    BY SubSeqEmpty
  <2>2. ss \o <<>> = ss
    BY ConcatEmptySeq
  <2>3. <<>> \in Seq(Seq(S)) /\ Len(<<>>) = 0
    BY EmptySeq
  <2>4. FlattenSeq(<<>>) = <<>> /\ FlattenSeq(ss) \in Seq(S)
    BY <2>3, FlattenSeqs
  <2>5. FlattenSeq(ss) \o <<>> = FlattenSeq(ss)
    BY <2>4, ConcatEmptySeq
  <2>6. FlattenSeq(ss \o Part(0)) = FlattenSeq(ss) \o FlattenSeq(Part(0))
    <3> HIDE DEF Part
    <3> QED BY <2>1, <2>2, <2>4, <2>5, Zenon
  <2> QED BY <1>1, <2>6
<1>4. ASSUME NEW n \in 0 .. N - 1, n \in T
      PROVE  n + 1 \in T
  <2> DEFINE f == Part(n)
             x == tt[n + 1]
  <2>1. /\ f \in Seq(Seq(S)) /\ x \in Seq(S) /\ n + 1 \in 0 .. N /\ n \in Nat
        /\ n + 1 \in 1 .. N /\ n \in 0 .. N
    BY <1>1, <1>2
  <2>2. Part(n + 1) = Append(f, x)
    <3>1. SubSeq(tt, 1, n + 1) = SubSeq(tt, 1, (n + 1) - 1) \o <<x>>
      BY <1>1, <2>1, SubSeqRecursiveSecond
    <3>2. (n + 1) - 1 = n
      BY <2>1
    <3>3. Append(f, x) = f \o <<x>>
      BY <2>1, AppendIsConcat
    <3> QED BY <3>1, <3>2, <3>3
  <2>3. FlattenSeq(ss \o f) = FlattenSeq(ss) \o FlattenSeq(f)
    BY <1>4
  <2> HIDE DEF f, x, Part
  <2>4. ss \o Append(f, x) = Append(ss \o f, x) /\ ss \o f \in Seq(Seq(S))
    <3>1. /\ Append(f, x) = f \o <<x>> /\ ss \o f \in Seq(Seq(S))
          /\ <<x>> \in Seq(Seq(S))
      BY <2>1, AppendIsConcat, ConcatProperties
    <3>2. Append(ss \o f, x) = (ss \o f) \o <<x>>
      BY <2>1, <3>1, AppendIsConcat
    <3> DEFINE one == <<x>>
    <3> HIDE DEF one
    <3>3. (ss \o f) \o one = ss \o (f \o one)
      <4>1. one \in Seq(Seq(S))
        BY <3>1 DEF one
      <4>2. \A a, b, c \in Seq(Seq(S)) : (a \o b) \o c = a \o (b \o c)
        OBVIOUS
      <4> QED BY <2>1, <4>1, <4>2, Zenon
    <3> QED BY <3>1, <3>2, <3>3, Zenon DEF one
  <2>5. /\ FlattenSeq(Append(ss \o f, x)) = FlattenSeq(ss \o f) \o x
        /\ FlattenSeq(Append(f, x)) = FlattenSeq(f) \o x
    BY <2>1, <2>4, FlattenAppend
  <2>6. /\ FlattenSeq(ss) \in Seq(S) /\ FlattenSeq(f) \in Seq(S)
    BY <2>1, FlattenSeqs
  <2>7. (FlattenSeq(ss) \o FlattenSeq(f)) \o x = FlattenSeq(ss) \o (FlattenSeq(f) \o x)
    <3>1. \A a, b, c \in Seq(S) : (a \o b) \o c = a \o (b \o c)
      OBVIOUS
    <3> QED BY <2>1, <2>6, <3>1, Zenon
  <2>8. FlattenSeq(ss \o Part(n + 1)) = FlattenSeq(ss) \o FlattenSeq(Part(n + 1))
    BY <2>2, <2>3, <2>4, <2>5, <2>7, Zenon
  <2> QED BY <2>1, <2>8
<1>5. N \in T
  <2> HIDE DEF T
  <2>1. 0 .. N \subseteq T
    BY <1>1, <1>3, <1>4, Induct
  <2> QED BY <1>1, <2>1
<1>6. Part(N) = tt
  BY SubSeqFull
<1> QED BY <1>5, <1>6

(* Two texts that are the same piece by piece.                             *)
LEMMA ConcatIs ==
    ASSUME NEW S, NEW a \in Seq(S), NEW b \in Seq(S), NEW h \in Seq(S),
           Len(h) = Len(a) + Len(b),
           \A i \in 1 .. Len(a) : h[i] = a[i],
           \A i \in 1 .. Len(b) : h[Len(a) + i] = b[i]
    PROVE  h = a \o b
<1> DEFINE n == Len(a)
           m == Len(b)
           k == a \o b
<1>1. /\ k \in Seq(S) /\ Len(k) = n + m /\ n \in Nat /\ m \in Nat
      /\ \A i \in 1 .. n + m : k[i] = IF i <= n THEN a[i] ELSE b[i - n]
  BY ConcatProperties, LenProperties
<1> HIDE DEF k
<1>2. ASSUME NEW i \in 1 .. n + m PROVE h[i] = k[i]
  <2>1. CASE i <= n
    <3>1. i \in 1 .. n
      BY <1>1, <2>1
    <3> QED BY <1>1, <2>1, <3>1
  <2>2. CASE ~(i <= n)
    <3>1. i - n \in 1 .. m /\ n + (i - n) = i
      BY <1>1, <2>2
    <3>2. h[n + (i - n)] = b[i - n]
      BY <3>1
    <3> QED BY <1>1, <2>2, <3>1, <3>2
  <2> QED BY <2>1, <2>2
<1> QED BY <1>1, <1>2, SeqEqual DEF k

Chr == [by : Users \cup {Nobody}, n : Nat, c : {"c", "NL", "CR"}]

LEMMA CharExpandedIs ==
    ASSUME NEW ch \in Chr
    PROVE  /\ CharExpanded(ch) \in Seq(Chr) /\ [ch EXCEPT !.c = "CR"] \in Chr
           /\ ch.c # "NL" => CharExpanded(ch) = <<ch>>
           /\ ch.c = "NL" => CharExpanded(ch) = <<[ch EXCEPT !.c = "CR"], ch>>
<1>1. [ch EXCEPT !.c = "CR"] \in Chr
  BY DEF Chr
<1>2. CASE ch.c = "NL"
  <2>1. CharExpanded(ch) = <<[ch EXCEPT !.c = "CR"], ch>>
    BY <1>2 DEF CharExpanded
  <2> QED BY <1>1, <1>2, <2>1
<1>3. CASE ch.c # "NL"
  <2>1. CharExpanded(ch) = <<ch>>
    BY <1>3 DEF CharExpanded
  <2> QED BY <1>1, <1>3, <2>1
<1> QED BY <1>2, <1>3

(* What is put in the ring for each of the characters of a text.           *)
Halves(s) == [i \in DOMAIN s |-> CharExpanded(s[i])]

LEMMA HalvesAre ==
    ASSUME NEW s \in Seq(Chr)
    PROVE  /\ Halves(s) \in Seq(Seq(Chr)) /\ Len(Halves(s)) = Len(s)
           /\ \A i \in 1 .. Len(s) : Halves(s)[i] = CharExpanded(s[i])
           /\ Expanded(s) = FlattenSeq(Halves(s))
<1> DEFINE h == Halves(s)
<1>1. /\ DOMAIN s = 1 .. Len(s) /\ Len(s) \in Nat
      /\ \A i \in 1 .. Len(s) : s[i] \in Chr
  BY LenProperties, ElementOfSeq
<1>2. /\ h \in [1 .. Len(s) -> Seq(Chr)]
      /\ \A i \in 1 .. Len(s) : h[i] = CharExpanded(s[i])
  BY <1>1, CharExpandedIs DEF Halves
<1>3. Expanded(s) = FlattenSeq(h)
  BY DEF Expanded, Halves
<1> HIDE DEF h
<1>4. h \in Seq(Seq(Chr)) /\ Len(h) = Len(s)
  BY <1>1, <1>2, LenProperties, SeqDef
<1> QED BY <1>2, <1>3, <1>4 DEF h

LEMMA ExpandedText ==
    ASSUME NEW s \in Seq(Chr)
    PROVE  /\ Expanded(s) \in Seq(Chr) /\ Len(Expanded(s)) \in Nat
           /\ Len(s) = 0 => Expanded(s) = <<>> /\ Len(Expanded(s)) = 0
           /\ Len(s) = 1 => Expanded(s) = CharExpanded(s[1]) /\ Expanded(s) # <<>>
<1> DEFINE ss == Halves(s)
<1>1. /\ ss \in Seq(Seq(Chr)) /\ Len(ss) = Len(s) /\ Expanded(s) = FlattenSeq(ss)
      /\ \A i \in 1 .. Len(s) : ss[i] = CharExpanded(s[i])
  BY HalvesAre
<1> HIDE DEF ss
<1>2. /\ FlattenSeq(ss) \in Seq(Chr)
      /\ Len(ss) = 0 => FlattenSeq(ss) = <<>>
      /\ Len(ss) = 1 => FlattenSeq(ss) = ss[1]
  BY <1>1, FlattenSeqs
<1>3. Len(FlattenSeq(ss)) \in Nat /\ Len(<<>>) = 0
  BY <1>2, LenProperties
<1>4. ASSUME Len(s) = 1 PROVE ss[1] = CharExpanded(s[1]) /\ ss[1] # <<>>
  <2>1. ss[1] = CharExpanded(s[1]) /\ s[1] \in Chr
    <3>1. 1 \in 1 .. Len(s)
      BY <1>4
    <3> QED BY <1>1, <3>1, ElementOfSeq
  <2> DEFINE ch == s[1]
  <2>2. ch \in Chr
    BY <2>1
  <2> HIDE DEF ch
  <2>3. CharExpanded(ch) # <<>>
    <3>1. \/ CharExpanded(ch) = <<ch>>
          \/ CharExpanded(ch) = <<[ch EXCEPT !.c = "CR"], ch>>
      BY <2>2, CharExpandedIs
    <3> QED BY <3>1
  <2> QED BY <2>1, <2>3 DEF ch
<1> QED BY <1>1, <1>2, <1>3, <1>4

LEMMA ExpandedConcat ==
    ASSUME NEW s \in Seq(Chr), NEW t \in Seq(Chr)
    PROVE  Expanded(s \o t) = Expanded(s) \o Expanded(t)
<1> DEFINE n == Len(s)
           m == Len(t)
           u == s \o t
           a == Halves(s)
           b == Halves(t)
           h == Halves(u)
<1>1. /\ u \in Seq(Chr) /\ Len(u) = n + m /\ n \in Nat /\ m \in Nat
      /\ \A i \in 1 .. n + m : u[i] = IF i <= n THEN s[i] ELSE t[i - n]
  BY ConcatProperties, LenProperties
<1> HIDE DEF u
<1>2. /\ h \in Seq(Seq(Chr)) /\ Len(h) = n + m /\ Expanded(u) = FlattenSeq(h)
      /\ \A i \in 1 .. n + m : h[i] = CharExpanded(u[i])
  BY <1>1, HalvesAre
<1>3. /\ a \in Seq(Seq(Chr)) /\ Len(a) = n
      /\ b \in Seq(Seq(Chr)) /\ Len(b) = m
      /\ \A i \in 1 .. n : a[i] = CharExpanded(s[i])
      /\ \A i \in 1 .. m : b[i] = CharExpanded(t[i])
      /\ Expanded(s) = FlattenSeq(a) /\ Expanded(t) = FlattenSeq(b)
  BY HalvesAre
<1> HIDE DEF h, a, b
<1>4. ASSUME NEW i \in 1 .. n PROVE h[i] = a[i]
  <2>1. i \in 1 .. n + m /\ i <= n
    BY <1>1
  <2> QED BY <1>1, <1>2, <1>3, <2>1
<1>5. ASSUME NEW i \in 1 .. m PROVE h[n + i] = b[i]
  <2>1. n + i \in 1 .. n + m /\ ~(n + i <= n) /\ (n + i) - n = i
    BY <1>1
  <2> QED BY <1>1, <1>2, <1>3, <2>1
<1>6. h = a \o b
  <2>1. Len(h) = Len(a) + Len(b)
    BY <1>2, <1>3
  <2>2. \A i \in 1 .. Len(a) : h[i] = a[i]
    BY <1>3, <1>4
  <2>3. \A i \in 1 .. Len(b) : h[Len(a) + i] = b[i]
    BY <1>3, <1>5
  <2> QED BY <1>2, <1>3, <2>1, <2>2, <2>3, ConcatIs
<1>7. FlattenSeq(a \o b) = FlattenSeq(a) \o FlattenSeq(b)
  BY <1>3, FlattenConcat
<1> QED BY <1>2, <1>3, <1>6, <1>7 DEF u

LEMMA NamedText ==
    ASSUME NEW p \in Users, NEW text \in Seq({"c", "NL"}),
           wrote \in [Users -> Seq({"c", "NL"})]
    PROVE  Named(p, text) \in Seq(Chr) /\ Len(Named(p, text)) = Len(text)
<1> DEFINE s == Named(p, text)
<1>1. /\ DOMAIN text = 1 .. Len(text) /\ Len(text) \in Nat
      /\ \A i \in 1 .. Len(text) : text[i] \in {"c", "NL"}
  BY LenProperties, ElementOfSeq
<1>2. Len(wrote[p]) \in Nat
  BY LenProperties
<1>3. ASSUME NEW i \in 1 .. Len(text)
      PROVE  Char(p, Len(wrote[p]) + i, text[i]) \in Chr
  <2>1. Len(wrote[p]) + i \in Nat /\ text[i] \in {"c", "NL", "CR"}
    BY <1>1, <1>2
  <2> QED BY <2>1 DEF Char, Chr
<1>4. s \in [1 .. Len(text) -> Chr]
  BY <1>1, <1>3 DEF Named
<1> HIDE DEF s
<1>5. s \in Seq(Chr) /\ Len(s) = Len(text)
  BY <1>1, <1>4, SeqDef, LenProperties
<1> QED BY <1>5 DEF s

LEMMA SplitAt ==
    ASSUME NEW S, NEW s \in Seq(S), NEW n \in 0 .. Len(s)
    PROVE  /\ SubSeq(s, 1, n) \in Seq(S) /\ Len(SubSeq(s, 1, n)) = n
           /\ SubSeq(s, n + 1, Len(s)) \in Seq(S)
           /\ Len(SubSeq(s, n + 1, Len(s))) = Len(s) - n
           /\ \A i \in 1 .. Len(s) - n : SubSeq(s, n + 1, Len(s))[i] = s[n + i]
           /\ s = SubSeq(s, 1, n) \o SubSeq(s, n + 1, Len(s))
<1> DEFINE a == SubSeq(s, 1, n)
           b == SubSeq(s, n + 1, Len(s))
<1>1. Len(s) \in Nat /\ n \in Nat /\ \A i \in 1 .. Len(s) : s[i] \in S
  BY LenProperties, ElementOfSeq
<1>2. a \in Seq(S) /\ Len(a) = n /\ \A i \in 1 .. n : a[i] = s[i]
  <2>1. \A i \in 1 .. n : s[i] \in S
    BY <1>1
  <2> QED BY <1>1, <2>1, SubSeqProperties
<1>3. /\ b \in Seq(S) /\ Len(b) = Len(s) - n
      /\ \A i \in 1 .. Len(s) - n : b[i] = s[n + i]
  <2>1. CASE n = Len(s)
    <3>1. b = <<>>
      BY <1>1, <2>1, SubSeqEmpty
    <3>2. <<>> \in Seq(S) /\ Len(<<>>) = 0 /\ Len(s) - n = 0 /\ 1 .. 0 = {}
      BY <1>1, <2>1, EmptySeq
    <3> HIDE DEF b
    <3> QED BY <3>1, <3>2
  <2>2. CASE n # Len(s)
    <3>1. \A i \in n + 1 .. Len(s) : s[i] \in S
      BY <1>1
    <3>2. n + 1 \in Int /\ Len(s) \in Int /\ n + 1 <= Len(s) + 1
      BY <1>1
    <3>3. /\ b \in Seq(S) /\ Len(b) = Len(s) - (n + 1) + 1
          /\ \A i \in 1 .. Len(s) - (n + 1) + 1 : b[i] = s[(n + 1) + i - 1]
      BY <1>1, <2>2, <3>1, <3>2, SubSeqProperties
    <3>4. /\ Len(s) - (n + 1) + 1 = Len(s) - n
          /\ \A i \in 1 .. Len(s) - n : (n + 1) + i - 1 = n + i
      BY <1>1
    <3> HIDE DEF b
    <3> QED BY <3>3, <3>4
  <2> QED BY <2>1, <2>2
<1> HIDE DEF a, b
<1>4. Len(s) = Len(a) + Len(b)
  BY <1>1, <1>2, <1>3
<1>5. /\ \A i \in 1 .. Len(a) : s[i] = a[i]
      /\ \A i \in 1 .. Len(b) : s[Len(a) + i] = b[i]
  BY <1>2, <1>3
<1>6. s = a \o b
  BY <1>2, <1>3, <1>4, <1>5, ConcatIs
<1> QED BY <1>2, <1>3, <1>6 DEF a, b

(* The same places of the same texts: the two halves of a newline share    *)
(* theirs, and writcopy puts them in either order.                         *)
SameText(a, b) ==
    /\ Len(a) = Len(b)
    /\ \A i \in 1 .. Len(a) : a[i].by = b[i].by /\ a[i].n = b[i].n

LEMMA SameConcat ==
    ASSUME NEW a \in Seq(Chr), NEW b \in Seq(Chr), SameText(a, b),
           NEW c \in Seq(Chr), NEW d \in Seq(Chr), SameText(c, d)
    PROVE  SameText(a \o c, b \o d)
<1> DEFINE n == Len(a)
           m == Len(c)
           x == a \o c
           y == b \o d
<1>1. /\ Len(x) = n + m /\ n \in Nat /\ m \in Nat
      /\ \A i \in 1 .. n + m : x[i] = IF i <= n THEN a[i] ELSE c[i - n]
  BY ConcatProperties, LenProperties
<1>2. /\ Len(b) = n /\ Len(d) = m
      /\ \A j \in 1 .. n : a[j].by = b[j].by /\ a[j].n = b[j].n
      /\ \A j \in 1 .. m : c[j].by = d[j].by /\ c[j].n = d[j].n
  BY DEF SameText
<1>3. /\ Len(y) = n + m
      /\ \A i \in 1 .. n + m : y[i] = IF i <= n THEN b[i] ELSE d[i - n]
  <2>1. /\ Len(y) = Len(b) + Len(d)
        /\ \A i \in 1 .. Len(b) + Len(d) :
               y[i] = IF i <= Len(b) THEN b[i] ELSE d[i - Len(b)]
    BY ConcatProperties
  <2> HIDE DEF y
  <2> QED BY <1>2, <2>1
<1> HIDE DEF x, y
<1>4. ASSUME NEW i \in 1 .. n + m PROVE x[i].by = y[i].by /\ x[i].n = y[i].n
  <2>1. CASE i <= n
    <3>1. i \in 1 .. n
      BY <1>1, <2>1
    <3> QED BY <1>1, <1>2, <1>3, <2>1, <3>1
  <2>2. CASE ~(i <= n)
    <3>1. i - n \in 1 .. m
      BY <1>1, <2>2
    <3> QED BY <1>1, <1>2, <1>3, <2>2, <3>1
  <2> QED BY <2>1, <2>2
<1>5. SameText(x, y)
  BY <1>1, <1>3, <1>4 DEF SameText
<1> QED BY <1>5 DEF x, y

LEMMA ConcatThrice ==
    ASSUME NEW S, NEW a \in Seq(S), NEW b \in Seq(S), NEW c \in Seq(S)
    PROVE  (a \o b) \o c = a \o (b \o c)
OBVIOUS

-----------------------------------------------------------------------------
(***************************************************************************)
(* The inductive invariant of the console.                                 *)
(***************************************************************************)

Place == [op : Ops, left : Seq(Chr), n : Nat]

(* What a process in the driver has left to do.                            *)
PlaceOK(r) ==
    /\ r \in Place
    /\ r.op = "get" => r.n > 0
    /\ r.op \in {"put", "place", "again"} => r.left # <<>>

PlacesInv ==
    /\ pc \in [Users -> Place]
    /\ \A p \in Users : PlaceOK(pc[p])
    /\ wrote \in [Users -> Seq({"c", "NL"})]

OutInv ==
    /\ SemOK(osem, pc, PutOps)
    /\ ohead \in 0 .. OBUFLEN - 1 /\ otail \in 0 .. OBUFLEN - 1
    /\ odsend \in 0 .. OBMINSP - 1
    /\ odsend > 0 => osem.cnt <= OBMINSP

InInv ==
    /\ SemOK(isem, pc, GetOps)
    /\ ihead \in 0 .. IBUFLEN - 1 /\ itail \in 0 .. IBUFLEN - 1
    /\ icursor \in 0 .. IBUFLEN
    /\ imode \in {"IMRAW", "IMCOOKED", "IMCBREAK"}
    /\ typed \in Nat /\ ibuff \in [0 .. IBUFLEN - 1 -> 0 .. typed]

SwitchesInv ==
    /\ echo \in 0 .. EBUFLEN - 1
    /\ iecho \in BOOLEAN /\ oheld \in BOOLEAN /\ ctstat \in BOOLEAN

ConsoleInv == PlacesInv /\ OutInv /\ InInv /\ SwitchesInv /\ load \in Loads

OutUnits == Units(osem, pc, PutOps)
InUnits == Units(isem, pc, GetOps)

(* The properties speak of those who have been let go.                     *)
LEMMA InBufferIs ==
    ASSUME ConsoleInv
    PROVE  /\ InBuffer = OBUFLEN - OutUnits - odsend
           /\ OutUnits \in Nat
           /\ LetGoOut = {} => OutUnits = AtLeast0(osem.cnt)
<1> DEFINE R == {p \in Users : pc[p].op \in PutOps /\ ~Contains(osem.queue, p)}
<1>1. LetGoOut = R
  <2>1. \A p \in Users : pc[p].op \in PutOps => ~Contains(isem.queue, p)
    BY OutsideNotQueued DEF ConsoleInv, InInv, PutOps, GetOps
  <2> QED BY <2>1 DEF LetGoOut, PutOps, Awake
<1>2. Cardinality(R) = Cardinality(Inside(pc, PutOps)) - AtLeast0(-osem.cnt)
  BY LetGoCounted DEF ConsoleInv, OutInv
<1>3. IsFiniteSet(R) /\ Cardinality(R) \in Nat
  <2>1. R \subseteq Users
    OBVIOUS
  <2>2. IsFiniteSet(R)
    BY <2>1, UsersFinite, FS_Subset
  <2> QED BY <2>2, FS_CardinalityType
<1> HIDE DEF R
<1>4. /\ osem.cnt \in Int /\ OBUFLEN \in Int /\ odsend \in Int
      /\ Cardinality(Inside(pc, PutOps)) \in Nat
  BY UsersFinite, TtyAssumption DEF ConsoleInv, OutInv, SemOK
<1>5. InBuffer = OBUFLEN - AtLeast0(osem.cnt) - odsend - Cardinality(R)
  BY <1>1 DEF InBuffer
<1>6. OutUnits = AtLeast0(osem.cnt) + Cardinality(R)
  BY <1>2, <1>3, <1>4 DEF OutUnits, Units, AtLeast0
<1>7. R = {} => Cardinality(R) = 0
  BY FS_EmptySet
<1>8. AtLeast0(osem.cnt) \in Nat
  BY <1>4 DEF AtLeast0
<1> QED BY <1>1, <1>3, <1>4, <1>5, <1>6, <1>7, <1>8

LEMMA StoredIs ==
    ASSUME ConsoleInv
    PROVE  Stored = InUnits + icursor /\ InUnits \in Nat
<1> DEFINE R == {p \in Users : pc[p].op \in GetOps /\ ~Contains(isem.queue, p)}
<1>1. LetGoIn = R
  <2>1. \A p \in Users : pc[p].op \in GetOps => ~Contains(osem.queue, p)
    BY OutsideNotQueued DEF ConsoleInv, OutInv, PutOps, GetOps
  <2> QED BY <2>1 DEF LetGoIn, GetOps, Awake
<1>2. Cardinality(R) = Cardinality(Inside(pc, GetOps)) - AtLeast0(-isem.cnt)
  BY LetGoCounted DEF ConsoleInv, InInv
<1>3. Cardinality(R) \in Nat
  <2>1. R \subseteq Users
    OBVIOUS
  <2>2. IsFiniteSet(R)
    BY <2>1, UsersFinite, FS_Subset
  <2> QED BY <2>2, FS_CardinalityType
<1> HIDE DEF R
<1>4. /\ isem.cnt \in Int /\ icursor \in Int
      /\ Cardinality(Inside(pc, GetOps)) \in Nat
  BY UsersFinite DEF ConsoleInv, InInv, SemOK
<1>5. Stored = AtLeast0(isem.cnt) + Cardinality(R) + icursor
  BY <1>1 DEF Stored
<1>6. InUnits = AtLeast0(isem.cnt) + Cardinality(R)
  BY <1>2, <1>3, <1>4 DEF InUnits, Units, AtLeast0
<1>7. AtLeast0(isem.cnt) \in Nat
  BY <1>4 DEF AtLeast0
<1> QED BY <1>3, <1>4, <1>5, <1>6, <1>7

-----------------------------------------------------------------------------
(***************************************************************************)
(* The moves: all that a step may do to the two rings.                     *)
(***************************************************************************)

OutStill ==
    UNCHANGED <<obuff, ohead, otail, odsend, sent>> /\ OutUnits' = OutUnits

(* The characters of s come into the output ring.                          *)
Puts(s) == Put(s) /\ OutUnits' = OutUnits - Len(s)

(* One goes out.                                                           *)
Sends ==
    /\ SendOne
    /\ UNCHANGED <<obuff, ohead>>
    /\ OutUnits' + odsend' = OutUnits + odsend + 1
    /\ Prompt => InBuffer > 0

(* What a process at r has still to put in the output ring.                *)
ToPut(r) ==
    IF r.op \in {"loop", "none", "rest"} THEN Expanded(r.left)
    ELSE IF r.op \in {"put", "place", "again"} THEN r.left ELSE <<>>

Due(p, text) == ToPut(pc[p]) \o Expanded(Named(p, text))

(* When not even the first character fits, writcopy returns 0, and         *)
(* ttywrite then asks it for as many characters as there is room for, of   *)
(* a text that may be shorter.                                             *)
WithinText == \A p \in Users : AtPc(p, "none") => osem.cnt <= Len(pc[p].left)

(* p asks for text to be written, and does s of all that is due then.      *)
Works(p, text, s) ==
    /\ wrote' = [wrote EXCEPT ![p] = wrote[p] \o text]
    /\ \A q \in Users \ {p} : pc'[q] = pc[q]
    /\ WithinText => SameText(Due(p, text), s \o ToPut(pc'[p]))

OutMove ==
    \/ (OutStill \/ Sends) /\ UNCHANGED <<pc, wrote>>
    \/ \E p \in Users, text \in Seq({"c", "NL"}), s \in Seq(Chr) :
           /\ Works(p, text, s)
           /\ (s = <<>> /\ OutStill) \/ Puts(s)

InStill == UNCHANGED <<ibuff, ihead, itail, icursor>> /\ InUnits' = InUnits

(* A reader takes k characters.                                            *)
Fetches(k) ==
    /\ UNCHANGED <<ibuff, ihead, icursor>>
    /\ itail' = (itail + k) % IBUFLEN
    /\ InUnits' = InUnits - k

(* A character that is typed comes into the input ring: into the line, or  *)
(* to be read at once, or it ends the line.                                *)
Adds ==
    /\ ibuff' = [ibuff EXCEPT ![ihead] = typed + 1]
    /\ ihead' = (ihead + 1) % IBUFLEN
    /\ UNCHANGED itail
    /\ InUnits' + icursor' = InUnits + icursor + 1
    /\ icursor' \in {icursor + 1, icursor, 0}
    /\ typed < MaxTyped
    /\ Roomy => Stored # IBUFLEN

(* The last k characters of the line are erased.                           *)
Drops(k) ==
    /\ UNCHANGED <<ibuff, itail>>
    /\ ihead' = (ihead - k) % IBUFLEN
    /\ icursor' = icursor - k
    /\ InUnits' = InUnits

InMove ==
    \/ InStill \/ Adds
    \/ \E k \in Nat : Fetches(k)
    \/ \E k \in {1, icursor} : k <= icursor /\ Drops(k)

(* A call read(.., 0) takes what there is.  When others wait the count is  *)
(* negative, and then sreset lets them go without a character.             *)
NoZeroRead == \A w \in Loads : 0 \notin w.counts

StepOK == ConsoleInv' /\ OutMove /\ (NoZeroRead => InMove)

(* What a call to the one side leaves alone on the other.                  *)
LEMMA OutUntouched ==
    ASSUME ConsoleInv, UNCHANGED outVars,
           NEW p \in Users, NEW r, GoesOn(pc, p, r, pc'),
           pc[p].op \notin PutOps, r.op \notin PutOps
    PROVE  OutInv' /\ OutStill
<1>1. DOMAIN pc = Users /\ SemOK(osem, pc, PutOps)
  BY DEF ConsoleInv, PlacesInv, OutInv
<1>2. SemOK(osem, pc', PutOps) /\ Units(osem, pc', PutOps) = Units(osem, pc, PutOps)
  BY <1>1, StaysOutside
<1> QED BY <1>2 DEF ConsoleInv, OutInv, OutStill, OutUnits, outVars

LEMMA InUntouched ==
    ASSUME ConsoleInv, UNCHANGED inVars,
           NEW p \in Users, NEW r, GoesOn(pc, p, r, pc'),
           pc[p].op \notin GetOps, r.op \notin GetOps
    PROVE  InInv' /\ InStill
<1>1. DOMAIN pc = Users /\ SemOK(isem, pc, GetOps)
  BY DEF ConsoleInv, PlacesInv, InInv
<1>2. SemOK(isem, pc', GetOps) /\ Units(isem, pc', GetOps) = Units(isem, pc, GetOps)
  BY <1>1, StaysOutside
<1> QED BY <1>2 DEF ConsoleInv, InInv, InStill, InUnits, inVars

LEMMA PlacesStay ==
    ASSUME ConsoleInv, NEW p \in Users, NEW r, PlaceOK(r), GoesOn(pc, p, r, pc'),
           wrote' \in [Users -> Seq({"c", "NL"})]
    PROVE  PlacesInv'
BY DEF ConsoleInv, PlacesInv, PlaceOK, GoesOn

(* What a call to the output side leaves alone.                            *)
OutFrame(p, text) ==
    /\ UNCHANGED <<inVars, echo, iecho, oheld, load>>
    /\ wrote' = [wrote EXCEPT ![p] = wrote[p] \o text]

LEMMA OutFrameIs ==
    ASSUME ConsoleInv, NEW p \in Users, NEW text \in Seq({"c", "NL"}),
           wrote' = [wrote EXCEPT ![p] = wrote[p] \o text]
    PROVE  wrote' \in [Users -> Seq({"c", "NL"})]
<1>1. wrote \in [Users -> Seq({"c", "NL"})]
  BY DEF ConsoleInv, PlacesInv
<1>2. wrote[p] \o text \in Seq({"c", "NL"})
  BY <1>1, ConcatProperties
<1> QED BY <1>1, <1>2

(* A call that writes nothing new.                                         *)
LEMMA NothingNew ==
    ASSUME ConsoleInv, NEW p \in Users
    PROVE  /\ <<>> \in Seq({"c", "NL"})
           /\ Due(p, <<>>) = ToPut(pc[p]) /\ ToPut(pc[p]) \in Seq(Chr)
           /\ wrote = [wrote EXCEPT ![p] = wrote[p] \o <<>>]
<1>1. /\ wrote \in [Users -> Seq({"c", "NL"})]
      /\ pc[p].left \in Seq(Chr)
  BY DEF ConsoleInv, PlacesInv, Place
<1>2. <<>> \in Seq({"c", "NL"}) /\ Len(<<>>) = 0 /\ <<>> \in Seq(Chr)
  BY EmptySeq
<1>3. Expanded(Named(p, <<>>)) = <<>>
  <2>1. Named(p, <<>>) \in Seq(Chr) /\ Len(Named(p, <<>>)) = 0
    BY <1>1, <1>2, NamedText
  <2> QED BY <2>1, ExpandedText
<1>4. ToPut(pc[p]) \in Seq(Chr)
  <2>1. Expanded(pc[p].left) \in Seq(Chr)
    BY <1>1, ExpandedText
  <2> QED BY <1>1, <1>2, <2>1 DEF ToPut
<1>5. Due(p, <<>>) = ToPut(pc[p])
  <2> DEFINE s == ToPut(pc[p])
  <2>1. s \in Seq(Chr)
    BY <1>4
  <2> HIDE DEF s
  <2>2. s \o <<>> = s
    BY <2>1, ConcatEmptySeq
  <2> QED BY <1>3, <2>2 DEF Due, s
<1>6. wrote[p] \o <<>> = wrote[p]
  BY <1>1, ConcatEmptySeq
<1> QED BY <1>1, <1>2, <1>4, <1>5, <1>6

(* A call to the output side, of which what it does to that side is known. *)
LEMMA OutCallKeeps ==
    ASSUME ConsoleInv, NEW p \in Users, NEW r, PlaceOK(r), GoesOn(pc, p, r, pc'),
           pc[p].op \notin GetOps, r.op \notin GetOps,
           NEW text \in Seq({"c", "NL"}), OutFrame(p, text), ctstat' \in BOOLEAN,
           OutInv', NEW s \in Seq(Chr), (s = <<>> /\ OutStill) \/ Puts(s),
           WithinText => SameText(Due(p, text), s \o ToPut(r))
    PROVE  StepOK
<1>1. InInv' /\ InStill
  BY InUntouched DEF OutFrame
<1>2. PlacesInv'
  BY PlacesStay, OutFrameIs DEF OutFrame
<1>3. SwitchesInv' /\ (load \in Loads)'
  BY DEF ConsoleInv, SwitchesInv, OutFrame
<1>4. pc'[p] = r /\ \A q \in Users \ {p} : pc'[q] = pc[q]
  BY DEF ConsoleInv, PlacesInv, GoesOn
<1>5. Works(p, text, s)
  BY <1>4 DEF Works, OutFrame
<1>6. OutMove
  BY <1>5 DEF OutMove
<1> QED BY <1>1, <1>2, <1>3, <1>6 DEF StepOK, ConsoleInv, InMove

(* Where nothing is being written.                                         *)
ReadOps == {"idle", "get", "copied", "peek"}

LEMMA InCallKeeps ==
    ASSUME ConsoleInv, NEW p \in Users, NEW r, PlaceOK(r), GoesOn(pc, p, r, pc'),
           pc[p].op \in ReadOps, r.op \in ReadOps,
           UNCHANGED <<outVars, wrote, echo, oheld, ctstat, load>>,
           iecho' \in BOOLEAN, InInv', NoZeroRead => InMove
    PROVE  StepOK
<1>1. OutInv' /\ OutStill
  <2>1. pc[p].op \notin PutOps /\ r.op \notin PutOps
    BY DEF ReadOps, PutOps
  <2> QED BY <2>1, OutUntouched
<1>2. PlacesInv'
  BY PlacesStay DEF ConsoleInv, PlacesInv
<1>3. SwitchesInv' /\ (load \in Loads)'
  BY DEF ConsoleInv, SwitchesInv
<1>4. pc'[p] = r /\ \A q \in Users \ {p} : pc'[q] = pc[q]
  BY DEF ConsoleInv, PlacesInv, GoesOn
<1>5. Works(p, <<>>, <<>>)
  <2>1. ToPut(pc[p]) = <<>> /\ ToPut(pc'[p]) = <<>>
    BY <1>4 DEF ToPut, ReadOps
  <2>2. Due(p, <<>>) = <<>> /\ wrote' = [wrote EXCEPT ![p] = wrote[p] \o <<>>]
    BY <2>1, NothingNew
  <2>3. <<>> \o <<>> = <<>>
    BY ConcatEmptySeq
  <2>4. SameText(Due(p, <<>>), <<>> \o ToPut(pc'[p]))
    BY <2>1, <2>2, <2>3 DEF SameText
  <2> QED BY <1>4, <2>2, <2>4 DEF Works
<1>6. OutMove
  <2>1. <<>> \in Seq(Chr) /\ <<>> \in Seq({"c", "NL"})
    BY EmptySeq
  <2> QED BY <1>1, <1>5, <2>1 DEF OutMove
<1> QED BY <1>1, <1>2, <1>3, <1>6 DEF StepOK, ConsoleInv

LEMMA Standing ==
    ASSUME ConsoleInv
    PROVE  /\ DOMAIN pc = Users
           /\ SemOK(osem, pc, PutOps) /\ SemOK(isem, pc, GetOps)
           /\ osem.cnt \in Int /\ isem.cnt \in Int
           /\ ohead \in Int /\ otail \in Int /\ ihead \in Int /\ itail \in Int
           /\ OutUnits \in Int /\ InUnits \in Int /\ icursor \in Nat /\ odsend \in Nat
<1>1. DOMAIN pc = Users /\ SemOK(osem, pc, PutOps) /\ SemOK(isem, pc, GetOps)
  BY DEF ConsoleInv, PlacesInv, OutInv, InInv
<1>2. osem.cnt \in Int /\ isem.cnt \in Int
  BY <1>1 DEF SemOK
<1>3. OutUnits \in Int /\ InUnits \in Int
  BY <1>2, UsersFinite DEF OutUnits, InUnits, Units
<1>4. /\ ohead \in Int /\ otail \in Int /\ ihead \in Int /\ itail \in Int
      /\ icursor \in Nat /\ odsend \in Nat
  BY DEF ConsoleInv, OutInv, InInv
<1> QED BY <1>1, <1>2, <1>3, <1>4

LEMMA RingPlaces ==
    /\ \A a \in Int : a % OBUFLEN \in 0 .. OBUFLEN - 1
    /\ \A a \in Int : a % IBUFLEN \in 0 .. IBUFLEN - 1
    /\ \A a \in Int : a % EBUFLEN \in 0 .. EBUFLEN - 1
    /\ OBUFLEN \in Nat \ {0}
<1>1. OBUFLEN \in Nat \ {0} /\ IBUFLEN \in Nat \ {0} /\ EBUFLEN \in Nat \ {0}
  BY TtyAssumption
<1> QED BY <1>1, ModFacts

-----------------------------------------------------------------------------
(***************************************************************************)
(* The output side.                                                        *)
(***************************************************************************)

LEMMA PutMoves ==
    ASSUME ConsoleInv, NEW s \in Seq(Chr), Put(s),
           SemOK(osem', pc', PutOps), OutUnits' = OutUnits - Len(s),
           osem'.cnt <= osem.cnt
    PROVE  OutInv' /\ Puts(s)
<1>1. Len(s) \in Nat
  BY LenProperties
<1>2. /\ ohead' = (ohead + Len(s)) % OBUFLEN
      /\ UNCHANGED <<otail, odsend>>
  BY DEF Put
<1>3. ohead' \in 0 .. OBUFLEN - 1
  <2>1. ohead + Len(s) \in Int
    BY <1>1, Standing
  <2> QED BY <1>2, <2>1, RingPlaces
<1>4. odsend > 0 => osem'.cnt <= OBMINSP
  <2>1. odsend > 0 => osem.cnt <= OBMINSP
    BY DEF ConsoleInv, OutInv
  <2>2. osem.cnt \in Int /\ osem'.cnt \in Int /\ OBMINSP \in Int
    BY Standing, TtyAssumption DEF SemOK
  <2> QED BY <2>1, <2>2
<1>5. OutInv'
  BY <1>2, <1>3, <1>4 DEF ConsoleInv, OutInv
<1> QED BY <1>5 DEF Puts

(* The places a writer goes to.                                            *)
LEMMA GotoIs ==
    ASSUME NEW p \in Users, NEW op \in Ops, NEW left \in Seq(Chr), NEW n \in Nat,
           Goto(p, op, left, n)
    PROVE  \E r \in Place : /\ r.op = op /\ r.left = left /\ r.n = n
                            /\ GoesOn(pc, p, r, pc')
<1> DEFINE r == [op |-> op, left |-> left, n |-> n]
<1>1. r \in Place /\ r.op = op /\ r.left = left /\ r.n = n
  BY DEF Place
<1>2. GoesOn(pc, p, r, pc')
  BY DEF Goto, GoesOn
<1> QED BY <1>1, <1>2

LEMMA ReturnIs ==
    ASSUME NEW p \in Users, Return(p)
    PROVE  \E r \in Place : /\ r.op = "idle" /\ PlaceOK(r) /\ GoesOn(pc, p, r, pc')
                            /\ ToPut(r) = <<>>
<1>1. Goto(p, "idle", <<>>, 0) /\ "idle" \in Ops /\ <<>> \in Seq(Chr) /\ 0 \in Nat
  BY DEF Return, Ops
<1>2. PICK r \in Place : r.op = "idle" /\ GoesOn(pc, p, r, pc')
  BY <1>1, GotoIs
<1> QED BY <1>2 DEF PlaceOK, ToPut

LEMMA WaitIs ==
    ASSUME NEW p \in Users, NEW n \in Nat, n > 0, Goto(p, "get", <<>>, n)
    PROVE  \E r \in Place : r.op = "get" /\ PlaceOK(r) /\ GoesOn(pc, p, r, pc')
<1> DEFINE r == [op |-> "get", left |-> <<>>, n |-> n]
<1>1. r \in Place /\ r.op = "get" /\ r.n = n
  BY DEF Place, Ops
<1>2. GoesOn(pc, p, r, pc')
  BY DEF Goto, GoesOn
<1> HIDE DEF r
<1> QED BY <1>1, <1>2 DEF PlaceOK

LEMMA PutRestStep ==
    ASSUME ConsoleInv, NEW p \in Users, NEW text \in Seq({"c", "NL"}),
           OutFrame(p, text), NEW s \in Seq(Chr), WithinText => Due(p, text) = s,
           pc[p].op \notin GetOps, ~Contains(osem.queue, p),
           NEW held, held = One(pc[p].op, PutOps), held = 1 => s # <<>>,
           NEW started \in BOOLEAN, PutRest(p, s, held, started)
    PROVE  StepOK
<1> DEFINE n == AtMost(held + AtLeast0(osem.cnt), Len(s))
<1>1. /\ Put(SubSeq(s, 1, n))
      /\ \/ n = Len(s) /\ osem' = Taken(osem, n - held)
            /\ Return(p)
         \/ n < Len(s) /\ osem' = Queued(Taken(osem, n - held), p)
            /\ Goto(p, "put", SubSeq(s, n + 1, Len(s)), 0)
      /\ ctstat' = (ctstat \/ started \/ n > 0)
  BY DEF PutRest
<1>2. /\ osem.cnt \in Int /\ held \in {0, 1} /\ Len(s) \in Nat
      /\ held = 1 => Len(s) > 0
  BY Standing, LenProperties, EmptySeq DEF One
<1>3. /\ n \in Nat /\ n >= held /\ n <= Len(s) /\ n - held \in Nat
      /\ n - held <= AtLeast0(osem.cnt)
      /\ n < Len(s) => n - held = AtLeast0(osem.cnt)
  BY <1>2, UnitsTaken
<1> HIDE DEF n
<1>4. /\ SubSeq(s, 1, n) \in Seq(Chr) /\ Len(SubSeq(s, 1, n)) = n
      /\ SubSeq(s, n + 1, Len(s)) \in Seq(Chr)
      /\ Len(SubSeq(s, n + 1, Len(s))) = Len(s) - n
      /\ s = SubSeq(s, 1, n) \o SubSeq(s, n + 1, Len(s))
  <2>1. n \in 0 .. Len(s)
    BY <1>2, <1>3
  <2>2. s \in Seq(Chr)
    OBVIOUS
  <2> QED BY <2>1, <2>2, SplitAt, Zenon
<1>5. ctstat' \in BOOLEAN
  BY <1>1 DEF ConsoleInv, SwitchesInv
<1>6. (n - held) + held = n
  BY <1>2, <1>3
<1>7. CASE n = Len(s) /\ osem' = Taken(osem, n - held) /\ Return(p)
  <2>1. PICK r \in Place : /\ r.op = "idle" /\ PlaceOK(r) /\ GoesOn(pc, p, r, pc')
                           /\ ToPut(r) = <<>>
    BY <1>7, ReturnIs
  <2>2. r.op \notin PutOps /\ r.op \notin GetOps
    BY <2>1 DEF PutOps, GetOps
  <2>3. /\ SemOK(osem', pc', PutOps)
        /\ Units(osem', pc', PutOps) = OutUnits - n
        /\ osem'.cnt <= osem.cnt
    BY <1>3, <1>6, <1>7, <2>1, <2>2, Standing, TakesAndLeaves DEF OutUnits
  <2> DEFINE a == SubSeq(s, 1, n)
  <2>4. OutInv' /\ Puts(a)
    BY <1>1, <1>4, <2>3, PutMoves DEF OutUnits
  <2>5. SubSeq(s, n + 1, Len(s)) = <<>>
    BY <1>2, <1>4, <1>7, EmptySeq
  <2>6. WithinText => SameText(Due(p, text), a \o ToPut(r))
    BY <1>4, <2>1, <2>5 DEF SameText
  <2>7. a \in Seq(Chr)
    BY <1>4
  <2> HIDE DEF a
  <2> QED BY <1>5, <2>1, <2>2, <2>4, <2>6, <2>7, OutCallKeeps
<1>8. CASE /\ n < Len(s) /\ osem' = Queued(Taken(osem, n - held), p)
           /\ Goto(p, "put", SubSeq(s, n + 1, Len(s)), 0)
  <2>1. /\ SubSeq(s, n + 1, Len(s)) \in Seq(Chr)
        /\ SubSeq(s, n + 1, Len(s)) # <<>>
    <3>1. Len(s) - n # 0
      BY <1>2, <1>3, <1>8
    <3> QED BY <1>4, <3>1, EmptySeq
  <2>2. PICK r \in Place : /\ r.op = "put" /\ r.left = SubSeq(s, n + 1, Len(s))
                           /\ GoesOn(pc, p, r, pc')
    <3>1. "put" \in Ops /\ 0 \in Nat
      BY DEF Ops
    <3> QED BY <1>8, <2>1, <3>1, GotoIs
  <2>3. r.op \in PutOps /\ r.op \notin GetOps /\ PlaceOK(r)
    BY <2>1, <2>2 DEF PutOps, GetOps, PlaceOK
  <2>4. /\ SemOK(osem', pc', PutOps)
        /\ Units(osem', pc', PutOps) = OutUnits - n
        /\ osem'.cnt <= osem.cnt
    <3> DEFINE k == n - held
    <3>1. k = AtLeast0(osem.cnt) /\ k + held = n
      BY <1>3, <1>6, <1>8
    <3> HIDE DEF k
    <3>2. osem' = Queued(Taken(osem, k), p)
      BY <1>8 DEF k
    <3>3. /\ SemOK(Queued(Taken(osem, k), p), pc', PutOps)
          /\ Units(Queued(Taken(osem, k), p), pc', PutOps)
                 = Units(osem, pc, PutOps) - (k + held)
          /\ Queued(Taken(osem, k), p).cnt <= osem.cnt
      BY <2>2, <2>3, <3>1, Standing, TakesAndWaits
    <3> QED BY <3>1, <3>2, <3>3 DEF OutUnits
  <2> DEFINE a == SubSeq(s, 1, n)
  <2>5. OutInv' /\ Puts(a)
    BY <1>1, <1>4, <2>4, PutMoves DEF OutUnits
  <2>6. WithinText => SameText(Due(p, text), a \o ToPut(r))
    <3>1. ToPut(r) = SubSeq(s, n + 1, Len(s))
      BY <2>2 DEF ToPut
    <3> QED BY <1>4, <3>1 DEF SameText
  <2>7. a \in Seq(Chr)
    BY <1>4
  <2> HIDE DEF a
  <2> QED BY <1>5, <2>2, <2>3, <2>5, <2>6, <2>7, OutCallKeeps
<1> QED BY <1>1, <1>7, <1>8

LEMMA UserBufferIs ==
    ASSUME NEW p \in Users, NEW left \in Seq(Chr), NEW count \in Nat
    PROVE  /\ UserBuffer(p, left, count) \in Seq(Chr)
           /\ Len(UserBuffer(p, left, count)) \in Nat
           /\ Len(UserBuffer(p, left, count)) >= count
           /\ Len(UserBuffer(p, left, count)) >= Len(left)
           /\ count <= Len(left) => UserBuffer(p, left, count) = left
<1> DEFINE k == AtLeast0(count - Len(left))
           beyond == [i \in 1 .. k |-> Char(p, 0, "c")]
<1>1. Len(left) \in Nat
  BY LenProperties
<1>2. k \in Nat /\ Len(left) + k >= count /\ (count <= Len(left) => k = 0)
  BY <1>1 DEF AtLeast0
<1> HIDE DEF k
<1>3. beyond \in Seq(Chr) /\ Len(beyond) = k
  <2>1. Char(p, 0, "c") \in Chr
    BY DEF Char, Chr
  <2>2. beyond \in [1 .. k -> Chr]
    BY <2>1
  <2> HIDE DEF beyond
  <2> QED BY <1>2, <2>2, SeqDef, LenProperties
<1> HIDE DEF beyond
<1>4. /\ left \o beyond \in Seq(Chr)
      /\ Len(left \o beyond) = Len(left) + k
  BY <1>3, ConcatProperties
<1>5. UserBuffer(p, left, count) = left \o beyond
  BY DEF UserBuffer, beyond, k
<1>6. count <= Len(left) => left \o beyond = left
  <2>1. k = 0 => beyond = <<>>
    BY <1>3, EmptySeq
  <2>2. left \o <<>> = left
    BY ConcatEmptySeq
  <2> QED BY <1>2, <2>1, <2>2
<1> QED BY <1>1, <1>2, <1>4, <1>5, <1>6

(* How much of a text fits.                                                *)
LEMMA SomethingFits ==
    ASSUME NEW s \in Seq(Chr), osem.cnt \in Nat
    PROVE  LET k == CHOOSE k \in Fitting(s) : \A m \in Fitting(s) : m <= k
           IN  /\ k \in 0 .. Len(s)
               /\ Len(Expanded(SubSeq(s, 1, k))) <= osem.cnt
               /\ \A m \in Fitting(s) : m <= k
<1> DEFINE F == Fitting(s)
<1>1. Len(s) \in Nat /\ F \subseteq 0 .. Len(s)
  BY LenProperties DEF Fitting
<1>2. 0 \in F
  <2>1. SubSeq(s, 1, 0) \in Seq(Chr) /\ Len(SubSeq(s, 1, 0)) = 0
    OBVIOUS
  <2>2. Len(Expanded(SubSeq(s, 1, 0))) = 0
    BY <2>1, ExpandedText
  <2> QED BY <1>1, <2>2 DEF Fitting
<1>3. \A k \in F : Len(Expanded(SubSeq(s, 1, k))) <= osem.cnt
  BY DEF Fitting
<1> HIDE DEF F
<1>4. Max(F) \in F /\ \A m \in F : Max(F) >= m
  BY <1>1, <1>2, MaxOfBounded
<1>5. \A m \in F : m <= Max(F)
  BY <1>1, <1>4
<1> DEFINE k == CHOOSE k \in F : \A m \in F : m <= k
<1>6. k \in F /\ \A m \in F : m <= k
  BY <1>4, <1>5
<1> HIDE DEF k
<1>7. /\ k \in 0 .. Len(s) /\ Len(Expanded(SubSeq(s, 1, k))) <= osem.cnt
      /\ \A m \in F : m <= k
  BY <1>1, <1>3, <1>6
<1> QED BY <1>7 DEF k, F

LEMMA SubSeqTwice ==
    ASSUME NEW S, NEW s \in Seq(S), NEW n \in 0 .. Len(s), NEW k \in 0 .. n
    PROVE  SubSeq(SubSeq(s, 1, n), 1, k) = SubSeq(s, 1, k)
<1> DEFINE t == SubSeq(s, 1, n)
<1>1. Len(s) \in Nat /\ n \in Nat /\ k \in Nat /\ \A i \in 1 .. Len(s) : s[i] \in S
  BY LenProperties, ElementOfSeq
<1>2. t \in Seq(S) /\ Len(t) = n /\ \A i \in 1 .. n : t[i] = s[i]
  <2>1. \A i \in 1 .. n : s[i] \in S
    BY <1>1
  <2> QED BY <1>1, <2>1, SubSeqProperties
<1> HIDE DEF t
<1>3. /\ SubSeq(t, 1, k) \in Seq(S) /\ Len(SubSeq(t, 1, k)) = k
      /\ \A i \in 1 .. k : SubSeq(t, 1, k)[i] = t[i]
  <2>1. \A i \in 1 .. k : t[i] \in S
    BY <1>1, <1>2
  <2> QED BY <1>1, <1>2, <2>1, SubSeqProperties
<1>4. /\ SubSeq(s, 1, k) \in Seq(S) /\ Len(SubSeq(s, 1, k)) = k
      /\ \A i \in 1 .. k : SubSeq(s, 1, k)[i] = s[i]
  <2>1. \A i \in 1 .. k : s[i] \in S
    BY <1>1
  <2> QED BY <1>1, <2>1, SubSeqProperties
<1>5. \A i \in 1 .. k : SubSeq(t, 1, k)[i] = SubSeq(s, 1, k)[i]
  BY <1>1, <1>2, <1>3, <1>4
<1> QED BY <1>3, <1>4, <1>5, SeqEqual DEF t

(* A return in place of a newline: what there is to put stays, but for the *)
(* newline that is put before the return.                                  *)
LEMMA ReturnStays ==
    ASSUME NEW s \in Seq(Chr)
    PROVE  LET new == [s EXCEPT ![1].c = "CR"]
           IN  /\ new \in Seq(Chr) /\ Len(new) = Len(s)
               /\ Len(s) > 0 =>
                      /\ new[1] = [s[1] EXCEPT !.c = "CR"]
                      /\ \A i \in 2 .. Len(s) : new[i] = s[i]
<1> DEFINE t == [s EXCEPT ![1].c = "CR"]
<1>1. Len(s) \in Nat /\ DOMAIN s = 1 .. Len(s) /\ \A i \in 1 .. Len(s) : s[i] \in Chr
  BY LenProperties, ElementOfSeq
<1>2. \A ch \in Chr : [ch EXCEPT !.c = "CR"] \in Chr
  BY DEF Chr
<1>3. t = [i \in 1 .. Len(s) |-> IF i = 1 THEN [s[1] EXCEPT !.c = "CR"] ELSE s[i]]
  BY <1>1
<1> HIDE DEF t
<1>4. ASSUME NEW i \in 1 .. Len(s)
      PROVE  t[i] \in Chr
  BY <1>1, <1>2, <1>3
<1>5. t \in [1 .. Len(s) -> Chr]
  BY <1>3, <1>4
<1>6. t \in Seq(Chr) /\ Len(t) = Len(s)
  BY <1>1, <1>5, SeqDef, LenProperties
<1>7. ASSUME Len(s) > 0
      PROVE  t[1] = [s[1] EXCEPT !.c = "CR"] /\ \A i \in 2 .. Len(s) : t[i] = s[i]
  <2>1. 1 \in 1 .. Len(s) /\ \A i \in 2 .. Len(s) : i \in 1 .. Len(s) /\ i # 1
    BY <1>1, <1>7
  <2>2. t[1] = [s[1] EXCEPT !.c = "CR"]
    BY <1>3, <2>1
  <2> QED BY <1>3, <2>1, <2>2
<1> QED BY <1>6, <1>7 DEF t

LEMMA HalfNewline ==
    ASSUME NEW s \in Seq(Chr), Len(s) > 0, s[1].c = "NL"
    PROVE  SameText(Expanded(s), <<s[1]>> \o Expanded([s EXCEPT ![1].c = "CR"]))
<1> DEFINE t == [s EXCEPT ![1].c = "CR"]
           ch == s[1]
           cr == [s[1] EXCEPT !.c = "CR"]
           tail == SubSeq(s, 2, Len(s))
<1>1. /\ t \in Seq(Chr) /\ Len(t) = Len(s) /\ t[1] = cr
      /\ \A i \in 2 .. Len(s) : t[i] = s[i]
      /\ Len(s) \in Nat
  BY ReturnStays, LenProperties
<1> HIDE DEF t
<1>2. ch \in Chr /\ ch.c = "NL"
  <2>1. 1 \in 1 .. Len(s)
    BY <1>1
  <2> QED BY <2>1, ElementOfSeq
<1>3. cr \in Chr /\ cr.by = ch.by /\ cr.n = ch.n /\ cr.c = "CR"
  <2> HIDE DEF ch
  <2>1. [ch EXCEPT !.c = "CR"] \in Chr
    BY <1>2, CharExpandedIs
  <2>2. LET r == [ch EXCEPT !.c = "CR"] IN r.by = ch.by /\ r.n = ch.n /\ r.c = "CR"
    BY <1>2 DEF Chr
  <2> QED BY <2>1, <2>2 DEF ch
<1>4. /\ tail \in Seq(Chr) /\ Len(tail) = Len(s) - 1
      /\ \A i \in 1 .. Len(s) - 1 : tail[i] = s[1 + i]
  <2>1. 1 \in 0 .. Len(s) /\ 1 + 1 = 2
    BY <1>1
  <2> QED BY <2>1, SplitAt
<1> HIDE DEF cr, ch, tail
<1>5. s = <<ch>> \o tail /\ t = <<cr>> \o tail
  <2> DEFINE one == <<ch>>
             two == <<cr>>
  <2>1. /\ one \in Seq(Chr) /\ Len(one) = 1 /\ one[1] = ch
        /\ two \in Seq(Chr) /\ Len(two) = 1 /\ two[1] = cr
    BY <1>2, <1>3
  <2> HIDE DEF one, two
  <2>2. /\ \A i \in 1 .. Len(one) : s[i] = one[i]
        /\ \A i \in 1 .. Len(two) : t[i] = two[i]
    BY <1>1, <2>1 DEF ch
  <2>3. /\ \A i \in 1 .. Len(tail) : s[Len(one) + i] = tail[i]
        /\ \A i \in 1 .. Len(tail) : t[Len(two) + i] = tail[i]
    <3>1. \A i \in 1 .. Len(s) - 1 : 1 + i \in 2 .. Len(s)
      BY <1>1
    <3> QED BY <1>1, <1>4, <2>1, <3>1
  <2>4. Len(s) = Len(one) + Len(tail) /\ Len(t) = Len(two) + Len(tail)
    BY <1>1, <1>4, <2>1
  <2>5. s = one \o tail
    BY <1>4, <2>1, <2>2, <2>3, <2>4, ConcatIs
  <2>6. t = two \o tail
    BY <1>1, <1>4, <2>1, <2>2, <2>3, <2>4, ConcatIs
  <2> QED BY <2>5, <2>6 DEF one, two
<1> DEFINE e == Expanded(tail)
<1>6. Expanded(s) = <<cr, ch>> \o e /\ Expanded(t) = <<cr>> \o e
  <2>1. /\ <<ch>> \in Seq(Chr) /\ <<cr>> \in Seq(Chr)
        /\ Expanded(<<ch>>) = <<cr, ch>>
        /\ Expanded(<<cr>>) = <<cr>>
    <3>1. /\ CharExpanded(ch) = <<cr, ch>> /\ CharExpanded(cr) = <<cr>>
      BY <1>2, <1>3, CharExpandedIs DEF cr, ch
    <3> DEFINE one == <<ch>>
               two == <<cr>>
    <3>2. /\ one \in Seq(Chr) /\ Len(one) = 1 /\ one[1] = ch
          /\ two \in Seq(Chr) /\ Len(two) = 1 /\ two[1] = cr
      BY <1>2, <1>3
    <3> HIDE DEF one, two
    <3>3. Expanded(one) = CharExpanded(ch) /\ Expanded(two) = CharExpanded(cr)
      BY <3>2, ExpandedText
    <3> QED BY <3>1, <3>2, <3>3 DEF one, two
  <2>2. /\ Expanded(<<ch>> \o tail) = Expanded(<<ch>>) \o e
        /\ Expanded(<<cr>> \o tail) = Expanded(<<cr>>) \o e
    BY <1>4, <2>1, ExpandedConcat
  <2> QED BY <1>5, <2>1, <2>2
<1>7. e \in Seq(Chr)
  BY <1>4, ExpandedText
<1> HIDE DEF e
<1>8. <<ch>> \o (<<cr>> \o e) = <<ch, cr>> \o e
  <2>1. <<ch>> \in Seq(Chr) /\ <<cr>> \in Seq(Chr) /\ <<ch>> \o <<cr>> = <<ch, cr>>
    <3> DEFINE one == <<ch>>
               two == <<cr>>
               both == <<ch, cr>>
    <3>1. /\ one \in Seq(Chr) /\ Len(one) = 1 /\ one[1] = ch
          /\ two \in Seq(Chr) /\ Len(two) = 1 /\ two[1] = cr
          /\ both \in Seq(Chr) /\ Len(both) = 2 /\ both[1] = ch /\ both[2] = cr
      BY <1>2, <1>3
    <3> HIDE DEF one, two, both
    <3>2. /\ Len(both) = Len(one) + Len(two)
          /\ \A i \in 1 .. Len(one) : both[i] = one[i]
          /\ \A i \in 1 .. Len(two) : both[Len(one) + i] = two[i]
      BY <3>1
    <3>3. both = one \o two
      BY <3>1, <3>2, ConcatIs
    <3> QED BY <3>1, <3>3 DEF one, two, both
  <2>2. (<<ch>> \o <<cr>>) \o e = <<ch>> \o (<<cr>> \o e)
    BY <1>7, <2>1, ConcatThrice
  <2> QED BY <2>1, <2>2
<1>9. SameText(<<cr, ch>>, <<ch, cr>>) /\ SameText(e, e)
  BY <1>3 DEF SameText
<1>10. SameText(<<cr, ch>> \o e, <<ch, cr>> \o e)
  <2>1. <<cr, ch>> \in Seq(Chr) /\ <<ch, cr>> \in Seq(Chr)
    BY <1>2, <1>3
  <2> QED BY <1>7, <1>9, <2>1, SameConcat
<1> QED BY <1>6, <1>8, <1>10 DEF t, ch

(* What writcopy puts into the ring fits, and what it leaves is a text.    *)
WritcopyDoes(p, left, count, op) ==
    \E s \in Seq(Chr), new \in Seq(Chr) :
        /\ Len(s) <= osem.cnt
        /\ Put(s)
        /\ osem' = Reset(osem.cnt - Len(s))
        /\ Goto(p, op, new, 0) \/ Goto(p, "none", new, 0)
        /\ count <= Len(left) => SameText(Expanded(left), s \o Expanded(new))

LEMMA WritcopyFits ==
    ASSUME NEW p \in Users, NEW left \in Seq(Chr), NEW count \in Nat,
           osem.cnt \in Nat, NEW op, Writcopy(p, left, count, op)
    PROVE  WritcopyDoes(p, left, count, op)
<1> DEFINE user     == UserBuffer(p, left, count)
           part     == SubSeq(user, 1, count)
           fromUser == CHOOSE k \in Fitting(part) : \A m \in Fitting(part) : m <= k
           whole    == Expanded(SubSeq(user, 1, fromUser))
           halfFits == /\ fromUser < count /\ user[fromUser + 1].c = "NL"
                       /\ Len(whole) + 1 <= osem.cnt
           rest     == SubSeq(user, fromUser + 1, Len(left))
           toBuffer == IF halfFits THEN Append(whole, user[fromUser + 1]) ELSE whole
           newleft  == IF halfFits THEN [rest EXCEPT ![1].c = "CR"] ELSE rest
<1>1. /\ Put(toBuffer)
      /\ osem' = Reset(osem.cnt - Len(toBuffer))
      /\ Goto(p, IF op = "loop" /\ fromUser = 0 THEN "none" ELSE op, newleft, 0)
  BY DEF Writcopy
<1>2. Goto(p, op, newleft, 0) \/ Goto(p, "none", newleft, 0)
  BY <1>1
<1>3. /\ user \in Seq(Chr) /\ Len(user) \in Nat /\ Len(user) >= count
      /\ Len(user) >= Len(left) /\ Len(left) \in Nat
      /\ count <= Len(left) => user = left
      /\ \A i \in 1 .. Len(user) : user[i] \in Chr
  BY UserBufferIs, ElementOfSeq, LenProperties
<1> HIDE DEF user
<1>4. part \in Seq(Chr) /\ Len(part) = count
  <2>1. \A i \in 1 .. count : user[i] \in Chr
    BY <1>3
  <2> QED BY <2>1, SubSeqProperties
<1> HIDE DEF part
<1>5. /\ fromUser \in 0 .. Len(part)
      /\ Len(Expanded(SubSeq(part, 1, fromUser))) <= osem.cnt
  BY <1>4, SomethingFits
<1> HIDE DEF fromUser
<1>6. fromUser \in 0 .. count
  BY <1>4, <1>5
<1>7. SubSeq(part, 1, fromUser) = SubSeq(user, 1, fromUser)
  <2>1. count \in 0 .. Len(user)
    BY <1>3
  <2> QED BY <1>3, <1>6, <2>1, SubSeqTwice DEF part
<1>8. /\ whole \in Seq(Chr) /\ Len(whole) \in Nat
      /\ Len(whole) <= osem.cnt
  <2>1. \A i \in 1 .. fromUser : user[i] \in Chr
    BY <1>3, <1>6
  <2>2. SubSeq(user, 1, fromUser) \in Seq(Chr)
    BY <1>6, <2>1, SubSeqProperties
  <2> QED BY <1>5, <1>7, <2>2, ExpandedText
<1>9. rest \in Seq(Chr)
  <2>1. \A i \in fromUser + 1 .. Len(left) : user[i] \in Chr
    BY <1>3, <1>6
  <2> QED BY <1>3, <1>6, <2>1, SubSeqProperties
<1>12. count <= Len(left) => Expanded(left) = whole \o Expanded(rest)
  <2> DEFINE head == SubSeq(left, 1, fromUser)
             tail == SubSeq(left, fromUser + 1, Len(left))
  <2>1. ASSUME count <= Len(left)
        PROVE  /\ head \in Seq(Chr) /\ tail \in Seq(Chr) /\ left = head \o tail
               /\ whole = Expanded(head) /\ rest = tail
    <3>1. fromUser \in 0 .. Len(left) /\ user = left
      BY <1>3, <1>6, <2>1
    <3> QED BY <3>1, SplitAt
  <2> HIDE DEF head, tail, whole, rest
  <2>2. ASSUME count <= Len(left) PROVE Expanded(left) = whole \o Expanded(rest)
    <3>1. Expanded(head \o tail) = Expanded(head) \o Expanded(tail)
      BY <2>1, <2>2, ExpandedConcat
    <3> QED BY <2>1, <2>2, <3>1, Zenon
  <2> QED BY <2>2
<1>13. ASSUME count <= Len(left), halfFits
       PROVE  Len(rest) > 0 /\ rest[1] = user[fromUser + 1] /\ rest[1].c = "NL"
  <2>1. fromUser \in 0 .. Len(left) /\ user = left /\ fromUser < Len(left)
        /\ user[fromUser + 1].c = "NL"
    BY <1>3, <1>6, <1>13
  <2>2. /\ Len(rest) = Len(left) - fromUser
        /\ \A i \in 1 .. Len(left) - fromUser : rest[i] = left[fromUser + i]
    <3>1. rest = SubSeq(left, fromUser + 1, Len(left))
      BY <2>1
    <3> HIDE DEF rest, user, whole
    <3> QED BY <2>1, <3>1, SplitAt
  <2>3. 1 \in 1 .. Len(left) - fromUser /\ Len(left) - fromUser > 0
    BY <1>3, <2>1
  <2> HIDE DEF rest, user, whole
  <2>4. rest[1] = user[fromUser + 1]
    BY <2>1, <2>2, <2>3
  <2> QED BY <2>1, <2>2, <2>3, <2>4
<1> HIDE DEF whole, rest
<1>10. newleft \in Seq(Chr)
  <2>1. [rest EXCEPT ![1].c = "CR"] \in Seq(Chr)
    BY <1>9, ReturnStays
  <2> QED BY <1>9, <2>1, Zenon
<1>11. toBuffer \in Seq(Chr) /\ Len(toBuffer) <= osem.cnt
  <2>1. CASE halfFits
    <3>1. user[fromUser + 1] \in Chr
      BY <1>3, <1>6, <2>1
    <3> DEFINE a == Append(whole, user[fromUser + 1])
    <3>2. a \in Seq(Chr) /\ Len(a) = Len(whole) + 1
      BY <1>8, <3>1, AppendProperties
    <3>3. toBuffer = a
      BY <2>1
    <3>4. Len(whole) + 1 <= osem.cnt
      BY <2>1
    <3> HIDE DEF a, toBuffer
    <3> QED BY <3>2, <3>3, <3>4
  <2>2. CASE ~halfFits
    <3>1. toBuffer = whole
      BY <2>2, Zenon
    <3> QED BY <1>8, <3>1
  <2> QED BY <2>1, <2>2
<1>14. ASSUME count <= Len(left)
       PROVE  SameText(Expanded(left), toBuffer \o Expanded(newleft))
  <2>1. Expanded(left) = whole \o Expanded(rest) /\ Expanded(rest) \in Seq(Chr)
    BY <1>9, <1>12, <1>14, ExpandedText
  <2>2. CASE halfFits
    <3> DEFINE ch == user[fromUser + 1]
               one == <<ch>>
               new == Expanded([rest EXCEPT ![1].c = "CR"])
    <3>1. toBuffer = Append(whole, ch) /\ Expanded(newleft) = new
      BY <2>2, Zenon
    <3>2. Len(rest) > 0 /\ rest[1] = ch /\ rest[1].c = "NL"
      BY <1>13, <1>14, <2>2
    <3>3. ch \in Chr /\ new \in Seq(Chr)
      <4>1. 1 \in 1 .. Len(rest)
        BY <1>9, <3>2, LenProperties
      <4>2. rest[1] \in Chr
        BY <1>9, <4>1, ElementOfSeq
      <4>3. [rest EXCEPT ![1].c = "CR"] \in Seq(Chr)
        BY <1>9, ReturnStays
      <4> QED BY <3>2, <4>2, <4>3, ExpandedText
    <3>4. SameText(Expanded(rest), one \o new)
      BY <1>9, <3>2, HalfNewline
    <3> HIDE DEF new, ch, toBuffer, newleft
    <3>5. one \in Seq(Chr) /\ Append(whole, ch) = whole \o one
      BY <1>8, <3>3, AppendIsConcat
    <3> HIDE DEF one
    <3>6. one \o new \in Seq(Chr) /\ SameText(whole, whole)
      BY <3>3, <3>5, ConcatProperties DEF SameText
    <3>7. SameText(whole \o Expanded(rest), whole \o (one \o new))
      BY <1>8, <2>1, <3>4, <3>6, SameConcat
    <3>8. (whole \o one) \o new = whole \o (one \o new)
      BY <1>8, <3>3, <3>5, ConcatThrice
    <3> QED BY <2>1, <3>1, <3>5, <3>7, <3>8
  <2>3. CASE ~halfFits
    <3>1. toBuffer = whole /\ newleft = rest
      BY <2>3, Zenon
    <3> HIDE DEF toBuffer, newleft
    <3> QED BY <2>1, <3>1 DEF SameText
  <2> QED BY <2>2, <2>3
<1> HIDE DEF toBuffer, newleft
<1> QED BY <1>1, <1>2, <1>10, <1>11, <1>14 DEF WritcopyDoes

LEMMA WritcopyStep ==
    ASSUME ConsoleInv, NEW p \in Users, NEW text \in Seq({"c", "NL"}),
           OutFrame(p, text), NEW left \in Seq(Chr),
           WithinText => Due(p, text) = Expanded(left),
           NEW count \in Nat, osem.cnt \in Nat, NEW op \in {"loop", "rest"},
           WithinText => count <= Len(left),
           pc[p].op \notin PutOps, pc[p].op \notin GetOps, ctstat' \in BOOLEAN,
           Writcopy(p, left, count, op)
    PROVE  StepOK
<1>1. WritcopyDoes(p, left, count, op)
  BY WritcopyFits
<1>2. PICK s \in Seq(Chr), new \in Seq(Chr) :
          /\ Len(s) <= osem.cnt
          /\ Put(s)
          /\ osem' = Reset(osem.cnt - Len(s))
          /\ Goto(p, op, new, 0) \/ Goto(p, "none", new, 0)
          /\ count <= Len(left) => SameText(Expanded(left), s \o Expanded(new))
  BY <1>1 DEF WritcopyDoes
<1>3. /\ DOMAIN pc = Users /\ SemOK(osem, pc, PutOps) /\ OutUnits \in Int
      /\ osem.cnt \in Int /\ Len(s) \in Nat
      /\ osem.cnt - Len(s) \in Nat
  BY <1>2, Standing, LenProperties
<1>4. PICK r \in Place : /\ r.op \in {op, "none"} /\ r.left = new
                         /\ GoesOn(pc, p, r, pc')
  <2>1. op \in Ops /\ "none" \in Ops /\ 0 \in Nat
    BY DEF Ops
  <2>2. CASE Goto(p, op, new, 0)
    BY <2>1, <2>2, GotoIs
  <2>3. CASE Goto(p, "none", new, 0)
    BY <2>1, <2>3, GotoIs
  <2> QED BY <1>2, <2>2, <2>3
<1>5. PlaceOK(r) /\ r.op \notin PutOps /\ r.op \notin GetOps
  BY <1>4 DEF PlaceOK, PutOps, GetOps
<1>6. SemOK(osem, pc', PutOps) /\ Units(osem, pc', PutOps) = Units(osem, pc, PutOps)
  BY <1>3, <1>4, <1>5, StaysOutside
<1> DEFINE n == osem.cnt - Len(s)
<1>7. n \in Nat /\ osem.cnt - n = Len(s) /\ n <= osem.cnt
  BY <1>2, <1>3
<1> HIDE DEF n
<1>8. /\ SemOK(Reset(n), pc', PutOps)
      /\ Units(Reset(n), pc', PutOps) = Units(osem, pc', PutOps) - (osem.cnt - n)
  BY <1>6, <1>7, ResetUnits
<1>9. osem' = Reset(n) /\ Reset(n).cnt = n
  BY <1>2 DEF n, Reset
<1>10. SemOK(osem', pc', PutOps) /\ OutUnits' = OutUnits - Len(s)
       /\ osem'.cnt <= osem.cnt
  BY <1>6, <1>7, <1>8, <1>9 DEF OutUnits
<1>11. OutInv' /\ Puts(s)
  BY <1>2, <1>10, PutMoves
<1>12. WithinText => SameText(Due(p, text), s \o ToPut(r))
  <2>1. ToPut(r) = Expanded(new)
    BY <1>4 DEF ToPut
  <2> QED BY <1>2, <2>1
<1> QED BY <1>4, <1>5, <1>11, <1>12, OutCallKeeps

LEMMA WriteRestStep ==
    ASSUME ConsoleInv, NEW p \in Users, NEW text \in Seq({"c", "NL"}),
           OutFrame(p, text), NEW left \in Seq(Chr),
           WithinText => Due(p, text) = Expanded(left),
           WithinText => osem.cnt <= Len(left),
           pc[p].op \notin PutOps, pc[p].op \notin GetOps,
           NEW started \in BOOLEAN, WriteRest(p, left, started)
    PROVE  StepOK
<1>1. /\ SemOK(osem, pc, PutOps) /\ osem.cnt \in Int /\ ctstat \in BOOLEAN
  BY Standing DEF ConsoleInv, SwitchesInv
<1>2. CASE /\ osem.cnt > 0
           /\ Writcopy(p, left, osem.cnt, "rest")
           /\ ctstat' = (ctstat \/ started)
  <2>1. osem.cnt \in Nat /\ ctstat' \in BOOLEAN
    BY <1>1, <1>2
  <2> QED BY <1>2, <2>1, WritcopyStep
<1>3. CASE osem.cnt <= 0 /\ PutRest(p, Expanded(left), 0, started)
  <2>1. Expanded(left) \in Seq(Chr)
    BY ExpandedText
  <2>2. ~Contains(osem.queue, p)
    BY <1>1, OutsideNotQueued
  <2>3. 0 = One(pc[p].op, PutOps) /\ (0 = 1 => Expanded(left) # <<>>)
    BY DEF One
  <2> QED BY <1>3, <2>1, <2>2, <2>3, PutRestStep
<1> QED BY <1>2, <1>3 DEF WriteRest

LEMMA WriteLoopStep ==
    ASSUME ConsoleInv, NEW p \in Users, NEW text \in Seq({"c", "NL"}),
           OutFrame(p, text), NEW left \in Seq(Chr),
           WithinText => Due(p, text) = Expanded(left),
           pc[p].op \notin PutOps, pc[p].op \notin GetOps, WriteLoop(p, left)
    PROVE  StepOK
<1>1. osem.cnt \in Int /\ ctstat \in BOOLEAN /\ Len(left) \in Nat
  BY Standing, LenProperties DEF ConsoleInv, SwitchesInv
<1>2. CASE /\ osem.cnt >= Len(left)
           /\ Writcopy(p, left, Len(left), "loop")
           /\ UNCHANGED ctstat
  <2>1. osem.cnt \in Nat /\ ctstat' \in BOOLEAN
    BY <1>1, <1>2
  <2> QED BY <1>1, <1>2, <2>1, WritcopyStep
<1>3. CASE osem.cnt < Len(left) /\ WriteRest(p, left, FALSE)
  <2>1. osem.cnt <= Len(left)
    BY <1>1, <1>3
  <2> QED BY <1>3, <2>1, WriteRestStep
<1> QED BY <1>2, <1>3 DEF WriteLoop

LEMMA WriteOnStep ==
    ASSUME ConsoleInv, NEW p \in Users, WriteOn(p), UNCHANGED load
    PROVE  StepOK
<1>1. /\ OutFrame(p, <<>>) /\ <<>> \in Seq({"c", "NL"})
      /\ PlaceOK(pc[p]) /\ pc[p].left \in Seq(Chr)
      /\ Due(p, <<>>) = ToPut(pc[p])
  <2>1. UNCHANGED <<wrote, inVars, echo, iecho, oheld, load>>
    BY DEF WriteOn
  <2>2. PlaceOK(pc[p]) /\ pc[p].left \in Seq(Chr)
    BY DEF ConsoleInv, PlacesInv, PlaceOK, Place
  <2> QED BY <2>1, <2>2, NothingNew DEF OutFrame
<1>2. CASE AtPc(p, "loop") /\ pc[p].left # <<>> /\ WriteLoop(p, pc[p].left)
  <2>1. pc[p].op \notin PutOps /\ pc[p].op \notin GetOps
    BY <1>2 DEF AtPc, PutOps, GetOps
  <2>2. ToPut(pc[p]) = Expanded(pc[p].left)
    BY <1>2 DEF AtPc, ToPut
  <2> QED BY <1>1, <1>2, <2>1, <2>2, WriteLoopStep
<1>3. CASE /\ AtPc(p, "loop") /\ pc[p].left = <<>> /\ ctstat' = TRUE
           /\ Return(p) /\ UNCHANGED outVars
  <2>1. pc[p].op \notin PutOps /\ pc[p].op \notin GetOps
    BY <1>3 DEF AtPc, PutOps, GetOps
  <2>2. PICK r \in Place : /\ r.op = "idle" /\ PlaceOK(r) /\ GoesOn(pc, p, r, pc')
                           /\ ToPut(r) = <<>>
    BY <1>3, ReturnIs
  <2>3. r.op \notin PutOps /\ r.op \notin GetOps
    BY <2>2 DEF PutOps, GetOps
  <2>4. OutInv' /\ OutStill
    BY <1>3, <2>1, <2>2, <2>3, OutUntouched
  <2>5. ToPut(pc[p]) = <<>>
    <3>1. ToPut(pc[p]) = Expanded(<<>>)
      BY <1>3 DEF AtPc, ToPut
    <3>2. <<>> \in Seq(Chr) /\ Len(<<>>) = 0
      BY EmptySeq
    <3> QED BY <3>1, <3>2, ExpandedText
  <2>6. <<>> \in Seq(Chr) /\ SameText(Due(p, <<>>), <<>> \o ToPut(r))
    <3>1. <<>> \o <<>> = <<>> /\ <<>> \in Seq(Chr)
      BY ConcatEmptySeq, EmptySeq
    <3> QED BY <1>1, <2>2, <2>5, <3>1 DEF SameText
  <2> DEFINE none == <<>>
  <2>7. none \in Seq(Chr) /\ none = <<>> /\ SameText(Due(p, <<>>), none \o ToPut(r))
    BY <2>6
  <2>8. ctstat' \in BOOLEAN
    BY <1>3
  <2> HIDE DEF none
  <2> QED BY <1>1, <2>1, <2>2, <2>3, <2>4, <2>7, <2>8, OutCallKeeps
<1>4. CASE AtPc(p, "none") /\ WriteRest(p, pc[p].left, TRUE)
  <2>1. pc[p].op \notin PutOps /\ pc[p].op \notin GetOps
    BY <1>4 DEF AtPc, PutOps, GetOps
  <2>2. ToPut(pc[p]) = Expanded(pc[p].left)
    BY <1>4 DEF AtPc, ToPut
  <2>3. WithinText => osem.cnt <= Len(pc[p].left)
    BY <1>4 DEF WithinText
  <2> QED BY <1>1, <1>4, <2>1, <2>2, <2>3, WriteRestStep
<1>5. CASE AtPc(p, "rest") /\ PutRest(p, Expanded(pc[p].left), 0, TRUE)
  <2>1. pc[p].op \notin PutOps /\ pc[p].op \notin GetOps /\ ~Contains(osem.queue, p)
    BY <1>5 DEF AtPc, Awake, PutOps, GetOps
  <2>2. 0 = One(pc[p].op, PutOps) /\ (0 = 1 => Expanded(pc[p].left) # <<>>)
    BY <2>1 DEF One
  <2>3. Expanded(pc[p].left) \in Seq(Chr) /\ ToPut(pc[p]) = Expanded(pc[p].left)
    BY <1>1, <1>5, ExpandedText DEF AtPc, ToPut
  <2> QED BY <1>1, <1>5, <2>1, <2>2, <2>3, PutRestStep
<1>6. CASE AtPc(p, "put") /\ PutRest(p, pc[p].left, 1, FALSE)
  <2>1. pc[p].op \in PutOps /\ pc[p].op \notin GetOps /\ ~Contains(osem.queue, p)
    BY <1>6 DEF AtPc, Awake, PutOps, GetOps
  <2>2. 1 = One(pc[p].op, PutOps) /\ (1 = 1 => pc[p].left # <<>>)
    BY <1>1, <1>6, <2>1 DEF One, PlaceOK, AtPc
  <2>3. ToPut(pc[p]) = pc[p].left
    BY <1>6 DEF AtPc, ToPut
  <2> QED BY <1>1, <1>6, <2>1, <2>2, <2>3, PutRestStep
<1> QED BY <1>2, <1>3, <1>4, <1>5, <1>6 DEF WriteOn

(* A call that writes.                                                     *)
LEMMA WritesIs ==
    ASSUME ConsoleInv, NEW p \in Users, NEW text \in Seq({"c", "NL"}), Writes(p, text)
    PROVE  /\ pc[p].op = "idle"
           /\ pc[p].op \notin PutOps /\ pc[p].op \notin GetOps
           /\ wrote' = [wrote EXCEPT ![p] = wrote[p] \o text]
           /\ Named(p, text) \in Seq(Chr) /\ Len(Named(p, text)) = Len(text)
           /\ Due(p, text) = Expanded(Named(p, text))
<1>1. pc[p].op = "idle" /\ wrote' = [wrote EXCEPT ![p] = wrote[p] \o text]
  BY DEF Writes
<1>2. wrote \in [Users -> Seq({"c", "NL"})]
  BY DEF ConsoleInv, PlacesInv
<1>3. Named(p, text) \in Seq(Chr) /\ Len(Named(p, text)) = Len(text)
  BY <1>2, NamedText
<1>4. Due(p, text) = Expanded(Named(p, text))
  <2> DEFINE s == Expanded(Named(p, text))
  <2>1. s \in Seq(Chr)
    BY <1>3, ExpandedText
  <2> HIDE DEF s
  <2>2. ToPut(pc[p]) = <<>> /\ <<>> \o s = s
    BY <1>1, <2>1, ConcatEmptySeq DEF ToPut
  <2> QED BY <2>2 DEF Due, s
<1> QED BY <1>1, <1>3, <1>4 DEF PutOps, GetOps

LEMMA ttywriteStep ==
    ASSUME ConsoleInv, NEW p \in Users, NEW text \in Seq({"c", "NL"}),
           ttywrite(p, text), UNCHANGED load
    PROVE  StepOK
<1>1. Writes(p, text) /\ WriteLoop(p, Named(p, text))
  BY DEF ttywrite
<1>2. /\ pc[p].op \notin PutOps /\ pc[p].op \notin GetOps
      /\ wrote' = [wrote EXCEPT ![p] = wrote[p] \o text]
      /\ Named(p, text) \in Seq(Chr)
      /\ Due(p, text) = Expanded(Named(p, text))
  BY <1>1, WritesIs
<1>3. OutFrame(p, text)
  BY <1>2 DEF ttywrite, OutFrame
<1> QED BY <1>1, <1>2, <1>3, WriteLoopStep

LEMMA PutWaitStep ==
    ASSUME ConsoleInv, NEW p \in Users, NEW s \in Seq(Chr), s # <<>>,
           pc[p].op \notin PutOps, pc[p].op \notin GetOps,
           NEW text \in Seq({"c", "NL"}), Due(p, text) = s,
           wrote' = [wrote EXCEPT ![p] = wrote[p] \o text],
           UNCHANGED load, PutWait(p, s)
    PROVE  StepOK
<1>1. /\ Goto(p, "place", s, 0)
      /\ osem' = IF osem.cnt > 0 THEN Taken(osem, 1) ELSE Queued(osem, p)
      /\ UNCHANGED <<obuff, ohead, otail, odsend, sent>>
      /\ UNCHANGED <<inVars, echo, iecho, oheld, ctstat>>
  BY DEF PutWait
<1>2. PICK r \in Place : r.op = "place" /\ r.left = s /\ GoesOn(pc, p, r, pc')
  <2>1. "place" \in Ops /\ 0 \in Nat
    BY DEF Ops
  <2> QED BY <1>1, <2>1, GotoIs
<1>3. PlaceOK(r) /\ r.op \in PutOps /\ r.op \notin GetOps
  BY <1>2 DEF PlaceOK, PutOps, GetOps
<1>4. /\ DOMAIN pc = Users /\ SemOK(osem, pc, PutOps) /\ osem.cnt \in Int
  BY Standing
<1>5. /\ SemOK(osem', pc', PutOps)
      /\ Units(osem', pc', PutOps) = Units(osem, pc, PutOps)
      /\ osem'.cnt <= osem.cnt
  BY <1>1, <1>2, <1>3, <1>4, WaitsForOne
<1>6. odsend > 0 => osem'.cnt <= OBMINSP
  <2>1. odsend > 0 => osem.cnt <= OBMINSP
    BY DEF ConsoleInv, OutInv
  <2>2. osem'.cnt \in Int /\ OBMINSP \in Int
    BY <1>5, TtyAssumption DEF SemOK
  <2> QED BY <1>4, <1>5, <2>1, <2>2
<1>7. OutInv' /\ OutStill
  BY <1>1, <1>5, <1>6 DEF ConsoleInv, OutInv, OutStill, OutUnits
<1>8. ctstat' \in BOOLEAN /\ OutFrame(p, text)
  BY <1>1 DEF ConsoleInv, SwitchesInv, OutFrame
<1> DEFINE none == <<>>
<1>9. none \in Seq(Chr) /\ none = <<>> /\ SameText(Due(p, text), none \o ToPut(r))
  <2>1. ToPut(r) = s
    BY <1>2 DEF ToPut
  <2>2. none \in Seq(Chr) /\ none \o s = s
    BY ConcatEmptySeq, EmptySeq
  <2> QED BY <2>1, <2>2 DEF SameText
<1> HIDE DEF none
<1> QED BY <1>2, <1>3, <1>7, <1>8, <1>9, OutCallKeeps

LEMMA ttyputcStep ==
    ASSUME ConsoleInv, NEW p \in Users, NEW text \in Seq({"c", "NL"}),
           Len(text) = 1, ttyputc(p, text), UNCHANGED load
    PROVE  StepOK
<1>1. Writes(p, text) /\ PutWait(p, Expanded(Named(p, text)))
  BY DEF ttyputc
<1>2. /\ pc[p].op \notin PutOps /\ pc[p].op \notin GetOps
      /\ wrote' = [wrote EXCEPT ![p] = wrote[p] \o text]
      /\ Named(p, text) \in Seq(Chr) /\ Len(Named(p, text)) = 1
      /\ Due(p, text) = Expanded(Named(p, text))
  BY <1>1, WritesIs
<1>3. Expanded(Named(p, text)) \in Seq(Chr) /\ Expanded(Named(p, text)) # <<>>
  BY <1>2, ExpandedText
<1> QED BY <1>1, <1>2, <1>3, PutWaitStep

LEMMA PutAgainStep ==
    ASSUME ConsoleInv, NEW p \in Users, PutAgain(p), UNCHANGED load
    PROVE  StepOK
<1>1. pc[p].op = "again" /\ PutWait(p, pc[p].left) /\ UNCHANGED wrote
  BY DEF PutAgain, AtPc
<1>2. /\ pc[p].left \in Seq(Chr) /\ pc[p].left # <<>>
      /\ wrote' = [wrote EXCEPT ![p] = wrote[p] \o <<>>]
      /\ <<>> \in Seq({"c", "NL"}) /\ Due(p, <<>>) = pc[p].left
  <2>1. pc[p].left \in Seq(Chr) /\ pc[p].left # <<>>
    BY <1>1 DEF ConsoleInv, PlacesInv, PlaceOK, Place
  <2>2. ToPut(pc[p]) = pc[p].left
    BY <1>1 DEF ToPut
  <2> QED BY <1>1, <2>1, <2>2, NothingNew
<1>3. pc[p].op \notin PutOps /\ pc[p].op \notin GetOps
  BY <1>1 DEF PutOps, GetOps
<1> QED BY <1>1, <1>2, <1>3, PutWaitStep

LEMMA PutPlaceStep ==
    ASSUME ConsoleInv, NEW p \in Users, PutPlace(p), UNCHANGED load
    PROVE  StepOK
<1> DEFINE left == pc[p].left
<1>1. /\ pc[p].op = "place" /\ ~Contains(osem.queue, p)
      /\ Put(<<Head(left)>>)
      /\ \/ Len(left) = 1 /\ Return(p)
         \/ Len(left) # 1 /\ Goto(p, "again", Tail(left), 0)
      /\ ctstat' = TRUE
      /\ UNCHANGED <<osem, wrote, inVars, echo, iecho, oheld>>
  BY DEF PutPlace, AtPc, Awake
<1>2. /\ left \in Seq(Chr) /\ left # <<>>
  BY <1>1 DEF ConsoleInv, PlacesInv, PlaceOK, Place
<1>13. Due(p, <<>>) = left /\ OutFrame(p, <<>>) /\ <<>> \in Seq({"c", "NL"})
  <2>1. ToPut(pc[p]) = left
    BY <1>1 DEF ToPut
  <2> QED BY <1>1, <2>1, NothingNew DEF OutFrame
<1> HIDE DEF left
<1>3. /\ Head(left) \in Chr /\ Tail(left) \in Seq(Chr)
      /\ Len(left) # 1 => Tail(left) # <<>>
      /\ Len(left) = 1 => Tail(left) = <<>>
      /\ left = <<Head(left)>> \o Tail(left)
  <2>1. /\ Head(left) \in Chr /\ Tail(left) \in Seq(Chr)
        /\ Len(Tail(left)) = Len(left) - 1 /\ Len(left) \in Nat
    BY <1>2, HeadTailProperties, LenProperties
  <2>2. /\ Len(left) # 1 => Len(Tail(left)) # 0
        /\ Len(left) = 1 => Len(Tail(left)) = 0
    BY <2>1
  <2>3. left = <<Head(left)>> \o Tail(left)
    BY <1>2
  <2> QED BY <2>1, <2>2, <2>3, EmptySeq
<1>4. PICK r \in Place : /\ r.op \in {"idle", "again"} /\ PlaceOK(r)
                         /\ GoesOn(pc, p, r, pc') /\ ToPut(r) = Tail(left)
  <2>1. CASE Len(left) = 1 /\ Return(p)
    BY <1>3, <2>1, ReturnIs
  <2>2. CASE Len(left) # 1 /\ Goto(p, "again", Tail(left), 0)
    <3>1. "again" \in Ops /\ 0 \in Nat
      BY DEF Ops
    <3> DEFINE tail == Tail(left)
    <3>2. Goto(p, "again", tail, 0) /\ tail \in Seq(Chr) /\ tail # <<>>
      BY <1>3, <2>2
    <3> HIDE DEF tail
    <3>3. PICK r \in Place : /\ r.op = "again" /\ r.left = tail
                             /\ GoesOn(pc, p, r, pc')
      BY <3>1, <3>2, GotoIs
    <3>4. ToPut(r) = tail
      BY <3>3 DEF ToPut
    <3> QED BY <3>2, <3>3, <3>4 DEF PlaceOK, tail
  <2> QED BY <1>1, <2>1, <2>2
<1>5. /\ r.op \notin PutOps /\ r.op \notin GetOps
      /\ pc[p].op \in PutOps /\ pc[p].op \notin GetOps
  BY <1>1, <1>4 DEF PutOps, GetOps
<1>6. DOMAIN pc = Users /\ SemOK(osem, pc, PutOps) /\ OutUnits \in Int
      /\ osem.cnt \in Int
  BY Standing
<1>7. /\ SemOK(osem, pc', PutOps)
      /\ Units(osem, pc', PutOps) =
             Units(osem, pc, PutOps) + One(r.op, PutOps) - One(pc[p].op, PutOps)
  BY <1>1, <1>4, <1>6, PlaceUnits
<1>8. One(r.op, PutOps) = 0 /\ One(pc[p].op, PutOps) = 1
  BY <1>5 DEF One
<1>9. <<Head(left)>> \in Seq(Chr) /\ Len(<<Head(left)>>) = 1
  BY <1>3
<1>10. /\ SemOK(osem', pc', PutOps) /\ OutUnits' = OutUnits - 1
       /\ osem'.cnt <= osem.cnt
  BY <1>1, <1>6, <1>7, <1>8 DEF OutUnits
<1> DEFINE s == <<Head(left)>>
<1>11. s \in Seq(Chr) /\ Put(s) /\ OutUnits' = OutUnits - Len(s)
  BY <1>1, <1>9, <1>10
<1>14. SameText(Due(p, <<>>), s \o ToPut(r))
  BY <1>3, <1>4, <1>13 DEF SameText
<1> HIDE DEF s
<1>12. OutInv' /\ Puts(s)
  BY <1>10, <1>11, PutMoves
<1>15. ctstat' \in BOOLEAN
  BY <1>1
<1> QED BY <1>4, <1>5, <1>11, <1>12, <1>13, <1>14, <1>15, OutCallKeeps

(* The transmitter interrupt.                                              *)
LEMMA SpaceGivenBack ==
    ASSUME ConsoleInv, GiveSpaceBack, UNCHANGED pc
    PROVE  /\ SemOK(osem', pc', PutOps)
           /\ OutUnits' + odsend' = OutUnits + odsend + 1
           /\ odsend' \in 0 .. OBMINSP - 1
           /\ odsend' > 0 => osem'.cnt <= OBMINSP
<1>1. /\ SemOK(osem, pc, PutOps) /\ osem.cnt \in Int /\ OutUnits \in Int
      /\ odsend \in 0 .. OBMINSP - 1 /\ (odsend > 0 => osem.cnt <= OBMINSP)
      /\ OBMINSP \in Nat \ {0}
  BY Standing, TtyAssumption DEF ConsoleInv, OutInv
<1>2. ASSUME NEW n \in Nat, osem' = Signalled(osem, n)
      PROVE  /\ SemOK(osem', pc', PutOps)
             /\ OutUnits' = OutUnits + n /\ osem'.cnt = osem.cnt + n
  <2>1. /\ SemOK(Signalled(osem, n), pc, PutOps)
        /\ Units(Signalled(osem, n), pc, PutOps) = Units(osem, pc, PutOps) + n
        /\ Signalled(osem, n).cnt = osem.cnt + n
    BY <1>1, SignalledUnits
  <2> QED BY <1>2, <2>1 DEF OutUnits
<1>3. CASE osem.cnt > OBMINSP /\ osem' = Signalled(osem, 1) /\ UNCHANGED odsend
  <2>1. /\ SemOK(osem', pc', PutOps)
        /\ OutUnits' = OutUnits + 1 /\ osem'.cnt = osem.cnt + 1
    BY <1>2, <1>3
  <2>2. odsend = 0
    BY <1>1, <1>3
  <2> QED BY <1>1, <1>3, <2>1, <2>2
<1>4. CASE /\ osem.cnt <= OBMINSP /\ odsend + 1 = OBMINSP
           /\ osem' = Signalled(osem, OBMINSP) /\ odsend' = 0
  <2>1. /\ SemOK(osem', pc', PutOps)
        /\ OutUnits' = OutUnits + OBMINSP
    BY <1>1, <1>2, <1>4
  <2> QED BY <1>1, <1>4, <2>1
<1>5. CASE /\ osem.cnt <= OBMINSP /\ odsend + 1 # OBMINSP
           /\ UNCHANGED osem /\ odsend' = odsend + 1
  <2>1. SemOK(osem', pc', PutOps) /\ OutUnits' = OutUnits /\ osem'.cnt = osem.cnt
    BY <1>1, <1>5 DEF OutUnits
  <2> QED BY <1>1, <1>5, <2>1
<1> QED BY <1>3, <1>4, <1>5 DEF GiveSpaceBack

(* Nothing goes out of an empty ring: if no writer is about to put a       *)
(* character, the count says so.                                           *)
LEMMA SomethingToSend ==
    ASSUME ConsoleInv, osem.cnt < OBUFLEN, InBuffer > 0 \/ LetGoOut = {}
    PROVE  InBuffer > 0
<1>1. /\ osem.cnt \in Int /\ odsend \in 0 .. OBMINSP - 1
      /\ (odsend > 0 => osem.cnt <= OBMINSP)
      /\ OBMINSP \in Nat \ {0} /\ OBUFLEN \in Nat /\ OBUFLEN > 2 * OBMINSP
  BY Standing, TtyAssumption DEF ConsoleInv, OutInv
<1>2. /\ InBuffer = OBUFLEN - OutUnits - odsend
      /\ LetGoOut = {} => OutUnits = AtLeast0(osem.cnt)
  BY InBufferIs
<1>3. CASE LetGoOut = {}
  <2>1. OutUnits = AtLeast0(osem.cnt)
    BY <1>2, <1>3
  <2>2. CASE osem.cnt > 0
    <3>1. OutUnits = osem.cnt
      BY <2>1, <2>2 DEF AtLeast0
    <3>2. odsend = 0 \/ osem.cnt <= OBMINSP
      BY <1>1
    <3> QED BY <1>1, <1>2, <3>1, <3>2
  <2>3. CASE ~(osem.cnt > 0)
    <3>1. OutUnits = 0
      BY <2>1, <2>3 DEF AtLeast0
    <3> QED BY <1>1, <1>2, <3>1
  <2> QED BY <2>2, <2>3
<1> QED BY <1>3

(* An interrupt moves no process.                                          *)
LEMMA InterruptKeeps ==
    ASSUME ConsoleInv, UNCHANGED <<pc, wrote, load, iecho>>,
           echo' \in 0 .. EBUFLEN - 1, ctstat' \in BOOLEAN, oheld' \in BOOLEAN,
           OutInv', InInv', OutStill \/ Sends, NoZeroRead => InMove
    PROVE  StepOK
<1>1. PlacesInv' /\ SwitchesInv' /\ (load \in Loads)'
  BY DEF ConsoleInv, PlacesInv, SwitchesInv
<1>2. OutMove
  BY DEF OutMove
<1> QED BY <1>1, <1>2 DEF StepOK, ConsoleInv

LEMMA SidesStand ==
    ASSUME ConsoleInv, UNCHANGED pc
    PROVE  /\ UNCHANGED outVars => OutInv' /\ OutStill
           /\ UNCHANGED inVars => InInv' /\ InStill
<1>1. UNCHANGED outVars => OutInv' /\ OutStill
  BY DEF ConsoleInv, OutInv, OutStill, OutUnits, outVars
<1>2. UNCHANGED inVars => InInv' /\ InStill
  BY DEF ConsoleInv, InInv, InStill, InUnits, inVars
<1> QED BY <1>1, <1>2

LEMMA ttyoinStep ==
    ASSUME ConsoleInv, ttyoin, UNCHANGED load
    PROVE  StepOK
<1>1. /\ UNCHANGED <<inVars, iecho, oheld, pc, wrote, load>>
      /\ InInv' /\ InStill
  <2>1. UNCHANGED <<inVars, iecho, oheld, pc, wrote, load>>
    BY DEF ttyoin
  <2> QED BY <2>1, SidesStand
<1>2. /\ echo \in 0 .. EBUFLEN - 1 /\ ctstat \in BOOLEAN /\ oheld' \in BOOLEAN
      /\ EBUFLEN \in Nat
  BY <1>1, TtyAssumption DEF ConsoleInv, SwitchesInv
<1>3. CASE echo > 0 /\ echo' = echo - 1 /\ UNCHANGED <<outVars, ctstat>>
  <2>1. OutInv' /\ OutStill
    BY <1>1, <1>3, SidesStand
  <2>2. echo' \in 0 .. EBUFLEN - 1 /\ ctstat' \in BOOLEAN
    BY <1>2, <1>3
  <2> QED BY <1>1, <1>2, <2>1, <2>2, InterruptKeeps DEF InMove
<1>4. CASE /\ osem.cnt < OBUFLEN
           /\ Prompt => InBuffer > 0 \/ LetGoOut = {}
           /\ SendOne
           /\ GiveSpaceBack
           /\ UNCHANGED <<obuff, ohead, echo, ctstat>>
  <2>1. /\ SemOK(osem', pc', PutOps)
        /\ OutUnits' + odsend' = OutUnits + odsend + 1
        /\ odsend' \in 0 .. OBMINSP - 1
        /\ odsend' > 0 => osem'.cnt <= OBMINSP
    BY <1>1, <1>4, SpaceGivenBack
  <2>2. otail' = (otail + 1) % OBUFLEN /\ otail' \in 0 .. OBUFLEN - 1
    <3>1. otail + 1 \in Int
      BY Standing
    <3> QED BY <1>4, <3>1, RingPlaces DEF SendOne
  <2>3. OutInv'
    BY <1>4, <2>1, <2>2 DEF ConsoleInv, OutInv
  <2>4. Prompt => InBuffer > 0
    BY <1>4, SomethingToSend
  <2>5. Sends
    BY <1>4, <2>1, <2>4 DEF Sends
  <2>6. echo' \in 0 .. EBUFLEN - 1 /\ ctstat' \in BOOLEAN
    BY <1>2, <1>4
  <2> QED BY <1>1, <1>2, <2>3, <2>5, <2>6, InterruptKeeps DEF InMove
<1>5. CASE ctstat' = FALSE /\ UNCHANGED <<outVars, echo>>
  <2>1. OutInv' /\ OutStill
    BY <1>1, <1>5, SidesStand
  <2>2. echo' \in 0 .. EBUFLEN - 1 /\ ctstat' \in BOOLEAN
    BY <1>2, <1>5
  <2> QED BY <1>1, <1>2, <2>1, <2>2, InterruptKeeps DEF InMove
<1> QED BY <1>3, <1>4, <1>5 DEF ttyoin

-----------------------------------------------------------------------------
(***************************************************************************)
(* The input side: the receiver interrupt.                                 *)
(***************************************************************************)

(* What the interrupt leaves alone.                                        *)
InFrame ==
    /\ typed' = typed + 1 /\ typed < MaxTyped
    /\ Roomy /\ Stored = IBUFLEN => ibuff' = ibuff
    /\ UNCHANGED <<outVars, imode, iecho, pc, wrote, load>>

(* What it does with the switches.                                         *)
LEMMA Echoes ==
    ASSUME ConsoleInv
    PROVE  /\ \A n \in Nat : Echo(n) =>
                  echo' \in 0 .. EBUFLEN - 1 /\ ctstat' \in BOOLEAN
           /\ \A key : EchoKey(key) =>
                  echo' \in 0 .. EBUFLEN - 1 /\ ctstat' \in BOOLEAN
           /\ UNCHANGED <<echo, ctstat>> =>
                  echo' \in 0 .. EBUFLEN - 1 /\ ctstat' \in BOOLEAN
<1>1. echo \in 0 .. EBUFLEN - 1 /\ ctstat \in BOOLEAN /\ EBUFLEN \in Nat
  BY TtyAssumption DEF ConsoleInv, SwitchesInv
<1>2. ASSUME NEW n \in Nat, Echo(n)
      PROVE  echo' \in 0 .. EBUFLEN - 1 /\ ctstat' \in BOOLEAN
  <2>1. echo + n \in Int
    BY <1>1
  <2>2. echo' = (echo + n) % EBUFLEN /\ ctstat' = (ctstat \/ n > 0)
    BY <1>2 DEF Echo
  <2>3. echo' \in 0 .. EBUFLEN - 1
    BY <2>1, <2>2, RingPlaces
  <2> QED BY <2>2, <2>3
<1>3. \A key : EchoLength(key) \in Nat
  BY DEF EchoLength
<1>4. ASSUME NEW key, EchoKey(key)
      PROVE  echo' \in 0 .. EBUFLEN - 1 /\ ctstat' \in BOOLEAN
  <2>1. CASE iecho
    BY <1>2, <1>3, <1>4, <2>1 DEF EchoKey
  <2>2. CASE ~iecho
    BY <1>1, <1>4, <2>2 DEF EchoKey
  <2> QED BY <2>1, <2>2
<1>5. UNCHANGED <<echo, ctstat>> => echo' \in 0 .. EBUFLEN - 1 /\ ctstat' \in BOOLEAN
  BY <1>1
<1> QED BY <1>2, <1>4, <1>5

LEMMA TypedStays ==
    ASSUME ConsoleInv, InFrame, UNCHANGED ibuff
    PROVE  typed' \in Nat /\ ibuff' \in [0 .. IBUFLEN - 1 -> 0 .. typed']
<1>1. typed \in Nat /\ ibuff \in [0 .. IBUFLEN - 1 -> 0 .. typed]
  BY DEF ConsoleInv, InInv
<1>2. typed' = typed + 1
  BY DEF InFrame
<1>3. 0 .. typed \subseteq 0 .. typed'
  BY <1>1, <1>2
<1> QED BY <1>1, <1>2, <1>3

(* A character that is not stored.                                         *)
LEMMA NotStored ==
    ASSUME ConsoleInv, InFrame, UNCHANGED <<isem, ibuff, ihead, itail, icursor>>
    PROVE  InInv' /\ InStill
<1>1. typed' \in Nat /\ ibuff' \in [0 .. IBUFLEN - 1 -> 0 .. typed']
  BY TypedStays
<1> QED BY <1>1 DEF ConsoleInv, InInv, InStill, InUnits, InFrame

(* One that is: k of the characters of the line and of this one become     *)
(* readable.                                                               *)
LEMMA IsStored ==
    ASSUME ConsoleInv, InFrame, Store, NEW k \in Nat,
           isem' = Signalled(isem, k) \/ (k = 0 /\ isem' = isem),
           icursor' = icursor + 1 - k,
           icursor' \in {icursor + 1, icursor, 0}, icursor' <= IBUFLEN
    PROVE  InInv' /\ InMove
<1>1. /\ ihead \in 0 .. IBUFLEN - 1 /\ itail \in 0 .. IBUFLEN - 1
      /\ icursor \in Nat /\ InUnits \in Int /\ SemOK(isem, pc, GetOps)
      /\ typed \in Nat /\ ibuff \in [0 .. IBUFLEN - 1 -> 0 .. typed]
      /\ IBUFLEN \in Nat
  BY Standing, TtyAssumption DEF ConsoleInv, InInv
<1>2. /\ ibuff' = [ibuff EXCEPT ![ihead] = typed + 1]
      /\ ihead' = (ihead + 1) % IBUFLEN /\ itail' = itail
  BY DEF Store
<1>3. /\ typed' = typed + 1 /\ typed < MaxTyped /\ pc' = pc /\ imode' = imode
      /\ Roomy /\ Stored = IBUFLEN => ibuff' = ibuff
  BY DEF InFrame
<1>4. SemOK(isem', pc', GetOps) /\ InUnits' = InUnits + k
  <2>1. CASE isem' = Signalled(isem, k)
    <3>1. /\ SemOK(Signalled(isem, k), pc, GetOps)
          /\ Units(Signalled(isem, k), pc, GetOps) = Units(isem, pc, GetOps) + k
      BY <1>1, SignalledUnits
    <3> QED BY <1>3, <2>1, <3>1 DEF InUnits
  <2>2. CASE k = 0 /\ isem' = isem
    BY <1>1, <1>3, <2>2 DEF InUnits
  <2> QED BY <2>1, <2>2
<1>5. ibuff' \in [0 .. IBUFLEN - 1 -> 0 .. typed']
  <2>1. 0 .. typed \subseteq 0 .. typed' /\ typed + 1 \in 0 .. typed'
    BY <1>1, <1>3
  <2> QED BY <1>1, <1>2, <2>1
<1>6. ihead' \in 0 .. IBUFLEN - 1
  <2>1. ihead + 1 \in Int
    BY <1>1
  <2> QED BY <1>2, <2>1, RingPlaces
<1>7. icursor' \in 0 .. IBUFLEN
  BY <1>1
<1>8. InInv'
  BY <1>1, <1>2, <1>3, <1>4, <1>5, <1>6, <1>7 DEF ConsoleInv, InInv
<1>9. ibuff' # ibuff
  <2>1. ibuff'[ihead] = typed + 1 /\ ibuff[ihead] \in 0 .. typed
    BY <1>1, <1>2
  <2>2. ibuff'[ihead] # ibuff[ihead]
    BY <1>1, <2>1
  <2> QED BY <2>2
<1>10. InUnits' + icursor' = InUnits + icursor + 1
  BY <1>1, <1>4
<1>11. Adds
  BY <1>2, <1>3, <1>9, <1>10 DEF Adds
<1> QED BY <1>8, <1>11 DEF InMove

(* Some that are taken back.                                               *)
LEMMA IsErased ==
    ASSUME ConsoleInv, InFrame, NEW k \in {1, icursor}, k <= icursor,
           ihead' = (ihead - k) % IBUFLEN, icursor' = icursor - k,
           UNCHANGED <<isem, ibuff, itail>>
    PROVE  InInv' /\ InMove
<1>1. /\ icursor \in 0 .. IBUFLEN /\ IBUFLEN \in Nat /\ ihead \in Int /\ k \in Nat
  BY Standing, TtyAssumption DEF ConsoleInv, InInv
<1>2. typed' \in Nat /\ ibuff' \in [0 .. IBUFLEN - 1 -> 0 .. typed']
  BY TypedStays
<1>3. ihead' \in 0 .. IBUFLEN - 1
  <2>1. ihead - k \in Int
    BY <1>1
  <2> QED BY <2>1, RingPlaces
<1>4. icursor' \in 0 .. IBUFLEN
  BY <1>1
<1>5. pc' = pc /\ imode' = imode
  BY DEF InFrame
<1>6. InInv' /\ InUnits' = InUnits
  BY <1>2, <1>3, <1>4, <1>5 DEF ConsoleInv, InInv, InUnits
<1>7. Drops(k)
  BY <1>6 DEF Drops
<1> QED BY <1>6, <1>7 DEF InMove

(* All that a key does.                                                    *)
KeyDone ==
    /\ InInv' /\ InMove
    /\ echo' \in 0 .. EBUFLEN - 1 /\ ctstat' \in BOOLEAN /\ oheld' \in BOOLEAN

LEMMA TypeRawDone ==
    ASSUME ConsoleInv, InFrame, NEW key, TypeRaw(key)
    PROVE  KeyDone
<1>1. UNCHANGED <<oheld, echo, ctstat, icursor>> /\ icursor \in 0 .. IBUFLEN
  BY DEF TypeRaw, ConsoleInv, InInv
<1>2. /\ echo' \in 0 .. EBUFLEN - 1 /\ ctstat' \in BOOLEAN /\ oheld' \in BOOLEAN
  BY <1>1 DEF ConsoleInv, SwitchesInv
<1>3. CASE UNCHANGED <<isem, ibuff, ihead, itail>>
  BY <1>1, <1>2, <1>3, NotStored DEF KeyDone, InMove
<1>4. CASE Store /\ isem' = Signalled(isem, 1)
  <2>1. icursor' = icursor + 1 - 1 /\ icursor' <= IBUFLEN /\ icursor' = icursor
        /\ 1 \in Nat
    BY <1>1, TtyAssumption
  <2>2. InInv' /\ InMove
    BY <1>4, <2>1, IsStored
  <2> QED BY <1>2, <2>2 DEF KeyDone
<1> QED BY <1>3, <1>4 DEF TypeRaw

LEMMA TypeCbreakDone ==
    ASSUME ConsoleInv, InFrame, NEW key, TypeCbreak(key)
    PROVE  KeyDone
<1>1. oheld' \in BOOLEAN /\ icursor' = icursor /\ icursor \in 0 .. IBUFLEN
  BY DEF TypeCbreak, ConsoleInv, InInv
<1>2. CASE Echo(1) /\ UNCHANGED <<isem, ibuff, ihead, itail>>
  <2>1. echo' \in 0 .. EBUFLEN - 1 /\ ctstat' \in BOOLEAN
    BY <1>2, Echoes
  <2>2. InInv' /\ InStill
    BY <1>1, <1>2, NotStored
  <2> QED BY <1>1, <2>1, <2>2 DEF KeyDone, InMove
<1>3. CASE Store /\ isem' = Signalled(isem, 1) /\ EchoKey(key)
  <2>1. echo' \in 0 .. EBUFLEN - 1 /\ ctstat' \in BOOLEAN
    BY <1>3, Echoes
  <2>2. icursor' = icursor + 1 - 1 /\ icursor' <= IBUFLEN /\ icursor' = icursor
        /\ 1 \in Nat
    BY <1>1, TtyAssumption
  <2>3. InInv' /\ InMove
    BY <1>3, <2>2, IsStored
  <2> QED BY <1>1, <2>1, <2>3 DEF KeyDone
<1> QED BY <1>2, <1>3 DEF TypeCbreak

LEMMA KillLineDone ==
    ASSUME ConsoleInv, InFrame, oheld' \in BOOLEAN, KillLine
    PROVE  KeyDone
<1>1. /\ ihead' = (ihead - icursor) % IBUFLEN /\ icursor' = 0 /\ Echo(2)
      /\ UNCHANGED <<isem, ibuff, itail>>
  BY DEF KillLine
<1>2. icursor \in Nat
  BY Standing
<1>3. InInv' /\ InMove
  <2>1. icursor \in {1, icursor} /\ icursor <= icursor /\ icursor' = icursor - icursor
    BY <1>1, <1>2
  <2> QED BY <1>1, <2>1, IsErased
<1>4. echo' \in 0 .. EBUFLEN - 1 /\ ctstat' \in BOOLEAN
  BY <1>1, Echoes
<1> QED BY <1>3, <1>4 DEF KeyDone

LEMMA EraseOneDone ==
    ASSUME ConsoleInv, InFrame, oheld' \in BOOLEAN, EraseOne
    PROVE  KeyDone
<1>1. CASE UNCHANGED <<isem, ibuff, ihead, itail, icursor, echo, ctstat>>
  <2>1. echo' \in 0 .. EBUFLEN - 1 /\ ctstat' \in BOOLEAN
    BY <1>1, Echoes
  <2>2. InInv' /\ InStill
    BY <1>1, NotStored
  <2> QED BY <2>1, <2>2 DEF KeyDone, InMove
<1>2. CASE /\ icursor > 0
           /\ icursor' = icursor - 1
           /\ ihead' = (ihead - 1) % IBUFLEN
           /\ \/ iecho /\ \E n \in {3, 6} : Echo(n)
              \/ ~iecho /\ ctstat' = TRUE /\ UNCHANGED echo
           /\ UNCHANGED <<isem, ibuff, itail>>
  <2>1. icursor \in Nat
    BY Standing
  <2>2. InInv' /\ InMove
    <3>1. 1 \in {1, icursor} /\ 1 <= icursor
      BY <1>2, <2>1
    <3> QED BY <1>2, <3>1, IsErased
  <2>3. CASE \E n \in {3, 6} : Echo(n)
    <3>1. PICK n \in {3, 6} : Echo(n)
      BY <2>3
    <3>2. n \in Nat
      OBVIOUS
    <3>3. echo' \in 0 .. EBUFLEN - 1 /\ ctstat' \in BOOLEAN
      BY <3>1, <3>2, Echoes
    <3> QED BY <2>2, <3>3 DEF KeyDone
  <2>4. CASE ctstat' = TRUE /\ UNCHANGED echo
    BY <2>2, <2>4 DEF KeyDone, ConsoleInv, SwitchesInv
  <2> QED BY <1>2, <2>3, <2>4
<1> QED BY <1>1, <1>2 DEF EraseOne

LEMMA EndLineDone ==
    ASSUME ConsoleInv, InFrame, oheld' \in BOOLEAN, EndLine
    PROVE  KeyDone
<1>1. EchoKey("nl") /\ Store /\ icursor' = 0 /\ isem' = Signalled(isem, icursor + 1)
  BY DEF EndLine
<1> DEFINE k == icursor + 1
<1>2. /\ k \in Nat /\ icursor' = icursor + 1 - k /\ icursor' <= IBUFLEN
      /\ icursor' \in {icursor + 1, icursor, 0}
  <2>1. icursor \in Nat /\ IBUFLEN \in Nat
    BY Standing, TtyAssumption
  <2> QED BY <1>1, <2>1
<1>3. isem' = Signalled(isem, k)
  BY <1>1
<1> HIDE DEF k
<1>4. InInv' /\ InMove
  BY <1>1, <1>2, <1>3, IsStored
<1>5. echo' \in 0 .. EBUFLEN - 1 /\ ctstat' \in BOOLEAN
  BY <1>1, Echoes
<1> QED BY <1>4, <1>5 DEF KeyDone

LEMMA AddToLineDone ==
    ASSUME ConsoleInv, InFrame, oheld' \in BOOLEAN, NEW key, AddToLine(key)
    PROVE  KeyDone
<1>1. CASE Echo(1) /\ UNCHANGED <<isem, ibuff, ihead, itail, icursor>>
  <2>1. echo' \in 0 .. EBUFLEN - 1 /\ ctstat' \in BOOLEAN
    BY <1>1, Echoes
  <2>2. InInv' /\ InStill
    BY <1>1, NotStored
  <2> QED BY <2>1, <2>2 DEF KeyDone, InMove
<1>2. CASE /\ AtLeast0(isem.cnt) + icursor < IBUFLEN - 1
           /\ EchoKey(key) /\ Store /\ icursor' = icursor + 1 /\ UNCHANGED isem
  <2>1. icursor \in Nat /\ IBUFLEN \in Nat /\ AtLeast0(isem.cnt) \in Nat
    BY Standing, TtyAssumption DEF AtLeast0
  <2>2. 0 \in Nat /\ icursor' = icursor + 1 - 0 /\ icursor' <= IBUFLEN
        /\ icursor' \in {icursor + 1, icursor, 0}
    BY <1>2, <2>1
  <2>3. InInv' /\ InMove
    BY <1>2, <2>2, IsStored
  <2>4. echo' \in 0 .. EBUFLEN - 1 /\ ctstat' \in BOOLEAN
    BY <1>2, Echoes
  <2> QED BY <2>3, <2>4 DEF KeyDone
<1> QED BY <1>1, <1>2 DEF AddToLine

LEMMA FlowDone ==
    ASSUME ConsoleInv, InFrame, NEW key, Flow(key)
    PROVE  KeyDone
<1>1. /\ oheld' = (key = "^S") /\ ctstat' = (ctstat \/ key = "^Q")
      /\ UNCHANGED <<isem, ibuff, ihead, itail, icursor, echo>>
  BY DEF Flow
<1>2. oheld' \in BOOLEAN /\ ctstat' \in BOOLEAN /\ echo' \in 0 .. EBUFLEN - 1
  BY <1>1 DEF ConsoleInv, SwitchesInv
<1>3. InInv' /\ InStill
  BY <1>1, NotStored
<1> QED BY <1>2, <1>3 DEF KeyDone, InMove

LEMMA ttyiinStep ==
    ASSUME ConsoleInv, NEW key, ttyiin(key), typed < load.most, UNCHANGED load
    PROVE  StepOK
<1>1. InFrame
  <2>1. typed < MaxTyped
    <3>1. typed \in Nat /\ load.most \in 0 .. MaxTyped /\ MaxTyped \in Nat
      BY LoadsAssumption, RoomyAssumption DEF ConsoleInv, InInv
    <3> QED BY <3>1
  <2> QED BY <2>1 DEF ttyiin, InFrame
<1>2. KeyDone
  <2>1. CASE TypeRaw(key)
    BY <1>1, <2>1, TypeRawDone
  <2>2. CASE Flow(key)
    BY <1>1, <2>2, FlowDone
  <2>3. CASE TypeCbreak(key)
    BY <1>1, <2>3, TypeCbreakDone
  <2>4. CASE TypeCooked(key)
    <3>1. oheld' \in BOOLEAN
      BY <2>4 DEF TypeCooked
    <3>2. CASE KillLine
      BY <1>1, <3>1, <3>2, KillLineDone
    <3>3. CASE EraseOne
      BY <1>1, <3>1, <3>3, EraseOneDone
    <3>4. CASE EndLine
      BY <1>1, <3>1, <3>4, EndLineDone
    <3>5. CASE AddToLine(key)
      BY <1>1, <3>1, <3>5, AddToLineDone
    <3> QED BY <2>4, <3>2, <3>3, <3>4, <3>5 DEF TypeCooked
  <2> QED BY <2>1, <2>2, <2>3, <2>4 DEF ttyiin
<1>3. UNCHANGED <<outVars, pc, wrote, load, iecho>>
  BY <1>1 DEF InFrame
<1>4. OutInv' /\ OutStill
  BY <1>3, SidesStand
<1> QED BY <1>2, <1>3, <1>4, InterruptKeeps DEF KeyDone

-----------------------------------------------------------------------------
(***************************************************************************)
(* The input side: the calls.                                              *)
(***************************************************************************)

ReadFrame ==
    /\ UNCHANGED <<ibuff, ihead, icursor, imode, typed>>
    /\ UNCHANGED <<outVars, echo, iecho, oheld, ctstat, wrote, load>>

LEMMA FetchMoves ==
    ASSUME ConsoleInv, ReadFrame, NEW m \in Nat,
           itail' = (itail + m) % IBUFLEN,
           SemOK(isem', pc', GetOps), NoZeroRead => InUnits' = InUnits - m
    PROVE  InInv' /\ (NoZeroRead => InMove)
<1>1. itail' \in 0 .. IBUFLEN - 1
  <2>1. itail + m \in Int
    BY Standing
  <2> QED BY <2>1, RingPlaces
<1>2. InInv'
  BY <1>1 DEF ConsoleInv, InInv, ReadFrame
<1>3. NoZeroRead => Fetches(m)
  BY DEF Fetches, ReadFrame
<1> QED BY <1>2, <1>3 DEF InMove

LEMMA GetRestStep ==
    ASSUME ConsoleInv, ReadFrame, NEW p \in Users, NEW n \in Nat,
           pc[p].op \in ReadOps, ~Contains(isem.queue, p),
           NEW held, held = One(pc[p].op, GetOps), held = 1 => n > 0,
           GetRest(p, n, held)
    PROVE  StepOK
<1> DEFINE m == AtMost(held + AtLeast0(isem.cnt), n)
<1>1. /\ itail' = (itail + m) % IBUFLEN
      /\ \/ m = n /\ isem' = Taken(isem, m - held)
            /\ Return(p)
         \/ m < n /\ isem' = Queued(Taken(isem, m - held), p)
            /\ Goto(p, "get", <<>>, n - m)
  BY DEF GetRest
<1>2. isem.cnt \in Int /\ held \in {0, 1}
  BY Standing DEF One
<1>3. /\ m \in Nat /\ m >= held /\ m <= n /\ m - held \in Nat
      /\ m - held <= AtLeast0(isem.cnt)
      /\ m < n => m - held = AtLeast0(isem.cnt)
  BY <1>2, UnitsTaken
<1> HIDE DEF m
<1> DEFINE k == m - held
<1>4. k \in Nat /\ k <= AtLeast0(isem.cnt) /\ k + held = m
      /\ (m < n => k = AtLeast0(isem.cnt))
  BY <1>2, <1>3
<1>5. \/ m = n /\ isem' = Taken(isem, k) /\ Return(p)
      \/ m < n /\ isem' = Queued(Taken(isem, k), p) /\ Goto(p, "get", <<>>, n - m)
  BY <1>1
<1> HIDE DEF k
<1>6. CASE m = n /\ isem' = Taken(isem, k) /\ Return(p)
  <2>1. PICK r \in Place : r.op = "idle" /\ PlaceOK(r) /\ GoesOn(pc, p, r, pc')
    BY <1>6, ReturnIs
  <2>2. r.op \in ReadOps /\ r.op \notin GetOps
    BY <2>1 DEF ReadOps, GetOps
  <2>3. /\ SemOK(Taken(isem, k), pc', GetOps)
        /\ Units(Taken(isem, k), pc', GetOps) = Units(isem, pc, GetOps) - (k + held)
    BY <1>4, <2>1, <2>2, Standing, TakesAndLeaves
  <2>4. SemOK(isem', pc', GetOps) /\ InUnits' = InUnits - m
    BY <1>4, <1>6, <2>3 DEF InUnits
  <2>5. InInv' /\ (NoZeroRead => InMove)
    BY <1>1, <1>3, <2>4, FetchMoves
  <2> QED BY <2>1, <2>2, <2>5, InCallKeeps
        DEF ReadFrame, ConsoleInv, SwitchesInv
<1>7. CASE m < n /\ isem' = Queued(Taken(isem, k), p) /\ Goto(p, "get", <<>>, n - m)
  <2> DEFINE more == n - m
  <2>1. more \in Nat /\ more > 0 /\ Goto(p, "get", <<>>, more)
    BY <1>3, <1>7
  <2> HIDE DEF more
  <2>2. PICK r \in Place : r.op = "get" /\ PlaceOK(r) /\ GoesOn(pc, p, r, pc')
    BY <2>1, WaitIs
  <2>3. r.op \in ReadOps /\ r.op \in GetOps /\ PlaceOK(r)
    BY <2>2 DEF ReadOps, GetOps
  <2>4. /\ SemOK(Queued(Taken(isem, k), p), pc', GetOps)
        /\ Units(Queued(Taken(isem, k), p), pc', GetOps)
               = Units(isem, pc, GetOps) - (k + held)
    BY <1>4, <1>7, <2>2, <2>3, Standing, TakesAndWaits
  <2>5. SemOK(isem', pc', GetOps) /\ InUnits' = InUnits - m
    BY <1>4, <1>7, <2>4 DEF InUnits
  <2>6. InInv' /\ (NoZeroRead => InMove)
    BY <1>1, <1>3, <2>5, FetchMoves
  <2> QED BY <2>2, <2>3, <2>6, InCallKeeps
        DEF ReadFrame, ConsoleInv, SwitchesInv
<1> QED BY <1>5, <1>6, <1>7

LEMMA ReadcopyStep ==
    ASSUME ConsoleInv, ReadFrame, NEW p \in Users,
           NEW count \in Int, isem.cnt - count \in Nat,
           NoZeroRead => count \in Nat, NEW after \in Nat,
           pc[p].op \in ReadOps, pc[p].op \notin GetOps,
           Readcopy(p, count, after)
    PROVE  StepOK
<1>1. /\ itail' = (itail + AtLeast0(count)) % IBUFLEN
      /\ isem' = Reset(isem.cnt - count)
      /\ Goto(p, "copied", <<>>, after)
  BY DEF Readcopy
<1>2. PICK r \in Place : r.op = "copied" /\ GoesOn(pc, p, r, pc')
  <2>1. "copied" \in Ops /\ <<>> \in Seq(Chr)
    BY DEF Ops
  <2> QED BY <1>1, <2>1, GotoIs
<1>3. PlaceOK(r) /\ r.op \in ReadOps /\ r.op \notin GetOps
  BY <1>2 DEF PlaceOK, ReadOps, GetOps
<1>4. /\ DOMAIN pc = Users /\ SemOK(isem, pc, GetOps) /\ InUnits \in Int
      /\ isem.cnt \in Int
  BY Standing
<1>5. SemOK(isem, pc', GetOps) /\ Units(isem, pc', GetOps) = Units(isem, pc, GetOps)
  BY <1>2, <1>3, <1>4, StaysOutside
<1> DEFINE n == isem.cnt - count
<1>6. n \in Nat /\ isem.cnt - n = count
  BY <1>4
<1>7. isem' = Reset(n)
  BY <1>1
<1> HIDE DEF n
<1>8. /\ SemOK(Reset(n), pc', GetOps)
      /\ Units(Reset(n), pc', GetOps) = Units(isem, pc', GetOps) - (isem.cnt - n)
  BY <1>5, <1>6, ResetUnits
<1> DEFINE m == AtLeast0(count)
<1>9. m \in Nat /\ (NoZeroRead => m = count)
  BY DEF AtLeast0
<1>10. itail' = (itail + m) % IBUFLEN
  BY <1>1
<1> HIDE DEF m
<1>11. SemOK(isem', pc', GetOps) /\ (NoZeroRead => InUnits' = InUnits - m)
  BY <1>5, <1>6, <1>7, <1>8, <1>9 DEF InUnits
<1>12. InInv' /\ (NoZeroRead => InMove)
  BY <1>9, <1>10, <1>11, FetchMoves
<1> QED BY <1>2, <1>3, <1>12, InCallKeeps DEF ReadFrame, ConsoleInv, SwitchesInv

LEMMA CallFromIdle ==
    ASSUME NEW p, pc[p].op = "idle"
    PROVE  pc[p].op \in ReadOps /\ pc[p].op \notin GetOps
BY DEF ReadOps, GetOps

LEMMA ttyreadStep ==
    ASSUME ConsoleInv, NEW p \in Users, NEW count \in load.counts,
           ttyread(p, count), UNCHANGED load
    PROVE  StepOK
<1> DEFINE n == ReadCount(count)
<1>1. /\ pc[p].op = "idle" /\ n # 0
      /\ \/ n <= isem.cnt /\ Readcopy(p, n, 0)
         \/ n > isem.cnt /\ isem.cnt > 0 /\ Readcopy(p, isem.cnt, n - isem.cnt)
         \/ n > isem.cnt /\ isem.cnt <= 0 /\ GetRest(p, n, 0)
  BY DEF ttyread
<1>2. ReadFrame
  BY DEF ttyread, ReadFrame
<1>3. /\ pc[p].op \in ReadOps /\ pc[p].op \notin GetOps
      /\ isem.cnt \in Int /\ SemOK(isem, pc, GetOps)
  BY <1>1, CallFromIdle, Standing
<1>4. count \in Nat /\ (NoZeroRead => count # 0)
  BY LoadsAssumption DEF ConsoleInv, NoZeroRead
<1>5. /\ n \in Int /\ (NoZeroRead => n \in Nat)
      /\ n > isem.cnt => n \in Nat
  BY <1>3, <1>4 DEF ReadCount
<1> HIDE DEF n
<1>6. CASE n <= isem.cnt /\ Readcopy(p, n, 0)
  <2>1. isem.cnt - n \in Nat /\ 0 \in Nat
    BY <1>3, <1>5, <1>6
  <2> QED BY <1>2, <1>3, <1>5, <1>6, <2>1, ReadcopyStep
<1>7. CASE n > isem.cnt /\ isem.cnt > 0 /\ Readcopy(p, isem.cnt, n - isem.cnt)
  <2> DEFINE after == n - isem.cnt
             now == isem.cnt
  <2>1. isem.cnt - now \in Nat /\ now \in Nat /\ now \in Int /\ after \in Nat
    BY <1>3, <1>5, <1>7
  <2>2. Readcopy(p, now, after)
    BY <1>7
  <2> HIDE DEF after, now
  <2> QED BY <1>2, <1>3, <2>1, <2>2, ReadcopyStep
<1>8. CASE n > isem.cnt /\ isem.cnt <= 0 /\ GetRest(p, n, 0)
  <2>1. ~Contains(isem.queue, p) /\ 0 = One(pc[p].op, GetOps) /\ n \in Nat
    BY <1>3, <1>5, <1>8, OutsideNotQueued DEF One
  <2>2. 0 = 1 => n > 0
    OBVIOUS
  <2> QED BY <1>2, <1>3, <1>8, <2>1, <2>2, GetRestStep
<1> QED BY <1>1, <1>6, <1>7, <1>8

LEMMA ttygetcStep ==
    ASSUME ConsoleInv, NEW p \in Users, ttygetc(p), UNCHANGED load
    PROVE  StepOK
<1>1. pc[p].op = "idle" /\ GetRest(p, 1, 0) /\ ReadFrame
  BY DEF ttygetc, ReadFrame
<1>2. /\ pc[p].op \in ReadOps /\ pc[p].op \notin GetOps /\ SemOK(isem, pc, GetOps)
  BY <1>1, CallFromIdle, Standing
<1>3. ~Contains(isem.queue, p) /\ 0 = One(pc[p].op, GetOps)
  BY <1>2, OutsideNotQueued DEF One
<1>4. 1 \in Nat /\ (0 = 1 => 1 > 0)
  OBVIOUS
<1> QED BY <1>1, <1>2, <1>3, <1>4, GetRestStep

LEMMA ReadOnStep ==
    ASSUME ConsoleInv, NEW p \in Users, ReadOn(p), UNCHANGED load
    PROVE  StepOK
<1>1. ReadFrame /\ PlaceOK(pc[p]) /\ pc[p].n \in Nat
  BY DEF ReadOn, ReadFrame, ConsoleInv, PlacesInv, PlaceOK, Place
<1>2. CASE AtPc(p, "copied") /\ GetRest(p, pc[p].n, 0)
  <2>1. /\ pc[p].op \in ReadOps /\ pc[p].op \notin GetOps /\ ~Contains(isem.queue, p)
    BY <1>2 DEF AtPc, Awake, ReadOps, GetOps
  <2>2. 0 = One(pc[p].op, GetOps) /\ (0 = 1 => pc[p].n > 0)
    BY <2>1 DEF One
  <2> QED BY <1>1, <1>2, <2>1, <2>2, GetRestStep
<1>3. CASE AtPc(p, "get") /\ GetRest(p, pc[p].n, 1)
  <2>1. /\ pc[p].op \in ReadOps /\ pc[p].op \in GetOps /\ ~Contains(isem.queue, p)
    BY <1>3 DEF AtPc, Awake, ReadOps, GetOps
  <2>2. 1 = One(pc[p].op, GetOps) /\ (1 = 1 => pc[p].n > 0)
    BY <1>1, <1>3, <2>1 DEF One, PlaceOK, AtPc
  <2> QED BY <1>1, <1>3, <2>1, <2>2, GetRestStep
<1> QED BY <1>2, <1>3 DEF ReadOn

(* The frame of a call that takes no character.                            *)
LEMMA LooksMoves ==
    ASSUME ConsoleInv, UNCHANGED <<ibuff, ihead, itail, icursor, typed>>,
           imode' \in {"IMRAW", "IMCOOKED", "IMCBREAK"},
           SemOK(isem', pc', GetOps), InUnits' = InUnits
    PROVE  InInv' /\ InMove
<1>1. InInv'
  BY DEF ConsoleInv, InInv
<1>2. InStill
  BY DEF InStill
<1> QED BY <1>1, <1>2 DEF InMove

LEMMA ttycntlStep ==
    ASSUME ConsoleInv, NEW p \in Users, NEW func, ttycntl(p, func), UNCHANGED load
    PROVE  StepOK
<1>1. /\ pc[p].op = "idle"
      /\ UNCHANGED <<ibuff, ihead, itail, icursor, typed>>
      /\ UNCHANGED <<outVars, echo, oheld, ctstat, wrote, load>>
  BY DEF ttycntl
<1>2. /\ iecho \in BOOLEAN /\ imode \in {"IMRAW", "IMCOOKED", "IMCBREAK"}
      /\ echo' \in 0 .. EBUFLEN - 1 /\ ctstat' \in BOOLEAN /\ oheld' \in BOOLEAN
  BY <1>1 DEF ConsoleInv, InInv, SwitchesInv
<1>3. CASE /\ \/ SetMode("IMRAW") \/ SetMode("IMCOOKED") \/ SetMode("IMCBREAK")
              \/ SetEcho(TRUE) \/ SetEcho(FALSE)
           /\ UNCHANGED <<isem, pc>>
  <2>1. iecho' \in BOOLEAN /\ imode' \in {"IMRAW", "IMCOOKED", "IMCBREAK"}
    BY <1>2, <1>3 DEF SetMode, SetEcho
  <2>2. SemOK(isem', pc', GetOps) /\ InUnits' = InUnits
    BY <1>3, Standing DEF InUnits
  <2>3. InInv' /\ InMove
    BY <1>1, <2>1, <2>2, LooksMoves
  <2>4. OutInv' /\ OutStill
    BY <1>1, <1>3, SidesStand
  <2>5. PlacesInv' /\ SwitchesInv' /\ (load \in Loads)'
    BY <1>1, <1>2, <1>3, <2>1 DEF ConsoleInv, PlacesInv, SwitchesInv
  <2>6. OutMove
    BY <1>1, <1>3, <2>4 DEF OutMove
  <2> QED BY <2>3, <2>4, <2>5, <2>6 DEF StepOK, ConsoleInv
<1>4. CASE /\ Goto(p, "peek", <<>>, 0)
           /\ isem' = IF isem.cnt > 0 THEN Taken(isem, 1) ELSE Queued(isem, p)
           /\ UNCHANGED <<imode, iecho>>
  <2>1. PICK r \in Place : r.op = "peek" /\ GoesOn(pc, p, r, pc')
    <3>1. "peek" \in Ops /\ <<>> \in Seq(Chr) /\ 0 \in Nat
      BY DEF Ops
    <3> QED BY <1>4, <3>1, GotoIs
  <2>2. /\ PlaceOK(r) /\ r.op \in GetOps /\ r.op \in ReadOps
        /\ pc[p].op \in ReadOps /\ pc[p].op \notin GetOps
    BY <1>1, <2>1 DEF PlaceOK, ReadOps, GetOps
  <2>3. /\ SemOK(isem', pc', GetOps)
        /\ Units(isem', pc', GetOps) = Units(isem, pc, GetOps)
    BY <1>4, <2>1, <2>2, Standing, WaitsForOne
  <2>4. InInv' /\ InMove
    BY <1>1, <1>2, <1>4, <2>3, LooksMoves DEF InUnits
  <2> QED BY <1>1, <1>2, <1>4, <2>1, <2>2, <2>4, InCallKeeps
<1> QED BY <1>3, <1>4 DEF ttycntl

LEMMA PeekEndStep ==
    ASSUME ConsoleInv, NEW p \in Users, PeekEnd(p), UNCHANGED load
    PROVE  StepOK
<1>1. /\ pc[p].op = "peek" /\ ~Contains(isem.queue, p) /\ Return(p)
      /\ isem' = Signalled(isem, 1)
      /\ UNCHANGED <<ibuff, ihead, itail, icursor, imode, typed>>
      /\ UNCHANGED <<outVars, echo, iecho, oheld, ctstat, wrote, load>>
  BY DEF PeekEnd, AtPc, Awake
<1>2. PICK r \in Place : r.op = "idle" /\ PlaceOK(r) /\ GoesOn(pc, p, r, pc')
  BY <1>1, ReturnIs
<1>3. /\ r.op \notin GetOps /\ r.op \in ReadOps
      /\ pc[p].op \in ReadOps /\ pc[p].op \in GetOps
  BY <1>1, <1>2 DEF ReadOps, GetOps
<1>4. DOMAIN pc = Users /\ SemOK(isem, pc, GetOps) /\ InUnits \in Int
  BY Standing
<1>5. /\ SemOK(isem, pc', GetOps)
      /\ Units(isem, pc', GetOps) =
             Units(isem, pc, GetOps) + One(r.op, GetOps) - One(pc[p].op, GetOps)
  BY <1>1, <1>2, <1>4, PlaceUnits
<1>6. One(r.op, GetOps) = 0 /\ One(pc[p].op, GetOps) = 1
  BY <1>3 DEF One
<1>7. /\ SemOK(Signalled(isem, 1), pc', GetOps)
      /\ Units(Signalled(isem, 1), pc', GetOps) = Units(isem, pc', GetOps) + 1
  <2>1. 1 \in Nat
    OBVIOUS
  <2> QED BY <1>5, <2>1, SignalledUnits
<1>8. SemOK(isem', pc', GetOps) /\ InUnits' = InUnits
  BY <1>1, <1>4, <1>5, <1>6, <1>7 DEF InUnits
<1>9. InInv' /\ InMove
  <2>1. imode' \in {"IMRAW", "IMCOOKED", "IMCBREAK"}
    BY <1>1 DEF ConsoleInv, InInv
  <2> QED BY <1>1, <1>8, <2>1, LooksMoves
<1>10. iecho' \in BOOLEAN
  BY <1>1 DEF ConsoleInv, SwitchesInv
<1> QED BY <1>1, <1>2, <1>3, <1>9, <1>10, InCallKeeps

-----------------------------------------------------------------------------
(***************************************************************************)
(* Every step keeps the console in order and makes its moves.              *)
(***************************************************************************)

LEMMA CallStep ==
    ASSUME ConsoleInv, NEW p \in Users, Call(p), UNCHANGED load
    PROVE  StepOK
<1>1. \A text \in load.texts : text \in Seq({"c", "NL"})
  BY LoadsAssumption DEF ConsoleInv
<1>2. ASSUME NEW count \in load.counts, ttyread(p, count) PROVE StepOK
  BY <1>2, ttyreadStep
<1>3. ASSUME NEW text \in load.texts, ttywrite(p, text) PROVE StepOK
  BY <1>1, <1>3, ttywriteStep
<1>4. ASSUME NEW text \in load.texts, Len(text) = 1, ttyputc(p, text) PROVE StepOK
  BY <1>1, <1>4, ttyputcStep
<1>5. CASE ttygetc(p)
  BY <1>5, ttygetcStep
<1>6. ASSUME NEW func \in load.controls, ttycntl(p, func) PROVE StepOK
  BY <1>6, ttycntlStep
<1> QED BY <1>2, <1>3, <1>4, <1>5, <1>6, Zenon DEF Call, read, write, getc, putc, control

LEMMA UpperHalfStep ==
    ASSUME ConsoleInv, NEW p \in Users, UpperHalf(p), UNCHANGED load
    PROVE  StepOK
BY WriteOnStep, PutAgainStep, PutPlaceStep, ReadOnStep, PeekEndStep
   DEF UpperHalf, UpperOut, UpperIn

LEMMA InterruptStep ==
    ASSUME ConsoleInv, NEW signum, IOdispatcher(signum), UNCHANGED load
    PROVE  StepOK
<1>1. CASE typed < load.most /\ \E key \in load.keys : ttyiin(key)
  <2>1. PICK key \in load.keys : ttyiin(key)
    BY <1>1
  <2> QED BY <1>1, <2>1, ttyiinStep
<1>2. CASE ttyoin
  BY <1>2, ttyoinStep
<1> QED BY <1>1, <1>2 DEF IOdispatcher

LEMMA StutterStep ==
    ASSUME ConsoleInv, UNCHANGED vars
    PROVE  StepOK
<1>1. /\ UNCHANGED <<outVars, inVars, echo, iecho, oheld, ctstat, pc, wrote, load>>
  BY DEF vars, ttyVars
<1>2. OutInv' /\ OutStill /\ InInv' /\ InStill
  BY <1>1, SidesStand
<1>3. echo' \in 0 .. EBUFLEN - 1 /\ ctstat' \in BOOLEAN /\ oheld' \in BOOLEAN
  BY <1>1 DEF ConsoleInv, SwitchesInv
<1> QED BY <1>1, <1>2, <1>3, InterruptKeeps DEF InMove

LEMMA NextStep ==
    ASSUME ConsoleInv, [Next]_vars
    PROVE  StepOK
<1>1. ASSUME NEW p \in Users, Call(p), UNCHANGED load PROVE StepOK
  BY <1>1, CallStep
<1>2. ASSUME NEW p \in Users, UpperHalf(p), UNCHANGED load PROVE StepOK
  BY <1>2, UpperHalfStep
<1>3. ASSUME NEW signum, IOdispatcher(signum), UNCHANGED load PROVE StepOK
  BY <1>3, InterruptStep
<1>4. CASE UNCHANGED vars
  BY <1>4, StutterStep
<1> QED BY <1>1, <1>2, <1>3, <1>4 DEF Next

LEMMA InitConsole ==
    ASSUME Init
    PROVE  /\ ConsoleInv
           /\ OutUnits = OBUFLEN /\ InUnits = 0
           /\ ohead = 0 /\ otail = 0 /\ odsend = 0
           /\ ihead = 0 /\ itail = 0 /\ icursor = 0
<1>1. /\ isem = [cnt |-> 0, queue |-> <<>>]
      /\ osem = [cnt |-> OBUFLEN, queue |-> <<>>]
      /\ ohead = 0 /\ otail = 0 /\ odsend = 0
      /\ ibuff = [i \in 0 .. IBUFLEN - 1 |-> 0]
      /\ ihead = 0 /\ itail = 0 /\ icursor = 0
      /\ echo = 0 /\ imode = "IMCOOKED" /\ iecho = TRUE
      /\ oheld = FALSE /\ ctstat = FALSE
      /\ pc = [p \in Users |-> [op |-> "idle", left |-> <<>>, n |-> 0]]
      /\ wrote = [p \in Users |-> <<>>]
      /\ typed = 0 /\ load \in Loads
  BY DEF Init, TtyInit, ttyinit
<1>2. /\ IBUFLEN \in Nat \ {0} /\ EBUFLEN \in Nat \ {0}
      /\ OBMINSP \in Nat \ {0} /\ OBUFLEN \in Nat \ {0}
  BY TtyAssumption
<1>3. \A p \in Users : pc[p].op = "idle"
  BY <1>1
<1>4. \A ops \in {PutOps, GetOps} : Inside(pc, ops) = {}
  BY <1>3 DEF Inside, PutOps, GetOps
<1>5. Cardinality(Inside(pc, PutOps)) = 0 /\ Cardinality(Inside(pc, GetOps)) = 0
  BY <1>4, FS_EmptySet
<1>6. OutUnits = OBUFLEN /\ InUnits = 0
  <2>1. osem.cnt = OBUFLEN /\ isem.cnt = 0
    BY <1>1
  <2> QED BY <1>2, <1>5, <2>1 DEF OutUnits, InUnits, Units
<1>7. SemOK(osem, pc, PutOps)
  <2>1. osem = Reset(OBUFLEN)
    BY <1>1 DEF Reset
  <2>2. AtLeast0(-OBUFLEN) = 0 /\ OBUFLEN \in Int
    BY <1>2 DEF AtLeast0
  <2> QED BY <2>1, <2>2 DEF SemOK, Reset
<1>8. SemOK(isem, pc, GetOps)
  <2>1. isem = Reset(0)
    BY <1>1 DEF Reset
  <2>2. AtLeast0(-0) = 0
    BY DEF AtLeast0
  <2> QED BY <2>1, <2>2 DEF SemOK, Reset
<1>9. PlacesInv
  <2>1. [op |-> "idle", left |-> <<>>, n |-> 0] \in Place
    BY DEF Place, Ops
  <2>2. PlaceOK([op |-> "idle", left |-> <<>>, n |-> 0])
    BY <2>1 DEF PlaceOK
  <2>3. \A p \in Users : pc[p] = [op |-> "idle", left |-> <<>>, n |-> 0]
    BY <1>1
  <2>4. <<>> \in Seq({"c", "NL"})
    OBVIOUS
  <2>5. pc \in [Users -> Place] /\ wrote \in [Users -> Seq({"c", "NL"})]
    BY <1>1, <2>1, <2>4
  <2>6. \A p \in Users : PlaceOK(pc[p])
    BY <2>2, <2>3, Zenon
  <2> QED BY <2>5, <2>6 DEF PlacesInv
<1>10. OutInv
  BY <1>1, <1>2, <1>7 DEF OutInv
<1>11. InInv
  <2>1. ibuff \in [0 .. IBUFLEN - 1 -> 0 .. typed]
    BY <1>1
  <2> QED BY <1>1, <1>2, <1>8, <2>1 DEF InInv
<1>12. SwitchesInv
  <2>1. echo = 0 /\ iecho = TRUE /\ oheld = FALSE /\ ctstat = FALSE
    BY <1>1
  <2>2. 0 \in 0 .. EBUFLEN - 1
    BY <1>2
  <2> QED BY <2>1, <2>2 DEF SwitchesInv
<1> QED BY <1>1, <1>6, <1>9, <1>10, <1>11, <1>12 DEF ConsoleInv

LEMMA ConsoleAlways == Spec => []ConsoleInv
<1>1. Init => ConsoleInv
  BY InitConsole
<1>2. ConsoleInv /\ [Next]_vars => ConsoleInv'
  BY NextStep DEF StepOK
<1> QED BY <1>1, <1>2, PTL DEF Spec

(* Whatever its users and the keyboard do, the console's variables have    *)
(* their types: every index stays in its ring, and the count of delayed    *)
(* sends below the number that lets writers go (tty.h, ttyoin.c).          *)
THEOREM ConsoleTyped == Spec => []TypeOK
<1>1. ConsoleInv => TypeOK
  <2> SUFFICES ASSUME ConsoleInv PROVE TypeOK
    OBVIOUS
  <2>1. /\ osem.cnt \in Int /\ osem.queue \in Seq(Users)
        /\ isem.cnt \in Int /\ isem.queue \in Seq(Users)
    BY DEF ConsoleInv, OutInv, InInv, SemOK
  <2>2. \A p \in Users : pc[p].op \in Ops
    BY DEF ConsoleInv, PlacesInv, Place
  <2> QED BY <2>1, <2>2 DEF TypeOK, ConsoleInv, OutInv, InInv, SwitchesInv
<1> QED BY <1>1, ConsoleAlways, PTL
-----------------------------------------------------------------------------
(***************************************************************************)
(* The two counts.                                                         *)
(***************************************************************************)

LEMMA ModMinus ==
    ASSUME NEW L \in Nat \ {0}, NEW a \in Int, NEW b \in Int
    PROVE  (b - (a % L)) % L = (b - a) % L
<1> DEFINE m == a % L
<1>1. m \in Int
  BY ModFacts
<1>2. PICK k \in Int : a = L * k + m
  BY ModFacts
<1> HIDE DEF m
<1>3. b - m = (b - a) + L * k /\ b - a \in Int
  BY <1>1, <1>2
<1>4. ((b - a) + L * k) % L = (b - a) % L
  BY <1>3, ModTurns
<1> QED BY <1>3, <1>4 DEF m

(* The characters in a ring of L places lie between its two ends.          *)
Spans(L, head, tail, n) == n \in 0 .. L /\ (head - tail - n) % L = 0

LEMMA HeadMoves ==
    ASSUME NEW L \in Nat \ {0}, NEW head \in Int, NEW tail \in Int, NEW n \in Int,
           NEW k \in Int, Spans(L, head, tail, n), n + k \in 0 .. L
    PROVE  Spans(L, (head + k) % L, tail, n + k)
<1> DEFINE b == -tail - (n + k)
           h == (head + k) % L
<1>1. b \in Int /\ head + k \in Int /\ (head + k) + b = head - tail - n
  OBVIOUS
<1>2. h \in Int
  BY <1>1, ModFacts
<1>3. (((head + k) % L) + b) % L = ((head + k) + b) % L
  <2> HIDE DEF b
  <2> QED BY <1>1, ModShift
<1>4. (h + b) % L = (head - tail - n) % L
  BY <1>1, <1>3
<1> HIDE DEF h
<1>5. h - tail - (n + k) = h + b
  BY <1>2
<1>6. (h - tail - (n + k)) % L = 0
  BY <1>4, <1>5 DEF Spans
<1> QED BY <1>6 DEF Spans, h

LEMMA TailMoves ==
    ASSUME NEW L \in Nat \ {0}, NEW head \in Int, NEW tail \in Int, NEW n \in Int,
           NEW k \in Int, Spans(L, head, tail, n), n - k \in 0 .. L
    PROVE  Spans(L, head, (tail + k) % L, n - k)
<1> DEFINE b == head - (n - k)
           t == (tail + k) % L
<1>1. b \in Int /\ tail + k \in Int /\ b - (tail + k) = head - tail - n
  OBVIOUS
<1>2. t \in Int
  BY <1>1, ModFacts
<1>3. (b - ((tail + k) % L)) % L = (b - (tail + k)) % L
  <2> HIDE DEF b
  <2> QED BY <1>1, ModMinus
<1>4. (b - t) % L = (head - tail - n) % L
  BY <1>1, <1>3
<1> HIDE DEF t
<1>5. head - t - (n - k) = b - t
  BY <1>2
<1>6. (head - t - (n - k)) % L = 0
  BY <1>4, <1>5 DEF Spans
<1> QED BY <1>6 DEF Spans, t

OutSpans == Spans(OBUFLEN, ohead, otail, OBUFLEN - OutUnits - odsend)
InSpans == Spans(IBUFLEN, ihead, itail, InUnits + icursor)

CountsOK ==
    ConsoleInv => /\ OutUnits \in Nat /\ odsend \in Nat
                  /\ InUnits \in Nat /\ icursor \in Nat

LEMMA Counts == CountsOK
BY InBufferIs, StoredIs, Standing DEF CountsOK

LEMMA CountsNext == CountsOK'
BY Counts, PTL

LEMMA OutSpansKept ==
    ASSUME Prompt = TRUE, ConsoleInv, OutSpans, StepOK
    PROVE  OutSpans'
<1> DEFINE n == OBUFLEN - OutUnits - odsend
<1>1. /\ OutUnits \in Nat /\ odsend \in Nat /\ OBUFLEN \in Nat \ {0}
      /\ ohead \in Int /\ otail \in Int
      /\ InBuffer = n /\ n \in 0 .. OBUFLEN
  BY InBufferIs, Standing, RingPlaces DEF OutSpans, Spans
<1>2. OutUnits' \in Nat /\ odsend' \in Nat
  BY CountsNext DEF StepOK, CountsOK
<1>3. CASE OutStill
  BY <1>3 DEF OutStill, OutSpans
<1>4. ASSUME NEW s \in Seq(Chr), Puts(s)
      PROVE  OutSpans'
  <2>0. PICK k \in Nat : k = Len(s)
    BY LenProperties
  <2>1. /\ ohead' = (ohead + k) % OBUFLEN /\ otail' = otail /\ odsend' = odsend
        /\ OutUnits' = OutUnits - k
    BY <1>4, <2>0 DEF Puts, Put
  <2>2. n + k = OBUFLEN - OutUnits' - odsend' /\ n + k \in 0 .. OBUFLEN
    BY <1>1, <1>2, <2>1
  <2>3. Spans(OBUFLEN, ohead, otail, n) /\ n \in Int /\ k \in Int
    BY <1>1 DEF OutSpans
  <2> HIDE DEF n
  <2>4. Spans(OBUFLEN, (ohead + k) % OBUFLEN, otail, n + k)
    BY <1>1, <2>2, <2>3, HeadMoves, Zenon
  <2> QED BY <2>1, <2>2, <2>4 DEF OutSpans
<1>5. CASE Sends
  <2>1. /\ otail' = (otail + 1) % OBUFLEN /\ ohead' = ohead
        /\ OutUnits' + odsend' = OutUnits + odsend + 1
        /\ InBuffer > 0
    BY <1>5 DEF Sends, SendOne
  <2>2. n - 1 = OBUFLEN - OutUnits' - odsend' /\ n - 1 \in 0 .. OBUFLEN
    <3>1. n - 1 \in 0 .. OBUFLEN
      BY <1>1, <2>1
    <3>2. /\ OutUnits \in Int /\ odsend \in Int /\ OBUFLEN \in Int
          /\ OutUnits' \in Int /\ odsend' \in Int
      BY <1>1, <1>2
    <3>3. PICK c \in Int, d \in Int : c = OutUnits' /\ d = odsend'
      BY <3>2
    <3>4. c + d = OutUnits + odsend + 1
      BY <2>1, <3>3, Zenon
    <3>5. n - 1 = OBUFLEN - c - d
      BY <3>2, <3>4
    <3> QED BY <3>1, <3>3, <3>5, Zenon
  <2>3. Spans(OBUFLEN, ohead, otail, n) /\ n \in Int /\ 1 \in Int
    BY <1>1 DEF OutSpans
  <2> HIDE DEF n
  <2>4. Spans(OBUFLEN, ohead, (otail + 1) % OBUFLEN, n - 1)
    BY <1>1, <2>2, <2>3, TailMoves
  <2> QED BY <2>1, <2>2, <2>4 DEF OutSpans
<1> QED BY <1>3, <1>4, <1>5 DEF StepOK, OutMove

(* osem counts the free places of the output ring: what it counts, the     *)
(* sends that ttyoin has put off and the units of writers that have been   *)
(* let go make up what does not lie between otail and ohead, over wait,    *)
(* sreset and delayed signals (ttywrite.c, ttyputc.c, ttyoin.c), for any   *)
(* writers and sizes.  Prompt: a writer that has been let go puts its      *)
(* character before the transmitter runs out of others.                    *)
THEOREM OutputAlwaysAccounted ==
    ASSUME Prompt = TRUE
    PROVE  Spec => []OutputAccounted
<1>1. Init => ConsoleInv /\ OutSpans
  <2> SUFFICES ASSUME Init PROVE ConsoleInv /\ OutSpans
    OBVIOUS
  <2>1. /\ ConsoleInv /\ OutUnits = OBUFLEN /\ ohead = 0 /\ otail = 0 /\ odsend = 0
    BY InitConsole
  <2>2. OBUFLEN \in Nat \ {0}
    BY RingPlaces
  <2>3. OBUFLEN - OBUFLEN - 0 = 0 /\ 0 - 0 - 0 = 0 /\ 0 % OBUFLEN = 0
        /\ 0 \in 0 .. OBUFLEN
    BY <2>2
  <2> QED BY <2>1, <2>3 DEF OutSpans, Spans
<1>2. ConsoleInv /\ OutSpans /\ [Next]_vars => ConsoleInv' /\ OutSpans'
  BY NextStep, OutSpansKept DEF StepOK
<1>3. ConsoleInv /\ OutSpans => OutputAccounted
  <2> SUFFICES ASSUME ConsoleInv, OutSpans PROVE OutputAccounted
    OBVIOUS
  <2>1. InBuffer = OBUFLEN - OutUnits - odsend
    BY InBufferIs
  <2>2. Spans(OBUFLEN, ohead, otail, InBuffer)
    BY <2>1 DEF OutSpans
  <2> QED BY <2>2 DEF Spans, OutputAccounted
<1> QED BY <1>1, <1>2, <1>3, PTL DEF Spec

-----------------------------------------------------------------------------
(***************************************************************************)
(* The input ring.                                                         *)
(***************************************************************************)

InTotal == InUnits + icursor

LEMMA InTotalMoves ==
    ASSUME ConsoleInv, StepOK
    PROVE  /\ InTotal \in Nat /\ InTotal' \in Nat
           /\ InTotal - icursor = InUnits
           /\ InStill => InTotal' = InTotal
           /\ Adds => InTotal' = InTotal + 1
           /\ \A k \in Nat : Fetches(k) => InTotal' = InTotal - k /\ k <= InUnits
           /\ \A k \in {1, icursor} : Drops(k) => InTotal' = InTotal - k
<1>1. /\ InUnits \in Nat /\ icursor \in Nat /\ InUnits' \in Nat /\ icursor' \in Nat
  BY Counts, CountsNext DEF StepOK, CountsOK
<1>2. PICK u \in Nat, c \in Nat : u = InUnits' /\ c = icursor'
  BY <1>1
<1>3. InTotal' = u + c
  BY <1>2, Zenon DEF InTotal
<1>4. InTotal \in Nat /\ InTotal = InUnits + icursor /\ InTotal' \in Nat
      /\ InTotal - icursor = InUnits
  <2>1. InTotal = InUnits + icursor
    BY DEF InTotal
  <2>2. u + c \in Nat
    OBVIOUS
  <2> QED BY <1>1, <1>3, <2>1, <2>2
<1>5. ASSUME InStill PROVE InTotal' = InTotal
  <2>1. u = InUnits /\ c = icursor
    BY <1>2, <1>5 DEF InStill
  <2> QED BY <1>3, <1>4, <2>1
<1>6. ASSUME Adds PROVE InTotal' = InTotal + 1
  <2>1. u + c = InUnits + icursor + 1
    BY <1>2, <1>6, Zenon DEF Adds
  <2> QED BY <1>3, <1>4, <2>1
<1>7. ASSUME NEW k \in Nat, Fetches(k) PROVE InTotal' = InTotal - k /\ k <= InUnits
  <2>1. u = InUnits - k /\ c = icursor
    BY <1>2, <1>7 DEF Fetches
  <2>2. u + c = (InUnits + icursor) - k /\ k <= InUnits
    BY <1>1, <1>2, <2>1
  <2> QED BY <1>3, <1>4, <2>2
<1>8. ASSUME NEW k \in {1, icursor}, Drops(k) PROVE InTotal' = InTotal - k
  <2>1. u = InUnits /\ c = icursor - k
    BY <1>2, <1>8 DEF Drops
  <2>2. u + c = (InUnits + icursor) - k
    BY <1>1, <1>2, <2>1
  <2> QED BY <1>3, <1>4, <2>2
<1> QED BY <1>4, <1>5, <1>6, <1>7, <1>8

(* A step of the input side other than one that leaves it alone.           *)
LEMMA InSpansKept ==
    ASSUME Roomy = TRUE, NoZeroRead, ConsoleInv, InSpans, StepOK
    PROVE  InSpans'
<1>1. /\ InTotal \in Nat /\ InTotal' \in Nat /\ InTotal \in Int
      /\ ihead \in Int /\ itail \in Int /\ IBUFLEN \in Nat \ {0}
      /\ InTotal \in 0 .. IBUFLEN /\ Spans(IBUFLEN, ihead, itail, InTotal)
  BY InTotalMoves, Standing, TtyAssumption DEF InSpans, Spans, InTotal
<1>2. (Spans(IBUFLEN, ihead, itail, InTotal))' => InSpans'
  BY DEF InSpans, InTotal
<1>3. CASE InStill
  BY <1>3 DEF InStill, InSpans
<1>4. CASE Adds
  <2>1. /\ ihead' = (ihead + 1) % IBUFLEN /\ itail' = itail
        /\ InTotal' = InTotal + 1 /\ Stored # IBUFLEN
    BY <1>4, InTotalMoves DEF Adds
  <2>2. InTotal + 1 \in 0 .. IBUFLEN /\ 1 \in Int
    <3>1. InTotal # IBUFLEN
      BY <2>1, StoredIs DEF InTotal
    <3> QED BY <1>1, <3>1
  <2>3. Spans(IBUFLEN, (ihead + 1) % IBUFLEN, itail, InTotal + 1)
    BY <1>1, <2>2, HeadMoves
  <2> QED BY <1>2, <2>1, <2>3
<1>5. ASSUME NEW k \in Nat, Fetches(k)
      PROVE  InSpans'
  <2>1. /\ ihead' = ihead /\ itail' = (itail + k) % IBUFLEN
        /\ InTotal' = InTotal - k
    BY <1>5, InTotalMoves DEF Fetches
  <2>2. InTotal - k \in 0 .. IBUFLEN /\ k \in Int
    <3>1. InTotal - k \in Nat
      BY <1>1, <2>1
    <3> QED BY <1>1, <3>1
  <2>3. Spans(IBUFLEN, ihead, (itail + k) % IBUFLEN, InTotal - k)
    BY <1>1, <2>2, TailMoves
  <2> QED BY <1>2, <2>1, <2>3
<1>6. ASSUME NEW k \in {1, icursor}, k <= icursor, Drops(k)
      PROVE  InSpans'
  <2>1. /\ ihead' = (ihead - k) % IBUFLEN /\ itail' = itail
        /\ InTotal' = InTotal - k
    BY <1>6, InTotalMoves DEF Drops
  <2>2. k \in Nat
    BY Standing
  <2> DEFINE j == -k
  <2>3. j \in Int /\ InTotal + j = InTotal - k /\ ihead + j = ihead - k
    BY <1>1, <2>2
  <2> HIDE DEF j
  <2>4. InTotal + j \in 0 .. IBUFLEN
    <3>1. InTotal - k \in Nat
      BY <1>1, <2>1
    <3> QED BY <1>1, <2>2, <2>3, <3>1
  <2>5. Spans(IBUFLEN, (ihead + j) % IBUFLEN, itail, InTotal + j)
    BY <1>1, <2>3, <2>4, HeadMoves
  <2> QED BY <1>2, <2>1, <2>3, <2>5
<1> QED BY <1>3, <1>4, <1>5, <1>6 DEF StepOK, InMove

LEMMA InSpansStart == Init => ConsoleInv /\ InSpans
<1> SUFFICES ASSUME Init PROVE ConsoleInv /\ InSpans
  OBVIOUS
<1>1. /\ ConsoleInv /\ InUnits = 0 /\ ihead = 0 /\ itail = 0 /\ icursor = 0
  BY InitConsole
<1>2. IBUFLEN \in Nat \ {0}
  BY TtyAssumption
<1>3. 0 + 0 = 0 /\ 0 - 0 - 0 = 0 /\ 0 % IBUFLEN = 0 /\ 0 \in 0 .. IBUFLEN
  BY <1>2
<1> QED BY <1>1, <1>3 DEF InSpans, Spans

LEMMA InSpansAlways ==
    ASSUME Roomy = TRUE, NoZeroRead
    PROVE  Spec => [](ConsoleInv /\ InSpans)
<1>1. ConsoleInv /\ InSpans /\ [Next]_vars => ConsoleInv' /\ InSpans'
  BY NextStep, InSpansKept DEF StepOK
<1> QED BY <1>1, InSpansStart, PTL DEF Spec

(* isem counts the characters that can be read: with those of readers that *)
(* have been let go and of the line that is being typed, it makes up what  *)
(* lies between itail and ihead, over line editing, the resets of read and *)
(* the looks ahead of control (ttyiin.c, ttyread.c, ttygetc.c, ttycntl.c). *)
(* Roomy: nothing is stored when the ring is full (the code overwrites).   *)
(* NoZeroRead: nobody reads "what there is" (while others wait this lets   *)
(* them go without a character).                                           *)
THEOREM InputAlwaysAccounted ==
    ASSUME Roomy = TRUE, NoZeroRead
    PROVE  Spec => []InputAccounted
<1>1. ConsoleInv /\ InSpans => InputAccounted
  <2> SUFFICES ASSUME ConsoleInv, InSpans PROVE InputAccounted
    OBVIOUS
  <2>1. Stored = InUnits + icursor
    BY StoredIs
  <2>2. Spans(IBUFLEN, ihead, itail, Stored)
    BY <2>1 DEF InSpans
  <2> QED BY <2>2 DEF Spans, InputAccounted
<1> QED BY <1>1, InSpansAlways, PTL

-----------------------------------------------------------------------------
(***************************************************************************)
(* The input side implements InputLine.                                    *)
(***************************************************************************)

(* n places of the buffer b, a ring of L places, from place t.             *)
Window(L, b, t, n) == [i \in 1 .. n |-> b[(t + i - 1) % L]]

IsRing(L, S, b) == L \in Nat \ {0} /\ b \in [0 .. L - 1 -> S]
IsWindow(r, L, S, b, t, n) ==
    /\ r \in Seq(S) /\ Len(r) = n
    /\ \A i \in 1 .. n : r[i] = b[(t + i - 1) % L]

LEMMA WindowOf ==
    ASSUME NEW L, NEW S, NEW b, IsRing(L, S, b), NEW t \in Int, NEW n \in Nat
    PROVE  IsWindow(Window(L, b, t, n), L, S, b, t, n)
<1>0. L \in Nat \ {0} /\ b \in [0 .. L - 1 -> S]
  BY DEF IsRing
<1>1. ASSUME NEW i \in 1 .. n PROVE b[(t + i - 1) % L] \in S
  <2>1. t + i - 1 \in Int
    OBVIOUS
  <2> DEFINE a == t + i - 1
  <2>2. a % L \in 0 .. L - 1
    <3> HIDE DEF a
    <3> QED BY <1>0, <2>1, ModFacts DEF a
  <2> QED BY <1>0, <2>2
<1> DEFINE r == Window(L, b, t, n)
<1>2. r \in [1 .. n -> S] /\ \A i \in 1 .. n : r[i] = b[(t + i - 1) % L]
  BY <1>1 DEF Window
<1> HIDE DEF r
<1>3. r \in Seq(S) /\ Len(r) = n
  BY <1>2, SeqDef, LenProperties
<1> QED BY <1>2, <1>3 DEF r, IsWindow

(* Of the input buffer.                                                    *)
Ring(b, t, n) == Window(IBUFLEN, b, t, n)

LEMMA RingOf ==
    ASSUME NEW b \in [0 .. IBUFLEN - 1 -> Int], NEW t \in Int, NEW n \in Nat
    PROVE  /\ Ring(b, t, n) \in Seq(Int) /\ Len(Ring(b, t, n)) = n
           /\ \A i \in 1 .. n : Ring(b, t, n)[i] = b[(t + i - 1) % IBUFLEN]
<1>1. IsRing(IBUFLEN, Int, b)
  BY TtyAssumption DEF IsRing
<1>2. IsWindow(Window(IBUFLEN, b, t, n), IBUFLEN, Int, b, t, n)
  BY <1>1, WindowOf, Zenon
<1> QED BY <1>2 DEF Ring, IsWindow

StoredAt(b, h, c, d) == d = [b EXCEPT ![h] = c]

(* A character is put behind the last one.                                 *)
LEMMA RingGrows ==
    ASSUME NEW b \in [0 .. IBUFLEN - 1 -> Int], NEW t \in Int,
           NEW n \in 0 .. IBUFLEN - 1, NEW h, h = (t + n) % IBUFLEN, NEW c \in Int,
           NEW d, StoredAt(b, h, c, d)
    PROVE  Ring(d, t, n + 1) = Append(Ring(b, t, n), c)
<1>1. IBUFLEN \in Nat \ {0} /\ n \in Nat /\ n + 1 \in Nat
  BY TtyAssumption
<1>2. h \in 0 .. IBUFLEN - 1
  <2>1. t + n \in Int
    BY <1>1
  <2> QED BY <2>1, RingPlaces
<1>3. d \in [0 .. IBUFLEN - 1 -> Int] /\ d[h] = c
      /\ \A k \in 0 .. IBUFLEN - 1 : k # h => d[k] = b[k]
  BY <1>2 DEF StoredAt
<1>4. /\ Ring(b, t, n) \in Seq(Int) /\ Len(Ring(b, t, n)) = n
      /\ \A i \in 1 .. n : Ring(b, t, n)[i] = b[(t + i - 1) % IBUFLEN]
  BY <1>1, RingOf
<1>5. /\ Ring(d, t, n + 1) \in Seq(Int) /\ Len(Ring(d, t, n + 1)) = n + 1
      /\ \A i \in 1 .. n + 1 : Ring(d, t, n + 1)[i] = d[(t + i - 1) % IBUFLEN]
  <2> DEFINE m == n + 1
  <2>1. m \in Nat
    BY <1>1
  <2> HIDE DEF m
  <2>2. /\ Ring(d, t, m) \in Seq(Int) /\ Len(Ring(d, t, m)) = m
        /\ \A i \in 1 .. m : Ring(d, t, m)[i] = d[(t + i - 1) % IBUFLEN]
    BY <1>3, <2>1, RingOf
  <2> QED BY <2>2 DEF m
<1> DEFINE a == Append(Ring(b, t, n), c)
<1>6. /\ a \in Seq(Int) /\ Len(a) = n + 1 /\ a[n + 1] = c
      /\ \A i \in 1 .. n : a[i] = Ring(b, t, n)[i]
  BY <1>4, AppendProperties
<1> HIDE DEF a
<1>7. ASSUME NEW i \in 1 .. n
      PROVE  d[(t + i - 1) % IBUFLEN] = b[(t + i - 1) % IBUFLEN]
  <2> DEFINE x == t + i - 1
             y == t + n
  <2>1. x \in Int /\ y \in Int /\ y - x = n - i + 1
    BY <1>1
  <2>2. x # y /\ ~(x - y >= IBUFLEN) /\ ~(y - x >= IBUFLEN)
    BY <1>1
  <2> HIDE DEF x, y
  <2>3. x % IBUFLEN # y % IBUFLEN
    BY <1>1, <2>1, <2>2, ModApart
  <2>4. x % IBUFLEN \in 0 .. IBUFLEN - 1
    BY <2>1, RingPlaces
  <2>5. d[x % IBUFLEN] = b[x % IBUFLEN]
    BY <1>3, <2>3, <2>4 DEF y
  <2> QED BY <2>5 DEF x
<1>8. ASSUME NEW i \in 1 .. n + 1
      PROVE  Ring(d, t, n + 1)[i] = a[i]
  <2>1. CASE i \in 1 .. n
    BY <1>4, <1>5, <1>6, <1>7, <2>1
  <2>2. CASE i = n + 1
    <3>1. t + i - 1 = t + n
      BY <1>1, <2>2
    <3>2. d[(t + i - 1) % IBUFLEN] = c
      BY <1>3, <3>1
    <3> QED BY <1>5, <1>6, <2>2, <3>2
  <2>3. i \in 1 .. n \/ i = n + 1
    BY <1>1
  <2> QED BY <2>1, <2>2, <2>3
<1> QED BY <1>5, <1>6, <1>8, SeqEqual DEF a

(* The first k are taken.                                                  *)
LEMMA RingFetched ==
    ASSUME NEW b \in [0 .. IBUFLEN - 1 -> Int], NEW t \in Int,
           NEW n \in Nat, NEW k \in 0 .. n
    PROVE  Ring(b, (t + k) % IBUFLEN, n - k) = SubSeq(Ring(b, t, n), k + 1, n)
<1> DEFINE u == (t + k) % IBUFLEN
           r == Ring(b, t, n)
           s == Ring(b, u, n - k)
           w == SubSeq(r, k + 1, n)
<1>1. IBUFLEN \in Nat \ {0} /\ k \in Nat /\ n - k \in Nat /\ t + k \in Int
  BY TtyAssumption
<1>2. u \in Int
  BY <1>1, ModFacts
<1>3. ASSUME NEW i \in 1 .. n - k
      PROVE  (u + i - 1) % IBUFLEN = (t + (k + i) - 1) % IBUFLEN
  <2>1. i - 1 \in Int /\ u + i - 1 = u + (i - 1) /\ t + (k + i) - 1 = (t + k) + (i - 1)
    BY <1>1, <1>2
  <2>2. (u + (i - 1)) % IBUFLEN = ((t + k) + (i - 1)) % IBUFLEN
    BY <1>1, <2>1, ModShift
  <2> HIDE DEF u
  <2> QED BY <2>1, <2>2
<1> HIDE DEF u
<1>4. r \in Seq(Int) /\ Len(r) = n /\ \A i \in 1 .. n : r[i] = b[(t + i - 1) % IBUFLEN]
  BY RingOf
<1>5. /\ s \in Seq(Int) /\ Len(s) = n - k
      /\ \A i \in 1 .. n - k : s[i] = b[(u + i - 1) % IBUFLEN]
  BY <1>1, <1>2, RingOf
<1> HIDE DEF r, s
<1>6. /\ w \in Seq(Int) /\ Len(w) = n - k /\ \A i \in 1 .. n - k : w[i] = r[k + i]
  <2>1. \A i \in k + 1 .. n : r[i] \in Int
    BY <1>1, <1>4, ElementOfSeq
  <2>2. /\ w \in Seq(Int)
        /\ Len(w) = IF k + 1 <= n THEN n - (k + 1) + 1 ELSE 0
        /\ \A i \in 1 .. n - (k + 1) + 1 : w[i] = r[(k + 1) + i - 1]
    <3>1. k + 1 \in Int /\ n \in Int
      BY <1>1
    <3> QED BY <2>1, <3>1, SubSeqProperties
  <2>3. n - (k + 1) + 1 = n - k
    BY <1>1
  <2>4. Len(w) = n - k
    BY <1>1, <2>2
  <2>5. ASSUME NEW i \in 1 .. n - k PROVE w[i] = r[k + i]
    <3>1. (k + 1) + i - 1 = k + i
      BY <1>1
    <3> QED BY <2>2, <2>3, <3>1
  <2> QED BY <2>2, <2>4, <2>5
<1> HIDE DEF w
<1>7. ASSUME NEW i \in 1 .. n - k
      PROVE  s[i] = w[i]
  <2>1. k + i \in 1 .. n
    BY <1>1
  <2> QED BY <1>3, <1>4, <1>5, <1>6, <2>1
<1>8. s = w
  BY <1>1, <1>5, <1>6, <1>7, SeqEqual
<1> QED BY <1>8 DEF s, w, r, u

(* The last k are dropped.                                                 *)
LEMMA RingDropped ==
    ASSUME NEW b \in [0 .. IBUFLEN - 1 -> Int], NEW t \in Int,
           NEW n \in Nat, NEW k \in 0 .. n
    PROVE  Ring(b, t, n - k) = SubSeq(Ring(b, t, n), 1, n - k)
<1> DEFINE m == n - k
           r == Ring(b, t, n)
           s == Ring(b, t, m)
           w == SubSeq(r, 1, m)
<1>1. m \in Nat /\ m <= n
  OBVIOUS
<1> HIDE DEF m
<1>2. r \in Seq(Int) /\ Len(r) = n /\ \A i \in 1 .. n : r[i] = b[(t + i - 1) % IBUFLEN]
  BY RingOf
<1>3. /\ s \in Seq(Int) /\ Len(s) = m
      /\ \A i \in 1 .. m : s[i] = b[(t + i - 1) % IBUFLEN]
  BY <1>1, RingOf
<1> HIDE DEF r, s
<1>4. /\ w \in Seq(Int) /\ Len(w) = m /\ \A i \in 1 .. m : w[i] = r[i]
  <2>1. \A i \in 1 .. m : r[i] \in Int
    BY <1>1, <1>2, ElementOfSeq
  <2> QED BY <1>1, <1>2, <2>1, SubSeqProperties
<1> HIDE DEF w
<1>5. ASSUME NEW i \in 1 .. m
      PROVE  s[i] = w[i]
  <2>1. i \in 1 .. n
    BY <1>1
  <2> QED BY <1>2, <1>3, <1>4, <2>1
<1>6. s = w
  BY <1>1, <1>3, <1>4, <1>5, SeqEqual
<1> QED BY <1>6 DEF s, w, r, m

-----------------------------------------------------------------------------
(* The stream of InputLine.                                                *)
RingNow == Ring(ibuff, itail, InTotal)

StreamOK == ConsoleInv => InRing(Stored) = RingNow /\ RingNow \in Seq(Int)
                          /\ Len(RingNow) = InTotal

LEMMA BufferReadable ==
    ASSUME ConsoleInv
    PROVE  ibuff \in [0 .. IBUFLEN - 1 -> Int] /\ itail \in Int /\ InTotal \in Nat
<1>1. 0 .. typed \subseteq Int /\ ibuff \in [0 .. IBUFLEN - 1 -> 0 .. typed]
  BY DEF ConsoleInv, InInv
<1>2. ibuff \in [0 .. IBUFLEN - 1 -> Int]
  BY <1>1
<1>3. InTotal \in Nat
  BY StoredIs, Standing DEF InTotal
<1> QED BY <1>2, <1>3, Standing

LEMMA StreamIs == StreamOK
<1> SUFFICES ASSUME ConsoleInv
             PROVE  InRing(Stored) = RingNow /\ RingNow \in Seq(Int)
                    /\ Len(RingNow) = InTotal
  BY DEF StreamOK
<1>1. Stored = InTotal
  BY StoredIs DEF InTotal
<1>2. InRing(Stored) = RingNow
  BY <1>1 DEF InRing, RingNow, Ring, Window
<1>3. RingNow \in Seq(Int) /\ Len(RingNow) = InTotal
  BY BufferReadable, RingOf DEF RingNow
<1> QED BY <1>2, <1>3

LEMMA StreamIsNext == StreamOK'
BY StreamIs, PTL

(* The place of the next character.                                        *)
LEMMA HeadIs ==
    ASSUME ConsoleInv, InSpans
    PROVE  ihead = (itail + InTotal) % IBUFLEN
<1>1. /\ ihead \in 0 .. IBUFLEN - 1 /\ itail \in Int /\ InTotal \in Nat
      /\ IBUFLEN \in Nat \ {0}
      /\ (ihead - itail - InTotal) % IBUFLEN = 0
  BY BufferReadable, TtyAssumption DEF ConsoleInv, InInv, InSpans, Spans, InTotal
<1> DEFINE a == ihead - itail - InTotal
           b == itail + InTotal
<1>2. a \in Int /\ b \in Int /\ a + b = ihead /\ a % IBUFLEN = 0
  BY <1>1
<1> HIDE DEF a, b
<1>3. (a + b) % IBUFLEN = b % IBUFLEN
  BY <1>1, <1>2, ModZero
<1>4. ihead % IBUFLEN = ihead
  <2>1. ihead = IBUFLEN * 0 + ihead /\ 0 \in Int /\ ihead \in Int
    BY <1>1
  <2> QED BY <1>1, <2>1, ModIs
<1> QED BY <1>2, <1>3, <1>4 DEF b

LEMMA StreamStays ==
    ASSUME InStill, InTotal' = InTotal
    PROVE  RingNow' = RingNow
BY DEF InStill, RingNow, Ring

LEMMA StreamGrows ==
    ASSUME Roomy = TRUE, ConsoleInv, InSpans, StepOK, Adds
    PROVE  RingNow' = Append(RingNow, typed + 1) /\ typed + 1 \in 1 .. MaxTyped
<1>1. /\ ibuff' = [ibuff EXCEPT ![ihead] = typed + 1] /\ itail' = itail
      /\ typed < MaxTyped /\ Stored # IBUFLEN
  BY DEF Adds
<1>2. InTotal' = InTotal + 1
  BY InTotalMoves
<1>3. /\ ibuff \in [0 .. IBUFLEN - 1 -> Int] /\ itail \in Int /\ InTotal \in Nat
  BY BufferReadable
<1>4. InTotal \in 0 .. IBUFLEN - 1
  <2>1. InTotal \in 0 .. IBUFLEN /\ IBUFLEN \in Nat
    BY TtyAssumption DEF InSpans, Spans, InTotal
  <2>2. InTotal # IBUFLEN
    BY <1>1, StoredIs DEF InTotal
  <2> QED BY <2>1, <2>2
<1>5. ihead = (itail + InTotal) % IBUFLEN
  BY HeadIs
<1>6. typed + 1 \in Int /\ typed + 1 \in 1 .. MaxTyped
  <2>1. typed \in Nat /\ MaxTyped \in Nat
    BY RoomyAssumption DEF ConsoleInv, InInv
  <2> QED BY <1>1, <2>1
<1>7. StoredAt(ibuff, ihead, typed + 1, ibuff')
  BY <1>1 DEF StoredAt
<1> DEFINE c == typed + 1
<1> HIDE DEF c
<1>8. StoredAt(ibuff, ihead, c, ibuff') /\ c \in Int
  BY <1>6, <1>7 DEF c
<1>9. Ring(ibuff', itail, InTotal + 1) = Append(Ring(ibuff, itail, InTotal), c)
  BY <1>3, <1>4, <1>5, <1>8, RingGrows
<1>10. RingNow' = Ring(ibuff', itail', InTotal')
  BY DEF RingNow
<1> QED BY <1>1, <1>2, <1>6, <1>9, <1>10 DEF RingNow, c

LEMMA StreamFetched ==
    ASSUME ConsoleInv, StepOK, NEW k \in Nat, Fetches(k)
    PROVE  RingNow' = SubSeq(RingNow, k + 1, InTotal) /\ k \in 0 .. InTotal
<1>1. ibuff' = ibuff /\ itail' = (itail + k) % IBUFLEN
  BY DEF Fetches
<1>2. InTotal' = InTotal - k /\ InTotal' \in Nat /\ InTotal \in Nat
  BY InTotalMoves
<1>3. k \in 0 .. InTotal
  <2>1. InTotal - k \in Nat
    BY <1>2
  <2> QED BY <1>2, <2>1
<1>4. Ring(ibuff, (itail + k) % IBUFLEN, InTotal - k)
          = SubSeq(Ring(ibuff, itail, InTotal), k + 1, InTotal)
  BY <1>3, BufferReadable, RingFetched
<1>5. RingNow' = Ring(ibuff', itail', InTotal')
  BY DEF RingNow
<1> QED BY <1>1, <1>2, <1>3, <1>4, <1>5 DEF RingNow

LEMMA StreamDropped ==
    ASSUME ConsoleInv, StepOK, NEW k \in {1, icursor}, k <= icursor, Drops(k)
    PROVE  RingNow' = SubSeq(RingNow, 1, InTotal - k)
<1>1. ibuff' = ibuff /\ itail' = itail
  BY DEF Drops
<1>2. InTotal' = InTotal - k /\ InTotal' \in Nat /\ InTotal \in Nat
  BY InTotalMoves
<1>3. k \in 0 .. InTotal
  <2>1. InTotal - k \in Nat /\ k \in Nat
    BY <1>2, Standing
  <2> QED BY <1>2, <2>1
<1>4. Ring(ibuff, itail, InTotal - k) = SubSeq(Ring(ibuff, itail, InTotal), 1, InTotal - k)
  BY <1>3, BufferReadable, RingDropped
<1>5. RingNow' = Ring(ibuff', itail', InTotal')
  BY DEF RingNow
<1> QED BY <1>1, <1>2, <1>4, <1>5 DEF RingNow

LEMMA LineStep ==
    ASSUME Roomy = TRUE, NoZeroRead, ConsoleInv, InSpans, StepOK
    PROVE  [Input!Next]_<<InRing(Stored), icursor>>
<1>1. /\ InRing(Stored) = RingNow /\ InRing(Stored)' = RingNow'
      /\ Len(RingNow) = InTotal /\ InTotal - icursor = InUnits
      /\ icursor \in Nat /\ InTotal \in Nat
  BY StreamIs, StreamIsNext, InTotalMoves, Standing DEF StreamOK, StepOK
<1>2. CASE InStill
  <2>1. RingNow' = RingNow /\ icursor' = icursor
    BY <1>2, InTotalMoves, StreamStays DEF InStill
  <2> QED BY <1>1, <2>1
<1>3. CASE Adds
  <2>1. /\ RingNow' = Append(RingNow, typed + 1) /\ typed + 1 \in 1 .. MaxTyped
    BY <1>3, StreamGrows
  <2>2. icursor' \in {icursor + 1, icursor, 0}
    BY <1>3 DEF Adds
  <2>3. Input!Type \/ Input!Through \/ Input!Commit
    BY <1>1, <2>1, <2>2 DEF Input!Type, Input!Through, Input!Commit
  <2> QED BY <2>3 DEF Input!Next
<1>4. ASSUME NEW k \in Nat, Fetches(k)
      PROVE  [Input!Next]_<<InRing(Stored), icursor>>
  <2>1. /\ RingNow' = SubSeq(RingNow, k + 1, InTotal) /\ icursor' = icursor
        /\ k <= InUnits
    BY <1>4, StreamFetched, InTotalMoves DEF Fetches
  <2>2. CASE k = 0
    <3>1. SubSeq(RingNow, 1, Len(RingNow)) = RingNow
      BY StreamIs, SubSeqFull DEF StreamOK
    <3> QED BY <1>1, <2>1, <2>2, <3>1
  <2>3. CASE k > 0
    <3>1. k \in 1 .. Len(RingNow) - icursor
      BY <1>1, <2>1, <2>3
    <3>2. Input!Deliver
      BY <1>1, <2>1, <3>1 DEF Input!Deliver
    <3> QED BY <3>2 DEF Input!Next
  <2> QED BY <2>2, <2>3
<1>5. ASSUME NEW k \in {1, icursor}, k <= icursor, Drops(k)
      PROVE  [Input!Next]_<<InRing(Stored), icursor>>
  <2>1. RingNow' = SubSeq(RingNow, 1, InTotal - k) /\ icursor' = icursor - k
    BY <1>5, StreamDropped DEF Drops
  <2>2. CASE k = 1
    <3>1. Input!Erase
      BY <1>1, <1>5, <2>1, <2>2 DEF Input!Erase
    <3> QED BY <3>1 DEF Input!Next
  <2>3. CASE k = icursor
    <3>1. icursor' = 0
      BY <1>1, <2>1, <2>3
    <3>2. Input!Kill
      BY <1>1, <2>1, <2>3, <3>1 DEF Input!Kill
    <3> QED BY <3>2 DEF Input!Next
  <2> QED BY <2>2, <2>3
<1> QED BY <1>2, <1>3, <1>4, <1>5 DEF StepOK, InMove

(* The input side implements InputLine: what has been typed comes to the   *)
(* readers in order, each character once, and only the line that is being  *)
(* typed can be taken back, whatever the mode, the keys and the readers,   *)
(* and wherever the ring wraps around (ttyiin.c, ttyread.c, ttygetc.c,     *)
(* ttycntl.c).  The two assumptions are those of InputAlwaysAccounted.     *)
THEOREM InputAlwaysLine ==
    ASSUME Roomy = TRUE, NoZeroRead
    PROVE  Spec => LineKept
<1>1. Init => Input!InputInit
  <2> SUFFICES ASSUME Init PROVE Input!InputInit
    OBVIOUS
  <2>1. ConsoleInv /\ InUnits = 0 /\ icursor = 0
    BY InitConsole
  <2>2. RingNow \in Seq(Int) /\ Len(RingNow) = 0 /\ InRing(Stored) = RingNow
    BY <2>1, StreamIs DEF StreamOK, InTotal
  <2>3. RingNow = <<>>
    BY <2>2, EmptySeq
  <2> QED BY <2>1, <2>2, <2>3 DEF Input!InputInit
<1>2. ConsoleInv /\ InSpans /\ [Next]_vars => [Input!Next]_<<InRing(Stored), icursor>>
  BY NextStep, LineStep
<1> QED BY <1>1, <1>2, InSpansAlways, PTL DEF Spec, LineKept, Input!Spec

-----------------------------------------------------------------------------
(***************************************************************************)
(* Texts in order: what is due of a process's text goes on in it where the *)
(* line and the output ring have got to.                                   *)
(***************************************************************************)

(* s, of p's characters, goes on in the text t behind its place e.         *)
Tells(s, p, t, e) ==
    \A j \in 1 .. Len(s) : /\ e + j \in 1 .. Len(t)
                           /\ s[j].by = p /\ s[j].n = t[e + j]

LEMMA TellsParts ==
    ASSUME NEW s \in Seq(Chr), NEW u \in Seq(Chr), NEW p, NEW t, NEW e \in Int
    PROVE  Tells(s \o u, p, t, e) <=> Tells(s, p, t, e) /\ Tells(u, p, t, e + Len(s))
<1> DEFINE n == Len(s)
           m == Len(u)
           w == s \o u
<1>1. /\ Len(w) = n + m /\ n \in Nat /\ m \in Nat
      /\ \A i \in 1 .. n + m : w[i] = IF i <= n THEN s[i] ELSE u[i - n]
  BY ConcatProperties, LenProperties
<1> HIDE DEF w
<1>2. /\ \A j \in 1 .. n : j \in 1 .. n + m /\ w[j] = s[j]
      /\ \A j \in 1 .. m : n + j \in 1 .. n + m /\ w[n + j] = u[j]
                           /\ e + (n + j) = (e + n) + j
  <2>1. ASSUME NEW j \in 1 .. n PROVE j \in 1 .. n + m /\ w[j] = s[j]
    BY <1>1
  <2>2. ASSUME NEW j \in 1 .. m
        PROVE  n + j \in 1 .. n + m /\ w[n + j] = u[j] /\ e + (n + j) = (e + n) + j
    <3>1. n + j \in 1 .. n + m /\ ~(n + j <= n) /\ (n + j) - n = j
      BY <1>1
    <3>2. e + (n + j) = (e + n) + j
      BY <1>1
    <3> QED BY <1>1, <3>1, <3>2
  <2> QED BY <2>1, <2>2
<1>3. ASSUME Tells(w, p, t, e) PROVE Tells(s, p, t, e) /\ Tells(u, p, t, e + n)
  <2>1. \A j \in 1 .. n + m : /\ e + j \in 1 .. Len(t)
                              /\ w[j].by = p /\ w[j].n = t[e + j]
    BY <1>1, <1>3 DEF Tells
  <2>2. Tells(s, p, t, e)
    BY <1>2, <2>1 DEF Tells
  <2>3. ASSUME NEW j \in 1 .. m
        PROVE  (e + n) + j \in 1 .. Len(t) /\ u[j].by = p /\ u[j].n = t[(e + n) + j]
    BY <1>2, <2>1
  <2> QED BY <2>2, <2>3 DEF Tells
<1>4. ASSUME Tells(s, p, t, e), Tells(u, p, t, e + n) PROVE Tells(w, p, t, e)
  <2>1. ASSUME NEW i \in 1 .. n + m
        PROVE  e + i \in 1 .. Len(t) /\ w[i].by = p /\ w[i].n = t[e + i]
    <3>1. CASE i <= n
      <4>1. i \in 1 .. n
        BY <1>1, <3>1
      <4> QED BY <1>2, <1>4, <4>1 DEF Tells
    <3>2. CASE ~(i <= n)
      <4>1. PICK j \in 1 .. m : i = n + j
        <5>1. i - n \in 1 .. m /\ i = n + (i - n)
          BY <1>1, <3>2
        <5> QED BY <5>1
      <4>2. /\ (e + n) + j \in 1 .. Len(t) /\ u[j].by = p /\ u[j].n = t[(e + n) + j]
        BY <1>4, <4>1 DEF Tells
      <4> QED BY <1>2, <4>1, <4>2
    <3> QED BY <3>1, <3>2
  <2> QED BY <1>1, <2>1 DEF Tells
<1> QED BY <1>3, <1>4 DEF w

LEMMA TellsSame ==
    ASSUME NEW s, NEW u, NEW p, NEW t, NEW e, SameText(s, u), Tells(s, p, t, e)
    PROVE  Tells(u, p, t, e)
<1>1. Len(s) = Len(u) /\ \A i \in 1 .. Len(s) : s[i].by = u[i].by /\ s[i].n = u[i].n
  BY DEF SameText
<1> QED BY <1>1 DEF Tells

(* t goes on where the text o ends.                                        *)
Extends(o, t) == Len(o) <= Len(t) /\ \A i \in 1 .. Len(o) : t[i] = o[i]

LEMMA TellsLonger ==
    ASSUME NEW s, NEW p, NEW S, NEW o \in Seq(S), NEW t \in Seq(S), NEW e \in Int,
           Extends(o, t), Tells(s, p, o, e)
    PROVE  Tells(s, p, t, e)
<1>1. Len(o) \in Nat /\ Len(t) \in Nat
  BY LenProperties
<1>2. ASSUME NEW j \in 1 .. Len(s)
      PROVE  e + j \in 1 .. Len(t) /\ s[j].by = p /\ s[j].n = t[e + j]
  <2>1. e + j \in 1 .. Len(o) /\ s[j].by = p /\ s[j].n = o[e + j]
    BY DEF Tells
  <2>2. e + j \in 1 .. Len(t) /\ t[e + j] = o[e + j]
    BY <1>1, <2>1 DEF Extends
  <2> QED BY <2>1, <2>2
<1> QED BY <1>2 DEF Tells

(* What r holds of p's characters goes on in the text t: behind its place  *)
(* d, and up to its place e.  c counts them.                               *)
Follows(r, p, t, d, e) ==
    \E c \in [0 .. Len(r) -> Nat] :
        /\ c[0] = d /\ c[Len(r)] = e
        /\ \A i \in 1 .. Len(r) :
               \/ r[i].by # p /\ c[i] = c[i - 1]
               \/ /\ r[i].by = p /\ c[i] = c[i - 1] + 1
                  /\ c[i] \in 1 .. Len(t) /\ r[i].n = t[c[i]]

LEMMA FollowsLonger ==
    ASSUME NEW r \in Seq(Chr), NEW p, NEW S, NEW o \in Seq(S), NEW t \in Seq(S),
           NEW d, NEW e, Extends(o, t), Follows(r, p, o, d, e)
    PROVE  Follows(r, p, t, d, e)
<1>1. PICK c \in [0 .. Len(r) -> Nat] :
          /\ c[0] = d /\ c[Len(r)] = e
          /\ \A i \in 1 .. Len(r) :
                 \/ r[i].by # p /\ c[i] = c[i - 1]
                 \/ /\ r[i].by = p /\ c[i] = c[i - 1] + 1
                    /\ c[i] \in 1 .. Len(o) /\ r[i].n = o[c[i]]
  BY DEF Follows
<1>2. Len(o) \in Nat /\ Len(t) \in Nat /\ \A i \in 1 .. Len(o) : i \in 1 .. Len(t)
  BY LenProperties DEF Extends
<1>3. ASSUME NEW i \in 1 .. Len(r)
      PROVE  \/ r[i].by # p /\ c[i] = c[i - 1]
             \/ /\ r[i].by = p /\ c[i] = c[i - 1] + 1
                /\ c[i] \in 1 .. Len(t) /\ r[i].n = t[c[i]]
  BY <1>1, <1>2 DEF Extends
<1> QED BY <1>1, <1>3 DEF Follows

(* The two ways in which a ring grows.                                     *)
LEMMA FollowsGrows ==
    ASSUME NEW r \in Seq(Chr), NEW s \in Seq(Chr), NEW p, NEW t, NEW d, NEW e \in Nat,
           Follows(r, p, t, d, e)
    PROVE  /\ Tells(s, p, t, e) => Follows(r \o s, p, t, d, e + Len(s))
           /\ (\A j \in 1 .. Len(s) : s[j].by # p) => Follows(r \o s, p, t, d, e)
<1> DEFINE n == Len(r)
           m == Len(s)
           w == r \o s
<1>1. /\ Len(w) = n + m /\ n \in Nat /\ m \in Nat
      /\ \A i \in 1 .. n + m : w[i] = IF i <= n THEN r[i] ELSE s[i - n]
  BY ConcatProperties, LenProperties
<1> HIDE DEF w
<1>2. PICK c \in [0 .. n -> Nat] :
          /\ c[0] = d /\ c[n] = e
          /\ \A i \in 1 .. n :
                 \/ r[i].by # p /\ c[i] = c[i - 1]
                 \/ /\ r[i].by = p /\ c[i] = c[i - 1] + 1
                    /\ c[i] \in 1 .. Len(t) /\ r[i].n = t[c[i]]
  BY DEF Follows
<1>3. ASSUME NEW k \in {0, 1},
             \A j \in 1 .. m :
                 \/ s[j].by # p /\ k = 0
                 \/ /\ s[j].by = p /\ k = 1
                    /\ e + j \in 1 .. Len(t) /\ s[j].n = t[e + j]
      PROVE  Follows(w, p, t, d, e + k * m)
  <2> DEFINE b == [i \in 0 .. n + m |-> IF i <= n THEN c[i] ELSE e + k * (i - n)]
  <2>1. b \in [0 .. n + m -> Nat] /\ b[0] = d /\ b[n + m] = e + k * m
    <3>1. ASSUME NEW i \in 0 .. n + m
          PROVE  (IF i <= n THEN c[i] ELSE e + k * (i - n)) \in Nat
      <4>1. CASE i <= n
        <5>1. i \in 0 .. n
          BY <1>1, <4>1
        <5> QED BY <1>2, <4>1, <5>1
      <4>2. CASE ~(i <= n)
        <5>1. i - n \in Nat
          BY <1>1, <4>2
        <5> DEFINE x == i - n
        <5>2. x \in Nat
          BY <5>1
        <5> HIDE DEF x
        <5>3. e + k * x \in Nat
          BY <1>3, <5>2
        <5> QED BY <4>2, <5>3 DEF x
      <4> QED BY <4>1, <4>2
    <3>2. b \in [0 .. n + m -> Nat]
      BY <3>1
    <3>3. b[0] = d
      BY <1>1, <1>2
    <3>4. b[n + m] = e + k * m
      <4>1. n + m \in 0 .. n + m /\ (n + m <= n => m = 0) /\ (n + m) - n = m
        BY <1>1
      <4>2. CASE m = 0
        <5>1. b[n + m] = c[n] /\ e + k * m = e
          BY <1>1, <1>3, <4>1, <4>2
        <5> QED BY <1>2, <5>1
      <4>3. CASE m # 0
        <5>1. ~(n + m <= n)
          BY <1>1, <4>3
        <5> QED BY <4>1, <5>1
      <4> QED BY <4>2, <4>3
    <3> QED BY <3>2, <3>3, <3>4
  <2>2. /\ \A i \in 0 .. n : b[i] = c[i]
        /\ \A j \in 1 .. m : b[n + j] = e + k * j /\ b[(n + j) - 1] = e + k * (j - 1)
    <3>1. ASSUME NEW i \in 0 .. n PROVE b[i] = c[i]
      BY <1>1
    <3>2. ASSUME NEW j \in 1 .. m
          PROVE  b[n + j] = e + k * j /\ b[(n + j) - 1] = e + k * (j - 1)
      <4>1. /\ n + j \in 0 .. n + m /\ ~(n + j <= n) /\ (n + j) - n = j
            /\ (n + j) - 1 \in 0 .. n + m /\ ((n + j) - 1) - n = j - 1
            /\ ((n + j) - 1 <= n => j = 1 /\ (n + j) - 1 = n)
        BY <1>1
      <4>2. b[n + j] = e + k * j
        BY <4>1
      <4>3. CASE (n + j) - 1 <= n
        <5>1. e + k * (j - 1) = e
          BY <1>3, <4>1, <4>3
        <5>2. b[(n + j) - 1] = c[n]
          BY <1>1, <4>1, <4>3
        <5> QED BY <1>2, <4>2, <5>1, <5>2
      <4>4. CASE ~((n + j) - 1 <= n)
        BY <4>1, <4>2, <4>4
      <4> QED BY <4>3, <4>4
    <3> QED BY <3>1, <3>2
  <2> HIDE DEF b
  <2>3. ASSUME NEW i \in 1 .. n + m
        PROVE  \/ w[i].by # p /\ b[i] = b[i - 1]
               \/ /\ w[i].by = p /\ b[i] = b[i - 1] + 1
                  /\ b[i] \in 1 .. Len(t) /\ w[i].n = t[b[i]]
    <3>1. CASE i <= n
      <4>1. i \in 1 .. n /\ i \in 0 .. n /\ i - 1 \in 0 .. n /\ w[i] = r[i]
        BY <1>1, <3>1
      <4>2. b[i] = c[i] /\ b[i - 1] = c[i - 1]
        BY <2>2, <4>1
      <4> QED BY <1>2, <4>1, <4>2
    <3>2. CASE ~(i <= n)
      <4>1. PICK j \in 1 .. m : i = n + j /\ w[i] = s[j]
        <5>1. i - n \in 1 .. m /\ i = n + (i - n) /\ w[i] = s[i - n]
          BY <1>1, <3>2
        <5> QED BY <5>1
      <4>2. b[i] = e + k * j /\ b[i - 1] = e + k * (j - 1)
        BY <2>2, <4>1
      <4>3. k = 0 => b[i] = b[i - 1]
        BY <1>3, <4>2
      <4>4. k = 1 => b[i] = e + j /\ b[i] = b[i - 1] + 1
        BY <1>3, <4>2
      <4> QED BY <1>3, <4>1, <4>3, <4>4
    <3> QED BY <3>1, <3>2
  <2>4. /\ b \in [0 .. Len(w) -> Nat] /\ b[0] = d /\ b[Len(w)] = e + k * m
        /\ \A i \in 1 .. Len(w) :
               \/ w[i].by # p /\ b[i] = b[i - 1]
               \/ /\ w[i].by = p /\ b[i] = b[i - 1] + 1
                  /\ b[i] \in 1 .. Len(t) /\ w[i].n = t[b[i]]
    BY <1>1, <2>1, <2>3
  <2> QED BY <2>4, Zenon DEF Follows
<1>4. ASSUME Tells(s, p, t, e) PROVE Follows(w, p, t, d, e + m)
  <2>1. Follows(w, p, t, d, e + 1 * m)
    BY <1>3, <1>4 DEF Tells
  <2>2. 1 * m = m
    BY <1>1
  <2> QED BY <2>1, <2>2, Zenon
<1>5. ASSUME \A j \in 1 .. m : s[j].by # p PROVE Follows(w, p, t, d, e)
  <2>1. Follows(w, p, t, d, e + 0 * m)
    BY <1>3, <1>5
  <2> QED BY <1>1, <2>1
<1> QED BY <1>4, <1>5 DEF w

LEMMA FollowsNothing ==
    ASSUME NEW p, NEW t, NEW e \in Nat
    PROVE  Follows(<<>>, p, t, e, e)
<1> DEFINE c == [i \in 0 .. 0 |-> e]
<1>1. /\ c \in [0 .. 0 -> Nat] /\ c[0] = e
  OBVIOUS
<1> HIDE DEF c
<1>2. Len(<<>>) = 0 /\ 1 .. 0 = {}
  BY EmptySeq
<1> QED BY <1>1, <1>2 DEF Follows

(* The character that is sent first.                                       *)
LEMMA FollowsHead ==
    ASSUME NEW r \in Seq(Chr), NEW p, NEW t, NEW d, NEW e, Follows(r, p, t, d, e),
           Len(r) > 0, NEW u \in Seq(Chr), Len(u) = Len(r) - 1,
           \A i \in 1 .. Len(u) : u[i] = r[i + 1]
    PROVE  /\ r[1].by # p => Follows(u, p, t, d, e)
           /\ r[1].by = p => /\ d + 1 \in 1 .. Len(t) /\ r[1].n = t[d + 1]
                             /\ Follows(u, p, t, d + 1, e)
<1> DEFINE n == Len(r)
<1>1. PICK c \in [0 .. n -> Nat] :
          /\ c[0] = d /\ c[n] = e
          /\ \A i \in 1 .. n :
                 \/ r[i].by # p /\ c[i] = c[i - 1]
                 \/ /\ r[i].by = p /\ c[i] = c[i - 1] + 1
                    /\ c[i] \in 1 .. Len(t) /\ r[i].n = t[c[i]]
  BY DEF Follows
<1>2. n \in Nat /\ n > 0
  BY LenProperties
<1> DEFINE b == [i \in 0 .. n - 1 |-> c[i + 1]]
<1>3. b \in [0 .. n - 1 -> Nat] /\ b[0] = c[1] /\ b[n - 1] = e
  <2>1. \A i \in 0 .. n - 1 : i + 1 \in 0 .. n
    BY <1>2
  <2>2. b \in [0 .. n - 1 -> Nat]
    BY <2>1
  <2>3. 0 \in 0 .. n - 1 /\ 0 + 1 = 1 /\ n - 1 \in 0 .. n - 1 /\ (n - 1) + 1 = n
    BY <1>2
  <2> QED BY <1>1, <2>2, <2>3
<1>4. ASSUME NEW i \in 1 .. n - 1
      PROVE  b[i] = c[i + 1] /\ b[i - 1] = c[(i + 1) - 1] /\ i + 1 \in 1 .. n
  <2>1. i \in 0 .. n - 1 /\ i - 1 \in 0 .. n - 1 /\ (i - 1) + 1 = (i + 1) - 1
        /\ i + 1 \in 1 .. n
    BY <1>2
  <2> QED BY <2>1
<1> HIDE DEF b
<1>5. ASSUME NEW i \in 1 .. Len(u)
      PROVE  \/ u[i].by # p /\ b[i] = b[i - 1]
             \/ /\ u[i].by = p /\ b[i] = b[i - 1] + 1
                /\ b[i] \in 1 .. Len(t) /\ u[i].n = t[b[i]]
  <2>1. i \in 1 .. n - 1 /\ u[i] = r[i + 1]
    OBVIOUS
  <2>2. b[i] = c[i + 1] /\ b[i - 1] = c[(i + 1) - 1] /\ i + 1 \in 1 .. n
    BY <1>4, <2>1
  <2> QED BY <1>1, <2>1, <2>2
<1>6. Follows(u, p, t, c[1], e)
  BY <1>3, <1>5 DEF Follows
<1>7. 1 \in 1 .. n /\ 1 - 1 = 0 /\ c[1] \in Nat
  BY <1>2
<1> QED BY <1>1, <1>6, <1>7
-----------------------------------------------------------------------------
(***************************************************************************)
(* What the line is to show, and the characters that are put in the ring.  *)
(***************************************************************************)

(* s holds p's characters of the places that t names.                      *)
Alike(s, p, t) ==
    /\ Len(s) = Len(t)
    /\ \A j \in 1 .. Len(s) : s[j].by = p /\ s[j].n = t[j]

LEMMA AlikeConcat ==
    ASSUME NEW s \in Seq(Chr), NEW u \in Seq(Chr), NEW p,
           NEW t \in Seq(Nat), NEW v \in Seq(Nat), Alike(s, p, t), Alike(u, p, v)
    PROVE  Alike(s \o u, p, t \o v)
<1> DEFINE n == Len(s)
           m == Len(u)
           a == s \o u
           b == t \o v
<1>1. /\ Len(a) = n + m /\ n \in Nat /\ m \in Nat
      /\ \A i \in 1 .. n + m : a[i] = IF i <= n THEN s[i] ELSE u[i - n]
  BY ConcatProperties, LenProperties
<1>2. /\ Len(t) = n /\ Len(v) = m
      /\ \A j \in 1 .. n : s[j].by = p /\ s[j].n = t[j]
      /\ \A j \in 1 .. m : u[j].by = p /\ u[j].n = v[j]
  BY DEF Alike
<1>3. /\ Len(b) = n + m
      /\ \A i \in 1 .. n + m : b[i] = IF i <= n THEN t[i] ELSE v[i - n]
  BY <1>2, ConcatProperties
<1> HIDE DEF a, b
<1>4. ASSUME NEW i \in 1 .. n + m PROVE a[i].by = p /\ a[i].n = b[i]
  <2>1. CASE i <= n
    <3>1. i \in 1 .. n
      BY <1>1, <2>1
    <3> QED BY <1>1, <1>2, <1>3, <2>1, <3>1
  <2>2. CASE ~(i <= n)
    <3>1. i - n \in 1 .. m
      BY <1>1, <2>2
    <3> QED BY <1>1, <1>2, <1>3, <2>2, <3>1
  <2> QED BY <2>1, <2>2
<1>5. Alike(a, p, b)
  BY <1>1, <1>3, <1>4 DEF Alike
<1> QED BY <1>5 DEF a, b

LEMMA AlikeFlat ==
    ASSUME NEW a \in Seq(Seq(Chr)), NEW b \in Seq(Seq(Nat)), NEW p,
           Len(a) = Len(b), \A i \in 1 .. Len(a) : Alike(a[i], p, b[i])
    PROVE  Alike(FlattenSeq(a), p, FlattenSeq(b))
<1> DEFINE N == Len(a)
<1>1. /\ N \in Nat /\ \A i \in 1 .. N : a[i] \in Seq(Chr)
      /\ \A i \in 1 .. N : b[i] \in Seq(Nat)
  BY LenProperties, ElementOfSeq
<1>2. CASE N = 0
  <2>1. FlattenSeq(a) = <<>> /\ FlattenSeq(b) = <<>>
    BY <1>2, FlattenSeqs
  <2>2. Len(<<>>) = 0
    BY EmptySeq
  <2> QED BY <2>1, <2>2 DEF Alike
<1>3. CASE N > 0
  <2>1. PICK g \in [1 .. Len(a) -> Seq(Chr)] :
            g[1] = a[1] /\ \A i \in 2 .. Len(a) : g[i] = g[i - 1] \o a[i]
    BY <1>3, JoinsExist
  <2>2. PICK h \in [1 .. Len(b) -> Seq(Nat)] :
            h[1] = b[1] /\ \A i \in 2 .. Len(b) : h[i] = h[i - 1] \o b[i]
    BY <1>3, JoinsExist
  <2>3. FlattenSeq(a) = g[N] /\ FlattenSeq(b) = h[N]
    BY <1>3, <2>1, <2>2, FlattenIs
  <2> DEFINE T == {n \in 0 .. N - 1 : Alike(g[n + 1], p, h[n + 1])}
  <2>4. 0 \in T
    <3>1. 0 \in 0 .. N - 1 /\ 1 \in 1 .. N /\ 0 + 1 = 1
      BY <1>1, <1>3
    <3> QED BY <2>1, <2>2, <3>1
  <2>5. ASSUME NEW n \in 0 .. (N - 1) - 1, n \in T
        PROVE  n + 1 \in T
    <3>1. /\ n + 1 \in 0 .. N - 1 /\ (n + 1) + 1 \in 2 .. N /\ (n + 1) + 1 \in 1 .. N
          /\ n + 1 \in 1 .. N /\ ((n + 1) + 1) - 1 = n + 1
      BY <1>1
    <3> DEFINE i == (n + 1) + 1
    <3>2. g[i] = g[n + 1] \o a[i] /\ h[i] = h[n + 1] \o b[i]
      BY <2>1, <2>2, <3>1
    <3>3. /\ Alike(g[n + 1], p, h[n + 1]) /\ Alike(a[i], p, b[i])
          /\ g[n + 1] \in Seq(Chr) /\ h[n + 1] \in Seq(Nat)
          /\ a[i] \in Seq(Chr) /\ b[i] \in Seq(Nat)
      BY <1>1, <2>1, <2>2, <2>5, <3>1
    <3> HIDE DEF i
    <3>4. Alike(g[i], p, h[i])
      BY <3>2, <3>3, AlikeConcat
    <3> QED BY <3>1, <3>4 DEF i
  <2>6. N - 1 \in T
    <3> HIDE DEF T
    <3>1. N - 1 \in Nat
      BY <1>1, <1>3
    <3>2. 0 .. N - 1 \subseteq T
      BY <2>4, <2>5, <3>1, Induct
    <3>3. N - 1 \in 0 .. N - 1
      BY <3>1
    <3> QED BY <3>2, <3>3
  <2>7. (N - 1) + 1 = N
    BY <1>1
  <2> QED BY <2>3, <2>6, <2>7
<1> QED BY <1>1, <1>2, <1>3

(* What the line is to show of the characters of w, the first of which is  *)
(* the one behind place k of the text.                                     *)
Pieces(w, k) ==
    [i \in DOMAIN w |-> IF w[i] = "NL" THEN <<k + i, k + i>> ELSE <<k + i>>]
ShownFrom(w, k) == FlattenSeq(Pieces(w, k))

LEMMA PiecesAre ==
    ASSUME NEW w \in Seq({"c", "NL"}), NEW k \in Nat
    PROVE  /\ Pieces(w, k) \in Seq(Seq(Nat)) /\ Len(Pieces(w, k)) = Len(w)
           /\ Len(w) \in Nat
           /\ \A i \in 1 .. Len(w) :
                  Pieces(w, k)[i] =
                      IF w[i] = "NL" THEN <<k + i, k + i>> ELSE <<k + i>>
           /\ ShownFrom(w, k) \in Seq(Nat) /\ Len(ShownFrom(w, k)) \in Nat
<1> DEFINE h == Pieces(w, k)
<1>1. DOMAIN w = 1 .. Len(w) /\ Len(w) \in Nat
  BY LenProperties
<1>2. \A i \in 1 .. Len(w) : k + i \in Nat
  BY <1>1
<1>3. /\ h \in [1 .. Len(w) -> Seq(Nat)]
      /\ \A i \in 1 .. Len(w) :
             h[i] = IF w[i] = "NL" THEN <<k + i, k + i>> ELSE <<k + i>>
  BY <1>1, <1>2 DEF Pieces
<1> HIDE DEF h
<1>4. h \in Seq(Seq(Nat)) /\ Len(h) = Len(w)
  <2>1. h \in Seq(Seq(Nat))
    BY <1>1, <1>3, SeqDef
  <2>2. DOMAIN h = 1 .. Len(w)
    BY <1>3
  <2>3. Len(h) \in Nat /\ 1 .. Len(h) = 1 .. Len(w)
    BY <2>1, <2>2, LenProperties
  <2> QED BY <1>1, <2>1, <2>3
<1>5. FlattenSeq(h) \in Seq(Nat)
  BY <1>4, FlattenSeqs, Zenon
<1>6. Len(FlattenSeq(h)) \in Nat
  BY <1>5, LenProperties
<1> QED BY <1>1, <1>3, <1>4, <1>5, <1>6 DEF h, ShownFrom

LEMMA ShownGoesOn ==
    ASSUME NEW w \in Seq({"c", "NL"}), NEW x \in Seq({"c", "NL"})
    PROVE  ShownFrom(w \o x, 0) = ShownFrom(w, 0) \o ShownFrom(x, Len(w))
<1> DEFINE n == Len(w)
           m == Len(x)
           u == w \o x
           a == Pieces(w, 0)
           b == Pieces(x, n)
           h == Pieces(u, 0)
<1>1. /\ u \in Seq({"c", "NL"}) /\ Len(u) = n + m /\ n \in Nat /\ m \in Nat
      /\ \A i \in 1 .. n + m : u[i] = IF i <= n THEN w[i] ELSE x[i - n]
  BY ConcatProperties, LenProperties
<1> HIDE DEF u
<1>2. /\ h \in Seq(Seq(Nat)) /\ Len(h) = n + m
      /\ \A i \in 1 .. n + m :
             h[i] = IF u[i] = "NL" THEN <<0 + i, 0 + i>> ELSE <<0 + i>>
  BY <1>1, PiecesAre
<1>3. /\ a \in Seq(Seq(Nat)) /\ Len(a) = n
      /\ \A i \in 1 .. n :
             a[i] = IF w[i] = "NL" THEN <<0 + i, 0 + i>> ELSE <<0 + i>>
  BY PiecesAre
<1>4. /\ b \in Seq(Seq(Nat)) /\ Len(b) = m
      /\ \A i \in 1 .. m :
             b[i] = IF x[i] = "NL" THEN <<n + i, n + i>> ELSE <<n + i>>
  BY <1>1, PiecesAre
<1> HIDE DEF h, a, b
<1>5. ASSUME NEW i \in 1 .. n PROVE h[i] = a[i]
  <2>1. i \in 1 .. n + m /\ i <= n
    BY <1>1
  <2> QED BY <1>1, <1>2, <1>3, <2>1
<1>6. ASSUME NEW i \in 1 .. m PROVE h[n + i] = b[i]
  <2>1. n + i \in 1 .. n + m /\ ~(n + i <= n) /\ (n + i) - n = i /\ 0 + (n + i) = n + i
    BY <1>1
  <2> QED BY <1>1, <1>2, <1>4, <2>1
<1>7. h = a \o b
  <2>1. Len(h) = Len(a) + Len(b)
    BY <1>2, <1>3, <1>4
  <2>2. \A i \in 1 .. Len(a) : h[i] = a[i]
    BY <1>3, <1>5
  <2>3. \A i \in 1 .. Len(b) : h[Len(a) + i] = b[i]
    BY <1>3, <1>4, <1>6
  <2> QED BY <1>2, <1>3, <1>4, <2>1, <2>2, <2>3, ConcatIs
<1>8. FlattenSeq(a \o b) = FlattenSeq(a) \o FlattenSeq(b)
  BY <1>3, <1>4, FlattenConcat
<1> QED BY <1>7, <1>8 DEF ShownFrom, u, a, b, h

LEMMA NamedAlike ==
    ASSUME NEW p \in Users, NEW text \in Seq({"c", "NL"}),
           wrote \in [Users -> Seq({"c", "NL"})]
    PROVE  Alike(Expanded(Named(p, text)), p, ShownFrom(text, Len(wrote[p])))
<1> DEFINE k == Len(wrote[p])
           s == Named(p, text)
           a == Halves(s)
           b == Pieces(text, k)
<1>1. s \in Seq(Chr) /\ Len(s) = Len(text) /\ k \in Nat
  BY NamedText, LenProperties
<1>2. /\ DOMAIN text = 1 .. Len(text)
      /\ \A i \in 1 .. Len(text) : s[i] = Char(p, k + i, text[i])
  BY LenProperties DEF Named
<1> HIDE DEF k, s
<1>3. /\ a \in Seq(Seq(Chr)) /\ Len(a) = Len(text) /\ Expanded(s) = FlattenSeq(a)
      /\ \A i \in 1 .. Len(text) : a[i] = CharExpanded(s[i])
  BY <1>1, HalvesAre
<1>4. /\ b \in Seq(Seq(Nat)) /\ Len(b) = Len(text)
      /\ \A i \in 1 .. Len(text) :
             b[i] = IF text[i] = "NL" THEN <<k + i, k + i>> ELSE <<k + i>>
  BY <1>1, PiecesAre
<1>5. ASSUME NEW i \in 1 .. Len(text) PROVE Alike(a[i], p, b[i])
  <2> DEFINE ch == Char(p, k + i, text[i])
  <2>1. /\ ch \in Chr /\ ch.by = p /\ ch.n = k + i /\ ch.c = text[i] /\ s[i] = ch
    <3>1. s[i] \in Chr
      BY <1>1, ElementOfSeq
    <3>2. s[i] = ch
      BY <1>2
    <3>3. ch.by = p /\ ch.n = k + i /\ ch.c = text[i]
      BY DEF Char
    <3> QED BY <3>1, <3>2, <3>3
  <2> HIDE DEF ch
  <2> DEFINE cr == [ch EXCEPT !.c = "CR"]
  <2>2. cr.by = p /\ cr.n = k + i
    BY <2>1 DEF Chr
  <2> HIDE DEF cr
  <2>3. CASE text[i] = "NL"
    <3>1. a[i] = <<cr, ch>>
      BY <1>3, <2>1, <2>3, CharExpandedIs DEF cr
    <3>2. b[i] = <<k + i, k + i>>
      BY <1>4, <2>3
    <3> QED BY <2>1, <2>2, <3>1, <3>2 DEF Alike
  <2>4. CASE text[i] # "NL"
    <3>1. a[i] = <<ch>>
      BY <1>3, <2>1, <2>4, CharExpandedIs
    <3>2. b[i] = <<k + i>>
      BY <1>4, <2>4
    <3> QED BY <2>1, <3>1, <3>2 DEF Alike
  <2> QED BY <2>3, <2>4
<1> HIDE DEF a, b
<1>6. Alike(FlattenSeq(a), p, FlattenSeq(b))
  BY <1>3, <1>4, <1>5, AlikeFlat
<1> QED BY <1>3, <1>6 DEF ShownFrom, b, k, s
-----------------------------------------------------------------------------
(* Of process p, which has due to put in the ring, the line is to show t,  *)
(* and has shown done; r is in the ring.                                   *)
Order(r, p, due, t, done) ==
    /\ Len(due) <= Len(t)
    /\ Tells(due, p, t, Len(t) - Len(due))
    /\ Follows(r, p, t, Len(done), Len(t) - Len(due))
    /\ Extends(done, t)

(* p asks for more characters (named) to be shown (at x), and puts s, the  *)
(* first of what is due then, in the ring.                                 *)
Putting(p, due, named, x, s, left) ==
    /\ named \in Seq(Chr) /\ x \in Seq(Nat) /\ Alike(named, p, x)
    /\ s \in Seq(Chr) /\ left \in Seq(Chr)
    /\ SameText(due \o named, s \o left)

OnlyBy(s, p) == \A j \in 1 .. Len(s) : s[j].by = p

LEMMA OrderPuts ==
    ASSUME NEW r \in Seq(Chr), NEW p, NEW due \in Seq(Chr), NEW t \in Seq(Nat),
           NEW done \in Seq(Nat), Order(r, p, due, t, done),
           NEW named, NEW x, NEW s, NEW left, Putting(p, due, named, x, s, left)
    PROVE  /\ Order(r \o s, p, left, t \o x, done)
           /\ OnlyBy(s, p)
<1>. /\ named \in Seq(Chr) /\ x \in Seq(Nat) /\ Alike(named, p, x)
     /\ s \in Seq(Chr) /\ left \in Seq(Chr)
     /\ SameText(due \o named, s \o left)
  BY DEF Putting
<1> DEFINE u == t \o x
           e == Len(t) - Len(due)
<1>1. /\ u \in Seq(Nat) /\ Len(u) = Len(t) + Len(x)
      /\ \A i \in 1 .. Len(t) : u[i] = t[i]
      /\ \A i \in 1 .. Len(x) : u[Len(t) + i] = x[i]
      /\ Len(t) \in Nat /\ Len(x) \in Nat
  <2>1. /\ u \in Seq(Nat) /\ Len(u) = Len(t) + Len(x)
        /\ \A i \in 1 .. Len(t) + Len(x) : u[i] = IF i <= Len(t) THEN t[i] ELSE x[i - Len(t)]
        /\ Len(t) \in Nat /\ Len(x) \in Nat
    BY ConcatProperties, LenProperties
  <2> HIDE DEF u
  <2>2. ASSUME NEW i \in 1 .. Len(t) PROVE u[i] = t[i]
    <3>1. i \in 1 .. Len(t) + Len(x) /\ i <= Len(t)
      BY <2>1
    <3> QED BY <2>1, <3>1
  <2>3. ASSUME NEW i \in 1 .. Len(x) PROVE u[Len(t) + i] = x[i]
    <3>1. /\ Len(t) + i \in 1 .. Len(t) + Len(x) /\ ~(Len(t) + i <= Len(t))
          /\ (Len(t) + i) - Len(t) = i
      BY <2>1
    <3> QED BY <2>1, <3>1
  <2> QED BY <2>1, <2>2, <2>3
<1> HIDE DEF u
<1>2. /\ Len(due) \in Nat /\ Len(named) \in Nat /\ Len(s) \in Nat /\ Len(left) \in Nat
      /\ Len(named) = Len(x) /\ Len(due) <= Len(t)
  BY LenProperties DEF Alike, Order
<1>3. Len(due) + Len(named) = Len(s) + Len(left)
  BY ConcatProperties DEF SameText
<1>4. e \in Nat /\ e + Len(due) = Len(t) /\ e + Len(s) = Len(u) - Len(left)
      /\ Len(left) <= Len(u)
  <2>1. \A a, b, c, d, f \in Nat :
            a <= b /\ a + c = d + f
                => b - a \in Nat /\ (b - a) + d = (b + c) - f /\ f <= b + c
    OBVIOUS
  <2>2. /\ e \in Nat /\ e + Len(s) = (Len(t) + Len(x)) - Len(left)
        /\ Len(left) <= Len(t) + Len(x)
    <3>1. Len(due) <= Len(t) /\ Len(due) + Len(x) = Len(s) + Len(left)
      BY <1>2, <1>3
    <3> QED BY <1>1, <1>2, <2>1, <3>1, Zenon
  <2>3. e + Len(due) = Len(t)
    BY <1>1, <1>2
  <2> QED BY <1>1, <2>2, <2>3
<1>5. Extends(t, u) /\ Extends(done, u)
  <2>1. Extends(t, u)
    BY <1>1 DEF Extends
  <2>2. Extends(done, t) /\ Len(done) \in Nat
    BY LenProperties DEF Order
  <2>3. ASSUME NEW i \in 1 .. Len(done) PROVE u[i] = done[i]
    <3>1. i \in 1 .. Len(t) /\ t[i] = done[i]
      BY <1>1, <2>2 DEF Extends
    <3> QED BY <1>1, <3>1
  <2>4. Len(done) <= Len(u)
    BY <1>1, <2>2 DEF Extends
  <2> QED BY <2>1, <2>3, <2>4 DEF Extends
<1>6. Tells(due, p, u, e)
  <2>1. Tells(due, p, t, e)
    BY DEF Order
  <2> HIDE DEF e
  <2> QED BY <1>1, <1>4, <1>5, <2>1, TellsLonger
<1>7. Tells(named, p, u, e + Len(due))
  <2>1. ASSUME NEW j \in 1 .. Len(named)
        PROVE  /\ Len(t) + j \in 1 .. Len(u)
               /\ named[j].by = p /\ named[j].n = u[Len(t) + j]
    BY <1>1, <1>2 DEF Alike
  <2>2. Tells(named, p, u, Len(t))
    BY <2>1 DEF Tells
  <2> QED BY <1>4, <2>2
<1>8. Follows(r, p, u, Len(done), e)
  <2>1. Follows(r, p, t, Len(done), e)
    BY DEF Order
  <2> HIDE DEF e
  <2> QED BY <1>1, <1>5, <2>1, FollowsLonger
<1> HIDE DEF e
<1>9. Tells(due \o named, p, u, e)
  <2>1. e \in Int
    BY <1>4
  <2>2. Tells(due \o named, p, u, e)
            <=> Tells(due, p, u, e) /\ Tells(named, p, u, e + Len(due))
    BY <2>1, TellsParts, Zenon
  <2> QED BY <1>6, <1>7, <2>2
<1>10. Tells(s, p, u, e) /\ Tells(left, p, u, e + Len(s))
  <2>1. Tells(s \o left, p, u, e)
    BY <1>9, TellsSame
  <2>2. e \in Int
    BY <1>4
  <2>3. Tells(s \o left, p, u, e)
            <=> Tells(s, p, u, e) /\ Tells(left, p, u, e + Len(s))
    BY <2>2, TellsParts, Zenon
  <2> QED BY <2>1, <2>3
<1>11. Follows(r \o s, p, u, Len(done), e + Len(s))
  BY <1>4, <1>8, <1>10, FollowsGrows
<1>12. Order(r \o s, p, left, u, done)
  BY <1>4, <1>5, <1>10, <1>11 DEF Order
<1>13. OnlyBy(s, p)
  BY <1>10 DEF Tells, OnlyBy
<1> QED BY <1>12, <1>13 DEF u

LEMMA OrderOthers ==
    ASSUME NEW r \in Seq(Chr), NEW p, NEW due \in Seq(Chr), NEW t \in Seq(Nat), NEW done,
           Order(r, p, due, t, done),
           NEW s \in Seq(Chr), \A j \in 1 .. Len(s) : s[j].by # p
    PROVE  Order(r \o s, p, due, t, done)
<1> DEFINE e == Len(t) - Len(due)
<1>1. e \in Nat /\ Follows(r, p, t, Len(done), e)
  BY LenProperties DEF Order
<1> HIDE DEF e
<1>2. Follows(r \o s, p, t, Len(done), e)
  BY <1>1, FollowsGrows
<1> QED BY <1>2 DEF Order, e

(* The head of the ring goes out on the line.                              *)
LEMMA OrderSends ==
    ASSUME NEW r \in Seq(Chr), NEW p, NEW due, NEW t \in Seq(Nat),
           NEW done \in Seq(Nat), Order(r, p, due, t, done),
           Len(r) > 0, NEW u \in Seq(Chr), Len(u) = Len(r) - 1,
           \A i \in 1 .. Len(u) : u[i] = r[i + 1]
    PROVE  /\ r[1].by # p => Order(u, p, due, t, done)
           /\ r[1].by = p => Order(u, p, due, t, Append(done, r[1].n))
<1> DEFINE e == Len(t) - Len(due)
           d == Len(done)
<1>1. Follows(r, p, t, d, e) /\ d \in Nat
  BY LenProperties DEF Order
<1> HIDE DEF e, d
<1>2. /\ r[1].by # p => Follows(u, p, t, d, e)
      /\ r[1].by = p => /\ d + 1 \in 1 .. Len(t) /\ r[1].n = t[d + 1]
                        /\ Follows(u, p, t, d + 1, e)
  BY <1>1, FollowsHead
<1>3. r[1].by # p => Order(u, p, due, t, done)
  BY <1>2 DEF Order, d, e
<1>4. ASSUME r[1].by = p PROVE Order(u, p, due, t, Append(done, r[1].n))
  <2>1. d + 1 \in 1 .. Len(t) /\ r[1].n = t[d + 1] /\ Follows(u, p, t, d + 1, e)
    BY <1>2, <1>4
  <2> DEFINE new == Append(done, r[1].n)
  <2>2. r[1].n \in Nat
    <3>1. 1 \in 1 .. Len(r)
      BY LenProperties
    <3>2. r[1] \in Chr
      BY <3>1, ElementOfSeq
    <3> QED BY <3>2 DEF Chr
  <2>3. /\ Len(new) = d + 1 /\ new[d + 1] = r[1].n
        /\ \A i \in 1 .. d : new[i] = done[i]
    BY <2>2, AppendProperties DEF d
  <2> HIDE DEF new
  <2>4. Extends(new, t)
    <3>1. Extends(done, t)
      BY DEF Order
    <3>2. ASSUME NEW i \in 1 .. d + 1 PROVE t[i] = new[i]
      <4>1. i \in 1 .. d \/ i = d + 1
        BY <1>1
      <4> QED BY <2>1, <2>3, <3>1, <4>1 DEF Extends, d
    <3>3. d + 1 <= Len(t)
      BY <1>1, <2>1
    <3> QED BY <2>3, <3>2, <3>3 DEF Extends
  <2> QED BY <2>1, <2>3, <2>4 DEF Order, e, new
<1> QED BY <1>3, <1>4
-----------------------------------------------------------------------------
(***************************************************************************)
(* The output ring.                                                        *)
(***************************************************************************)

(* d is the ring b of L places after s has been put in it at h.            *)
PutAt(L, b, h, s, d) ==
    \A i \in 0 .. L - 1 :
        d[i] = IF ((i - h) % L) + 1 <= Len(s) THEN s[((i - h) % L) + 1] ELSE b[i]

(* How far the place of the i-th character is from where s is put.         *)
LEMMA FarFrom ==
    ASSUME NEW L \in Nat \ {0}, NEW t \in Int, NEW n \in Int, NEW i \in Int
    PROVE  (((t + i - 1) % L) - ((t + n) % L)) % L = (i - 1 - n) % L
<1> DEFINE x == t + i - 1
           y == t + n
           z == x % L
<1>1. x \in Int /\ y \in Int /\ x - y = i - 1 - n
  OBVIOUS
<1> HIDE DEF x, y
<1>2. z \in Int
  BY <1>1, ModFacts
<1>3. (z + (-y)) % L = (x + (-y)) % L
  <2> DEFINE v == -y
  <2>1. v \in Int
    BY <1>1
  <2> HIDE DEF v
  <2>2. (z + v) % L = (x + v) % L
    BY <1>1, <2>1, ModShift, Zenon
  <2> QED BY <2>2 DEF v
<1>4. (z - (y % L)) % L = (z - y) % L
  <2> HIDE DEF z
  <2> QED BY <1>1, <1>2, ModMinus
<1>5. z + (-y) = z - y /\ x + (-y) = x - y
  <2> HIDE DEF z
  <2> QED BY <1>1, <1>2
<1>6. (z - (y % L)) % L = (x - y) % L
  BY <1>3, <1>4, <1>5
<1> QED BY <1>1, <1>6 DEF x, y, z

LEMMA WindowPut ==
    ASSUME NEW L, NEW S, NEW b, IsRing(L, S, b), NEW t \in Int,
           NEW n \in Nat, NEW s \in Seq(S), n + Len(s) <= L,
           NEW d, IsRing(L, S, d), PutAt(L, b, (t + n) % L, s, d)
    PROVE  Window(L, d, t, n + Len(s)) = Window(L, b, t, n) \o s
<1>0. PICK m \in Nat : m = Len(s)
  BY LenProperties
<1>. L \in Nat \ {0}
  BY DEF IsRing
<1> DEFINE r == Window(L, b, t, n)
           w == Window(L, d, t, n + m)
<1>1. /\ r \in Seq(S) /\ Len(r) = n
      /\ \A i \in 1 .. n : r[i] = b[(t + i - 1) % L]
  <2>1. IsWindow(r, L, S, b, t, n)
    BY WindowOf, Zenon
  <2> QED BY <2>1 DEF IsWindow
<1>2. /\ w \in Seq(S) /\ Len(w) = n + m
      /\ \A i \in 1 .. n + m : w[i] = d[(t + i - 1) % L]
  <2>1. n + m \in Nat
    OBVIOUS
  <2> DEFINE k == n + m
  <2> HIDE DEF k
  <2>2. k \in Nat
    BY <2>1 DEF k
  <2>3. IsWindow(Window(L, d, t, k), L, S, d, t, k)
    BY <2>2, WindowOf, Zenon
  <2> QED BY <2>3 DEF k, IsWindow
<1> HIDE DEF r, w
<1>3. ASSUME NEW i \in 1 .. n + m
      PROVE  LET x == (t + i - 1) % L
                 k == ((i - 1 - n) % L) + 1
             IN  d[x] = IF k <= m THEN s[k] ELSE b[x]
  <2> DEFINE x == (t + i - 1) % L
  <2>1. x \in 0 .. L - 1
    <3>1. t + i - 1 \in Int
      OBVIOUS
    <3> DEFINE y == t + i - 1
    <3>2. y % L \in 0 .. L - 1
      <4> HIDE DEF y
      <4> QED BY <3>1, ModFacts DEF y
    <3> QED BY <3>2
  <2> DEFINE h == (t + n) % L
  <2>2. (x - h) % L = (i - 1 - n) % L
    <3>1. n \in Int /\ i \in Int
      OBVIOUS
    <3> QED BY <3>1, FarFrom, Zenon
  <2> HIDE DEF x, h
  <2>3. d[x] = IF ((x - h) % L) + 1 <= m THEN s[((x - h) % L) + 1] ELSE b[x]
    BY <1>0, <2>1 DEF PutAt, h
  <2> QED BY <2>2, <2>3 DEF x
<1>4. ASSUME NEW i \in 1 .. n PROVE w[i] = r[i]
  <2>1. i - 1 - n = L * (-1) + (L + i - 1 - n) /\ i - 1 - n \in Int /\ -1 \in Int
        /\ L + i - 1 - n \in 0 .. L - 1
    BY <1>0
  <2> DEFINE a == i - 1 - n
             k == L + i - 1 - n
  <2> HIDE DEF a, k
  <2>2. a % L = k
    <3>1. a = L * (-1) + k /\ a \in Int /\ k \in 0 .. L - 1
      BY <2>1 DEF a, k
    <3> QED BY <2>1, <3>1, ModIs
  <2>3. ~(k + 1 <= m) /\ i \in 1 .. n + m
    BY <1>0 DEF k
  <2>4. d[(t + i - 1) % L] = b[(t + i - 1) % L]
    BY <1>3, <2>2, <2>3 DEF a
  <2> QED BY <1>1, <1>2, <2>3, <2>4
<1>5. ASSUME NEW j \in 1 .. m PROVE w[n + j] = s[j]
  <2> DEFINE i == n + j
  <2>1. i - 1 - n = j - 1 /\ j - 1 \in 0 .. L - 1 /\ i \in 1 .. n + m
    BY <1>0
  <2> DEFINE a == j - 1
  <2> HIDE DEF a
  <2>2. a % L = a
    <3>1. a = L * 0 + a /\ a \in Int /\ a \in 0 .. L - 1 /\ 0 \in Int
      BY <2>1 DEF a
    <3> QED BY <3>1, ModIs
  <2>3. a + 1 = j /\ j <= m
    BY DEF a
  <2> HIDE DEF i
  <2>4. d[(t + i - 1) % L] = s[j]
    BY <1>3, <2>1, <2>2, <2>3 DEF a
  <2>5. w[i] = s[j]
    BY <1>2, <2>1, <2>4
  <2> QED BY <2>5 DEF i
<1>6. w = r \o s
  <2>1. Len(w) = Len(r) + Len(s)
    BY <1>0, <1>1, <1>2
  <2>2. /\ \A i \in 1 .. Len(r) : w[i] = r[i]
        /\ \A i \in 1 .. Len(s) : w[Len(r) + i] = s[i]
    BY <1>0, <1>1, <1>4, <1>5
  <2> QED BY <1>1, <1>2, <2>1, <2>2, ConcatIs
<1> QED BY <1>0, <1>6 DEF r, w

(* The first character is taken.                                           *)
Rest(u, r, S) ==
    /\ u \in Seq(S) /\ Len(u) = Len(r) - 1
    /\ \A i \in 1 .. Len(u) : u[i] = r[i + 1]

LEMMA WindowHead ==
    ASSUME NEW L, NEW S, NEW b, IsRing(L, S, b), NEW t \in Int, NEW m \in Nat
    PROVE  /\ Window(L, b, t, m + 1)[1] = b[t % L]
           /\ Rest(Window(L, b, (t + 1) % L, m), Window(L, b, t, m + 1), S)
<1> DEFINE u == (t + 1) % L
           n == m + 1
           r == Window(L, b, t, n)
           s == Window(L, b, u, m)
<1>1. t + 1 \in Int /\ n \in Nat /\ L \in Nat \ {0}
  BY DEF IsRing
<1>2. u \in Int
  BY <1>1, ModFacts
<1>3. ASSUME NEW i \in 1 .. m
      PROVE  (u + i - 1) % L = (t + (i + 1) - 1) % L
  <2>1. i - 1 \in Int /\ u + i - 1 = u + (i - 1) /\ t + (i + 1) - 1 = (t + 1) + (i - 1)
    BY <1>1, <1>2
  <2>2. (u + (i - 1)) % L = ((t + 1) + (i - 1)) % L
    BY <1>1, <2>1, ModShift
  <2> HIDE DEF u
  <2> QED BY <2>1, <2>2
<1> HIDE DEF u, n
<1>4. /\ r \in Seq(S) /\ Len(r) = n
      /\ \A i \in 1 .. n : r[i] = b[(t + i - 1) % L]
  <2>1. IsWindow(r, L, S, b, t, n)
    BY <1>1, WindowOf, Zenon
  <2> QED BY <2>1 DEF IsWindow
<1>5. /\ s \in Seq(S) /\ Len(s) = m
      /\ \A i \in 1 .. m : s[i] = b[(u + i - 1) % L]
  <2>1. IsWindow(s, L, S, b, u, m)
    BY <1>2, WindowOf, Zenon
  <2> QED BY <2>1 DEF IsWindow
<1> HIDE DEF r, s
<1>6. r[1] = b[t % L]
  <2>1. t + 1 - 1 = t /\ 1 \in 1 .. n
    BY DEF n
  <2>2. r[1] = b[(t + 1 - 1) % L]
    BY <1>4, <2>1
  <2> QED BY <2>1, <2>2
<1>7. ASSUME NEW i \in 1 .. m PROVE s[i] = r[i + 1]
  <2>1. i + 1 \in 1 .. n
    BY DEF n
  <2> QED BY <1>3, <1>4, <1>5, <2>1
<1>8. Rest(s, r, S)
  BY <1>1, <1>4, <1>5, <1>7 DEF Rest, n
<1> QED BY <1>6, <1>8 DEF r, s, u, n
-----------------------------------------------------------------------------
(* The characters in the output ring.                                      *)
OutCount == OBUFLEN - OutUnits - odsend
OutNow == Window(OBUFLEN, obuff, otail, OutCount)

OutRing == IsRing(OBUFLEN, Chr, obuff)

LEMMA OutNowIs ==
    ASSUME ConsoleInv, OutSpans, OutRing
    PROVE  /\ OutCount \in 0 .. OBUFLEN /\ OutCount = InBuffer
           /\ ohead = (otail + OutCount) % OBUFLEN
           /\ otail % OBUFLEN = otail /\ otail \in 0 .. OBUFLEN - 1
           /\ OutNow \in Seq(Chr) /\ Len(OutNow) = OutCount
<1> DEFINE n == OutCount
<1>1. /\ ohead \in 0 .. OBUFLEN - 1 /\ otail \in 0 .. OBUFLEN - 1
      /\ OBUFLEN \in Nat \ {0}
  BY RingPlaces DEF ConsoleInv, OutInv
<1>2. n \in 0 .. OBUFLEN /\ (ohead - otail - n) % OBUFLEN = 0 /\ n = InBuffer
  BY InBufferIs DEF OutSpans, Spans, OutCount
<1> HIDE DEF n
<1>3. ohead = (otail + n) % OBUFLEN
  <2> DEFINE a == ohead - otail - n
             b == otail + n
  <2>1. a \in Int /\ b \in Int /\ a + b = ohead /\ a % OBUFLEN = 0
    BY <1>1, <1>2
  <2> HIDE DEF a, b
  <2>2. (a + b) % OBUFLEN = b % OBUFLEN
    BY <1>1, <2>1, ModZero
  <2>3. ohead % OBUFLEN = ohead
    <3>1. ohead = OBUFLEN * 0 + ohead /\ 0 \in Int /\ ohead \in Int
      BY <1>1
    <3> QED BY <1>1, <3>1, ModIs
  <2> QED BY <2>1, <2>2, <2>3 DEF b
<1>4. otail % OBUFLEN = otail
  <2>1. otail = OBUFLEN * 0 + otail /\ 0 \in Int /\ otail \in Int
    BY <1>1
  <2> QED BY <1>1, <2>1, ModIs
<1>5. Window(OBUFLEN, obuff, otail, n) \in Seq(Chr)
      /\ Len(Window(OBUFLEN, obuff, otail, n)) = n
  <2>1. otail \in Int /\ n \in Nat
    BY <1>1, <1>2
  <2>2. IsWindow(Window(OBUFLEN, obuff, otail, n), OBUFLEN, Chr, obuff, otail, n)
    BY <2>1, WindowOf, Zenon DEF OutRing
  <2> QED BY <2>2 DEF IsWindow
<1> QED BY <1>1, <1>2, <1>3, <1>4, <1>5 DEF n, OutNow

LEMMA OutPuts ==
    ASSUME ConsoleInv, OutSpans, OutRing, OutSpans', StepOK,
           NEW s \in Seq(Chr), Puts(s)
    PROVE  OutRing' /\ OutNow' = OutNow \o s /\ sent' = sent
<1>1. /\ obuff' = [i \in DOMAIN obuff |->
                     LET k == ((i - ohead) % OBUFLEN) + 1
                     IN  IF k <= Len(s) THEN s[k] ELSE obuff[i]]
      /\ otail' = otail /\ odsend' = odsend /\ sent' = sent
      /\ OutUnits' = OutUnits - Len(s)
  BY DEF Puts, Put
<1>2. OBUFLEN \in Nat \ {0} /\ obuff \in [0 .. OBUFLEN - 1 -> Chr]
  BY DEF OutRing, IsRing
<1>3. /\ OutCount \in 0 .. OBUFLEN /\ ohead = (otail + OutCount) % OBUFLEN
      /\ otail \in 0 .. OBUFLEN - 1
  BY OutNowIs
<1>4. Len(s) \in Nat /\ ohead \in 0 .. OBUFLEN - 1
  BY LenProperties DEF ConsoleInv, OutInv
<1>5. obuff' \in [0 .. OBUFLEN - 1 -> Chr]
  <2>1. ASSUME NEW i \in 0 .. OBUFLEN - 1, ((i - ohead) % OBUFLEN) + 1 <= Len(s)
        PROVE  s[((i - ohead) % OBUFLEN) + 1] \in Chr
    <3> DEFINE x == (i - ohead) % OBUFLEN
    <3>1. i - ohead \in Int
      BY <1>4
    <3>2. x \in 0 .. OBUFLEN - 1
      <4> DEFINE a == i - ohead
      <4> HIDE DEF a
      <4>1. a % OBUFLEN \in 0 .. OBUFLEN - 1
        BY <3>1, RingPlaces DEF a
      <4> QED BY <4>1 DEF a
    <3> HIDE DEF x
    <3>3. x + 1 \in 1 .. Len(s)
      BY <1>4, <2>1, <3>2 DEF x
    <3> QED BY <3>3, ElementOfSeq DEF x
  <2> QED BY <1>1, <1>2, <2>1
<1>6. PutAt(OBUFLEN, obuff, ohead, s, obuff')
  BY <1>1, <1>2 DEF PutAt
<1>7. OutRing'
  BY <1>2, <1>5 DEF OutRing, IsRing
<1>8. OutCount' = OutCount + Len(s) /\ OutCount + Len(s) <= OBUFLEN
  <2>1. OutUnits \in Nat /\ odsend \in Nat
    BY Counts DEF CountsOK
  <2>2. OutCount' = OutCount + Len(s)
    BY <1>1, <1>2, <1>4, <2>1 DEF OutCount
  <2>3. OutCount' \in 0 .. OBUFLEN
    BY DEF OutSpans, Spans, OutCount
  <2> QED BY <2>2, <2>3
<1>9. Window(OBUFLEN, obuff', otail, OutCount + Len(s))
          = Window(OBUFLEN, obuff, otail, OutCount) \o s
  <2>1. IsRing(OBUFLEN, Chr, obuff) /\ IsRing(OBUFLEN, Chr, obuff')
    BY <1>7 DEF OutRing
  <2>2. otail \in Int /\ OutCount \in Nat
    BY <1>3
  <2> DEFINE d == obuff'
             n == OutCount
  <2> HIDE DEF d, n
  <2>3. Window(OBUFLEN, d, otail, n + Len(s)) = Window(OBUFLEN, obuff, otail, n) \o s
    <3>1. /\ IsRing(OBUFLEN, Chr, d)
          /\ PutAt(OBUFLEN, obuff, (otail + n) % OBUFLEN, s, d)
          /\ n + Len(s) <= OBUFLEN /\ n \in Nat
      BY <1>3, <1>6, <1>8, <2>1, <2>2 DEF d, n
    <3> QED BY <2>1, <2>2, <3>1, WindowPut
  <2> QED BY <2>3 DEF d, n
<1>10. OutNow' = Window(OBUFLEN, obuff', otail', OutCount')
  BY DEF OutNow
<1> QED BY <1>1, <1>7, <1>8, <1>9, <1>10 DEF OutNow

LEMMA OutSends ==
    ASSUME Prompt = TRUE, ConsoleInv, OutSpans, OutRing, StepOK, Sends
    PROVE  /\ OutRing' /\ Len(OutNow) > 0 /\ OutNow[1] \in Chr
           /\ Rest(OutNow', OutNow, Chr)
           /\ sent' = [sent EXCEPT ![OutNow[1].by] = Append(@, OutNow[1].n)]
<1>1. /\ otail' = (otail + 1) % OBUFLEN /\ obuff' = obuff
      /\ sent' = [sent EXCEPT ![obuff[otail].by] = Append(@, obuff[otail].n)]
      /\ OutUnits' + odsend' = OutUnits + odsend + 1
      /\ InBuffer > 0
  BY DEF Sends, SendOne
<1>2. /\ OutCount \in 0 .. OBUFLEN /\ OutCount > 0 /\ OBUFLEN \in Nat \ {0}
      /\ otail % OBUFLEN = otail /\ otail \in 0 .. OBUFLEN - 1
      /\ OutNow \in Seq(Chr) /\ Len(OutNow) = OutCount
  BY <1>1, OutNowIs, RingPlaces
<1>3. OutCount' = OutCount - 1
  <2>1. OutUnits \in Nat /\ odsend \in Nat
    BY Counts DEF CountsOK
  <2>2. PICK c \in Nat, d \in Nat : c = OutUnits' /\ d = odsend'
    BY CountsNext DEF StepOK, CountsOK
  <2>3. c + d = OutUnits + odsend + 1
    BY <1>1, <2>2, Zenon
  <2>4. OBUFLEN - c - d = (OBUFLEN - OutUnits - odsend) - 1
    BY <1>2, <2>1, <2>3
  <2>5. OutCount' = OBUFLEN - OutUnits' - odsend'
    BY DEF OutCount
  <2> QED BY <2>2, <2>4, <2>5 DEF OutCount
<1> DEFINE m == OutCount - 1
           b == obuff
<1>4. m \in Nat /\ OutCount = m + 1 /\ otail \in Int
  BY <1>2
<1> HIDE DEF m, b
<1>5. /\ Window(OBUFLEN, b, otail, m + 1)[1] = b[otail % OBUFLEN]
      /\ Rest(Window(OBUFLEN, b, (otail + 1) % OBUFLEN, m),
              Window(OBUFLEN, b, otail, m + 1), Chr)
  <2>1. IsRing(OBUFLEN, Chr, b)
    BY DEF OutRing, b
  <2> QED BY <1>4, <2>1, WindowHead, Zenon
<1>6. OutNow = Window(OBUFLEN, b, otail, m + 1)
  BY <1>4 DEF OutNow, b
<1>7. OutNow' = Window(OBUFLEN, b, (otail + 1) % OBUFLEN, m)
  <2>1. OutNow' = Window(OBUFLEN, obuff', otail', OutCount')
    BY DEF OutNow
  <2> QED BY <1>1, <1>3, <2>1 DEF b, m
<1>8. OutNow[1] = obuff[otail] /\ OutNow[1] \in Chr
  <2>1. 1 \in 1 .. Len(OutNow)
    BY <1>2
  <2>2. OutNow[1] \in Chr
    BY <1>2, <2>1, ElementOfSeq
  <2>3. OutNow[1] = b[otail]
    BY <1>2, <1>5, <1>6
  <2> QED BY <2>2, <2>3 DEF b
<1>9. Rest(OutNow', OutNow, Chr)
  BY <1>5, <1>6, <1>7
<1>10. OutRing'
  BY <1>1 DEF OutRing
<1> QED BY <1>1, <1>2, <1>8, <1>9, <1>10
-----------------------------------------------------------------------------
(***************************************************************************)
(* All the texts.                                                          *)
(***************************************************************************)

(* The ring holds r, the processes are at places, have asked for texts to  *)
(* be written, and the line has shown done.                                *)
TextsFollow(r, places, texts, done) ==
    /\ r \in Seq(Chr) /\ \A i \in 1 .. Len(r) : r[i].by \in Users
    /\ done \in [Users \cup {Nobody} -> Seq(Nat)] /\ done[Nobody] = <<>>
    /\ \A p \in Users :
           Order(r, p, ToPut(places[p]), ShownFrom(texts[p], 0), done[p])

TextInv == OutRing /\ TextsFollow(OutNow, pc, wrote, sent)

LEMMA ToPutText ==
    ASSUME NEW r \in Place
    PROVE  ToPut(r) \in Seq(Chr)
<1>1. r.left \in Seq(Chr) /\ <<>> \in Seq(Chr)
  BY DEF Place
<1>2. Expanded(r.left) \in Seq(Chr)
  BY <1>1, ExpandedText
<1> QED BY <1>1, <1>2 DEF ToPut

LEMMA OrderedWorks ==
    ASSUME ConsoleInv, ConsoleInv', WithinText, NEW r, TextsFollow(r, pc, wrote, sent),
           NEW p \in Users, NEW text \in Seq({"c", "NL"}), NEW s \in Seq(Chr),
           Works(p, text, s)
    PROVE  TextsFollow(r \o s, pc', wrote', sent)
<1>1. /\ r \in Seq(Chr) /\ \A i \in 1 .. Len(r) : r[i].by \in Users
      /\ sent \in [Users \cup {Nobody} -> Seq(Nat)] /\ sent[Nobody] = <<>>
      /\ \A q \in Users :
             Order(r, q, ToPut(pc[q]), ShownFrom(wrote[q], 0), sent[q])
  BY DEF TextsFollow
<1>2. /\ pc \in [Users -> Place] /\ pc' \in [Users -> Place]
      /\ wrote \in [Users -> Seq({"c", "NL"})]
  BY DEF ConsoleInv, PlacesInv
<1>3. /\ wrote' = [wrote EXCEPT ![p] = wrote[p] \o text]
      /\ \A q \in Users \ {p} : pc'[q] = pc[q]
      /\ SameText(ToPut(pc[p]) \o Expanded(Named(p, text)), s \o ToPut(pc'[p]))
  BY DEF Works, Due
<1>4. \A q \in Users : /\ ToPut(pc[q]) \in Seq(Chr) /\ sent[q] \in Seq(Nat)
                       /\ ShownFrom(wrote[q], 0) \in Seq(Nat)
                       /\ wrote[q] \in Seq({"c", "NL"})
  <2> SUFFICES ASSUME NEW q \in Users
               PROVE  /\ ToPut(pc[q]) \in Seq(Chr) /\ sent[q] \in Seq(Nat)
                      /\ ShownFrom(wrote[q], 0) \in Seq(Nat)
                      /\ wrote[q] \in Seq({"c", "NL"})
    OBVIOUS
  <2>1. pc[q] \in Place /\ sent[q] \in Seq(Nat) /\ wrote[q] \in Seq({"c", "NL"})
    BY <1>1, <1>2
  <2> QED BY <2>1, ToPutText, PiecesAre
<1>5. /\ Order(r \o s, p, ToPut(pc'[p]), ShownFrom(wrote'[p], 0), sent[p])
      /\ \A j \in 1 .. Len(s) : s[j].by = p
  <2> DEFINE named == Expanded(Named(p, text))
             x == ShownFrom(text, Len(wrote[p]))
             due == ToPut(pc[p])
             left == ToPut(pc'[p])
             t == ShownFrom(wrote[p], 0)
             done == sent[p]
  <2>1. named \in Seq(Chr) /\ Alike(named, p, x)
    BY <1>2, NamedText, ExpandedText, NamedAlike
  <2>2. x \in Seq(Nat) /\ ShownFrom(wrote[p] \o text, 0) = t \o x
    <3>1. wrote[p] \in Seq({"c", "NL"}) /\ Len(wrote[p]) \in Nat
      BY <1>4, LenProperties
    <3> QED BY <3>1, PiecesAre, ShownGoesOn
  <2>3. left \in Seq(Chr) /\ due \in Seq(Chr) /\ t \in Seq(Nat) /\ done \in Seq(Nat)
    <3>1. pc'[p] \in Place
      BY <1>2
    <3> QED BY <1>4, <3>1, ToPutText
  <2>4. Order(r, p, due, t, done) /\ SameText(due \o named, s \o left)
    BY <1>1, <1>3
  <2>5. wrote'[p] = wrote[p] \o text
    BY <1>2, <1>3
  <2> HIDE DEF named, x, due, left, t, done
  <2>6. /\ Order(r \o s, p, left, t \o x, done)
        /\ \A j \in 1 .. Len(s) : s[j].by = p
    <3>1. Putting(p, due, named, x, s, left)
      BY <2>1, <2>2, <2>3, <2>4 DEF Putting
    <3>2. r \in Seq(Chr) /\ Order(r, p, due, t, done)
      BY <1>1, <2>4
    <3>3. Order(r \o s, p, left, t \o x, done)
      BY <2>3, <3>1, <3>2, OrderPuts, Zenon
    <3>4. OnlyBy(s, p)
      BY <2>3, <3>1, <3>2, OrderPuts, Zenon
    <3> QED BY <3>3, <3>4 DEF OnlyBy
  <2> QED BY <2>2, <2>5, <2>6 DEF left, done
<1>6. ASSUME NEW q \in Users, q # p
      PROVE  Order(r \o s, q, ToPut(pc'[q]), ShownFrom(wrote'[q], 0), sent[q])
  <2>1. pc'[q] = pc[q] /\ wrote'[q] = wrote[q]
    BY <1>2, <1>3, <1>6
  <2>2. \A j \in 1 .. Len(s) : s[j].by # q
    BY <1>5, <1>6
  <2> DEFINE due == ToPut(pc[q])
             t == ShownFrom(wrote[q], 0)
             done == sent[q]
  <2>3. due \in Seq(Chr) /\ t \in Seq(Nat) /\ Order(r, q, due, t, done)
    BY <1>1, <1>4
  <2> HIDE DEF due, t, done
  <2>4. Order(r \o s, q, due, t, done)
    BY <1>1, <2>2, <2>3, OrderOthers
  <2> QED BY <2>1, <2>4 DEF due, t, done
<1>7. r \o s \in Seq(Chr) /\ \A i \in 1 .. Len(r \o s) : (r \o s)[i].by \in Users
  <2> DEFINE w == r \o s
  <2>1. /\ w \in Seq(Chr) /\ Len(w) = Len(r) + Len(s)
        /\ \A i \in 1 .. Len(r) + Len(s) : w[i] = IF i <= Len(r) THEN r[i] ELSE s[i - Len(r)]
        /\ Len(r) \in Nat /\ Len(s) \in Nat
    BY <1>1, ConcatProperties, LenProperties
  <2> HIDE DEF w
  <2>2. ASSUME NEW i \in 1 .. Len(w) PROVE w[i].by \in Users
    <3>1. CASE i <= Len(r)
      <4>1. i \in 1 .. Len(r)
        BY <2>1, <3>1
      <4> QED BY <1>1, <2>1, <3>1, <4>1
    <3>2. CASE ~(i <= Len(r))
      <4>1. i - Len(r) \in 1 .. Len(s)
        BY <2>1, <3>2
      <4> QED BY <1>5, <2>1, <3>2, <4>1
    <3> QED BY <3>1, <3>2
  <2> QED BY <2>1, <2>2 DEF w
<1>8. \A q \in Users :
          Order(r \o s, q, ToPut(pc'[q]), ShownFrom(wrote'[q], 0), sent[q])
  BY <1>5, <1>6
<1> QED BY <1>1, <1>7, <1>8 DEF TextsFollow

LEMMA OrderedSends ==
    ASSUME ConsoleInv, NEW r, TextsFollow(r, pc, wrote, sent), Len(r) > 0,
           NEW u, Rest(u, r, Chr), NEW done,
           done = [sent EXCEPT ![r[1].by] = Append(@, r[1].n)]
    PROVE  TextsFollow(u, pc, wrote, done)
<1>1. /\ r \in Seq(Chr) /\ \A i \in 1 .. Len(r) : r[i].by \in Users
      /\ sent \in [Users \cup {Nobody} -> Seq(Nat)] /\ sent[Nobody] = <<>>
      /\ \A q \in Users :
             Order(r, q, ToPut(pc[q]), ShownFrom(wrote[q], 0), sent[q])
  BY DEF TextsFollow
<1>2. /\ u \in Seq(Chr) /\ Len(u) = Len(r) - 1
      /\ \A i \in 1 .. Len(u) : u[i] = r[i + 1]
  BY DEF Rest
<1>3. Len(r) \in Nat /\ 1 \in 1 .. Len(r)
  BY <1>1, LenProperties
<1> DEFINE p == r[1].by
           n == r[1].n
<1>4. p \in Users /\ p # Nobody /\ n \in Nat
  <2>1. r[1] \in Chr
    BY <1>1, <1>3, ElementOfSeq
  <2> QED BY <1>1, <1>3, <2>1, TtyAssumption DEF Chr, Nobody
<1> HIDE DEF p, n
<1>5. done = [sent EXCEPT ![p] = Append(sent[p], n)]
  BY DEF p, n
<1>6. /\ done \in [Users \cup {Nobody} -> Seq(Nat)] /\ done[Nobody] = <<>>
      /\ done[p] = Append(sent[p], n) /\ \A q \in Users \ {p} : done[q] = sent[q]
  <2> DEFINE a == Append(sent[p], n)
  <2>1. a \in Seq(Nat)
    <3>1. sent[p] \in Seq(Nat)
      BY <1>1, <1>4
    <3> QED BY <1>4, <3>1, AppendProperties
  <2>2. done = [sent EXCEPT ![p] = a]
    BY <1>5
  <2> HIDE DEF a
  <2>3. /\ done \in [Users \cup {Nobody} -> Seq(Nat)] /\ done[p] = a
        /\ \A q \in (Users \cup {Nobody}) \ {p} : done[q] = sent[q]
    <3> DEFINE D == Users \cup {Nobody}
    <3>1. sent \in [D -> Seq(Nat)] /\ p \in D
      BY <1>1, <1>4
    <3> HIDE DEF D
    <3>2. /\ done \in [D -> Seq(Nat)] /\ done[p] = a
          /\ \A q \in D \ {p} : done[q] = sent[q]
      BY <2>1, <2>2, <3>1
    <3> QED BY <3>2 DEF D
  <2> QED BY <1>1, <1>4, <2>3 DEF a
<1>7. \A i \in 1 .. Len(u) : u[i].by \in Users
  <2>1. \A i \in 1 .. Len(u) : i + 1 \in 1 .. Len(r)
    BY <1>2, <1>3
  <2> QED BY <1>1, <1>2, <2>1
<1>8. ASSUME NEW q \in Users
      PROVE  Order(u, q, ToPut(pc[q]), ShownFrom(wrote[q], 0), done[q])
  <2> DEFINE due == ToPut(pc[q])
             t == ShownFrom(wrote[q], 0)
             old == sent[q]
  <2>1. t \in Seq(Nat) /\ old \in Seq(Nat) /\ Order(r, q, due, t, old)
    <3>1. wrote[q] \in Seq({"c", "NL"})
      BY DEF ConsoleInv, PlacesInv
    <3> QED BY <1>1, <3>1, PiecesAre
  <2> HIDE DEF due, t, old
  <2>2. /\ r[1].by # q => Order(u, q, due, t, old)
        /\ r[1].by = q => Order(u, q, due, t, Append(old, r[1].n))
    BY <1>1, <1>2, <2>1, OrderSends
  <2>3. CASE q = p
    <3>1. Order(u, q, due, t, Append(old, n))
      BY <2>2, <2>3 DEF p, n
    <3> QED BY <1>6, <2>3, <3>1 DEF due, t, old
  <2>4. CASE q # p
    <3>1. Order(u, q, due, t, old)
      BY <2>2, <2>4 DEF p
    <3> QED BY <1>6, <2>4, <3>1 DEF due, t, old
  <2> QED BY <2>3, <2>4
<1> QED BY <1>2, <1>6, <1>7, <1>8 DEF TextsFollow

LEMMA TextKept ==
    ASSUME Prompt = TRUE, ConsoleInv, OutSpans, TextInv, WithinText, StepOK
    PROVE  TextInv'
<1>1. OutRing /\ TextsFollow(OutNow, pc, wrote, sent) /\ ConsoleInv' /\ OutSpans'
  BY OutSpansKept DEF TextInv, StepOK
<1>2. OutStill => OutRing' /\ OutNow' = OutNow /\ sent' = sent
  <2>1. OutStill => OutCount' = OutCount /\ obuff' = obuff /\ otail' = otail
    BY DEF OutStill, OutCount
  <2> QED BY <1>1, <2>1 DEF OutStill, OutRing, OutNow
<1>3. CASE OutStill /\ UNCHANGED <<pc, wrote>>
  BY <1>1, <1>2, <1>3 DEF TextInv
<1>4. CASE Sends /\ UNCHANGED <<pc, wrote>>
  <2>1. /\ OutRing' /\ Len(OutNow) > 0 /\ Rest(OutNow', OutNow, Chr)
        /\ sent' = [sent EXCEPT ![OutNow[1].by] = Append(@, OutNow[1].n)]
    BY <1>1, <1>4, OutSends
  <2>2. TextsFollow(OutNow', pc, wrote, sent')
    BY <1>1, <2>1, OrderedSends
  <2> QED BY <1>4, <2>1, <2>2 DEF TextInv
<1>5. ASSUME NEW p \in Users, NEW text \in Seq({"c", "NL"}), NEW s \in Seq(Chr),
             Works(p, text, s), (s = <<>> /\ OutStill) \/ Puts(s)
      PROVE  TextInv'
  <2>1. TextsFollow(OutNow \o s, pc', wrote', sent)
    BY <1>1, <1>5, OrderedWorks
  <2>2. OutRing' /\ OutNow' = OutNow \o s /\ sent' = sent
    <3>1. CASE Puts(s)
      BY <1>1, <3>1, OutPuts
    <3>2. CASE s = <<>> /\ OutStill
      <4>1. OutNow \o s = OutNow
        BY <1>1, <3>2, ConcatEmptySeq DEF TextsFollow
      <4> QED BY <1>2, <3>2, <4>1
    <3> QED BY <1>5, <3>1, <3>2
  <2> QED BY <2>1, <2>2 DEF TextInv
<1> QED BY <1>3, <1>4, <1>5 DEF StepOK, OutMove

LEMMA ShownNothing == ShownFrom(<<>>, 0) = <<>>
<1> DEFINE w == <<>>
<1>1. w \in Seq({"c", "NL"}) /\ Len(w) = 0 /\ 0 \in Nat
  BY EmptySeq
<1> HIDE DEF w
<1>2. Pieces(w, 0) \in Seq(Seq(Nat)) /\ Len(Pieces(w, 0)) = 0
  BY <1>1, PiecesAre
<1>3. FlattenSeq(Pieces(w, 0)) = <<>>
  BY <1>2, FlattenSeqs
<1> QED BY <1>3 DEF ShownFrom, w

LEMMA OrderNothing ==
    ASSUME NEW p, NEW none, none = <<>>
    PROVE  Order(none, p, none, none, none)
<1>1. Len(none) = 0 /\ 0 \in Nat
  BY EmptySeq
<1>2. Follows(none, p, none, 0, 0)
  BY <1>1, FollowsNothing
<1>3. Tells(none, p, none, 0) /\ Extends(none, none)
  BY <1>1 DEF Tells, Extends
<1> QED BY <1>1, <1>2, <1>3 DEF Order

LEMMA InitText ==
    ASSUME Init
    PROVE  ConsoleInv /\ OutSpans /\ TextInv
<1>1. /\ ConsoleInv /\ OutUnits = OBUFLEN /\ ohead = 0 /\ otail = 0 /\ odsend = 0
  BY InitConsole
<1>2. OBUFLEN \in Nat \ {0}
  BY RingPlaces
<1>3. OutCount = 0
  BY <1>1, <1>2 DEF OutCount
<1>4. OutSpans
  <2>1. OBUFLEN - OBUFLEN - 0 = 0 /\ 0 - 0 - 0 = 0 /\ 0 % OBUFLEN = 0
        /\ 0 \in 0 .. OBUFLEN
    BY <1>2
  <2> QED BY <1>1, <2>1 DEF OutSpans, Spans
<1>5. /\ obuff = [i \in 0 .. OBUFLEN - 1 |-> Char(Nobody, 0, "c")]
      /\ pc = [p \in Users |-> [op |-> "idle", left |-> <<>>, n |-> 0]]
      /\ wrote = [p \in Users |-> <<>>]
      /\ sent = [p \in Users \cup {Nobody} |-> <<>>]
  BY DEF Init, TtyInit, ttyinit
<1>6. OutRing
  <2>1. Char(Nobody, 0, "c") \in Chr
    BY DEF Char, Chr
  <2> QED BY <1>2, <1>5, <2>1 DEF OutRing, IsRing
<1>7. OutNow = <<>>
  <2>1. OutNow \in Seq(Chr) /\ Len(OutNow) = 0
    BY <1>1, <1>3, <1>4, <1>6, OutNowIs
  <2> QED BY <2>1, EmptySeq
<1>8. ASSUME NEW p \in Users
      PROVE  Order(OutNow, p, ToPut(pc[p]), ShownFrom(wrote[p], 0), sent[p])
  <2>1. /\ pc[p].op = "idle" /\ wrote[p] = <<>> /\ sent[p] = <<>>
    BY <1>5
  <2>2. ToPut(pc[p]) = <<>> /\ ShownFrom(wrote[p], 0) = <<>>
    BY <2>1, ShownNothing DEF ToPut
  <2> QED BY <1>7, <2>1, <2>2, OrderNothing
<1>9. /\ sent \in [Users \cup {Nobody} -> Seq(Nat)] /\ sent[Nobody] = <<>>
      /\ OutNow \in Seq(Chr) /\ \A i \in 1 .. Len(OutNow) : OutNow[i].by \in Users
  <2>1. <<>> \in Seq(Nat) /\ <<>> \in Seq(Chr) /\ Len(<<>>) = 0
    BY EmptySeq
  <2> QED BY <1>5, <1>7, <2>1
<1> QED BY <1>1, <1>4, <1>6, <1>8, <1>9 DEF TextInv, TextsFollow

LEMMA PrefixIs ==
    ASSUME NEW S, NEW s \in Seq(S), NEW t \in Seq(S), Extends(s, t)
    PROVE  IsPrefix(s, t)
<1> DEFINE n == Len(s)
           a == SubSeq(s, 1, n)
           b == SubSeq(t, 1, n)
<1>1. n \in Nat /\ Len(t) \in Nat /\ n <= Len(t) /\ \A i \in 1 .. n : t[i] = s[i]
  BY LenProperties DEF Extends
<1>2. /\ \A i \in 1 .. n : s[i] \in S
      /\ \A i \in 1 .. n : t[i] \in S
  BY <1>1, ElementOfSeq
<1>3. a \in Seq(S) /\ Len(a) = n /\ \A i \in 1 .. n : a[i] = s[i]
  BY <1>1, <1>2, SubSeqProperties
<1>4. b \in Seq(S) /\ Len(b) = n /\ \A i \in 1 .. n : b[i] = t[i]
  BY <1>1, <1>2, SubSeqProperties
<1> HIDE DEF a, b
<1>5. a = b
  BY <1>1, <1>3, <1>4, SeqEqual
<1> QED BY <1>1, <1>5 DEF IsPrefix, a, b

LEMMA TextOrdered ==
    ASSUME ConsoleInv, TextInv
    PROVE  TextInOrder
<1>1. /\ sent \in [Users \cup {Nobody} -> Seq(Nat)] /\ sent[Nobody] = <<>>
      /\ \A p \in Users :
             Order(OutNow, p, ToPut(pc[p]), ShownFrom(wrote[p], 0), sent[p])
  BY DEF TextInv, TextsFollow
<1>2. ASSUME NEW p \in Users PROVE IsPrefix(sent[p], Shown(p))
  <2> DEFINE w == wrote[p]
             h == [i \in DOMAIN w |-> IF w[i] = "NL" THEN <<i, i>> ELSE <<i>>]
  <2>1. w \in Seq({"c", "NL"}) /\ DOMAIN w = 1 .. Len(w)
    <3>1. w \in Seq({"c", "NL"})
      BY DEF ConsoleInv, PlacesInv
    <3> QED BY <3>1, LenProperties
  <2>2. Pieces(w, 0) = h
    <3>1. \A i \in DOMAIN w : 0 + i = i
      BY <2>1
    <3> QED BY <3>1 DEF Pieces
  <2>3. Shown(p) = ShownFrom(w, 0)
    BY <2>2 DEF Shown, ShownFrom
  <2>4. ShownFrom(w, 0) \in Seq(Nat) /\ sent[p] \in Seq(Nat)
    BY <1>1, <2>1, PiecesAre
  <2>5. Extends(sent[p], ShownFrom(w, 0))
    BY <1>1 DEF Order
  <2> QED BY <2>3, <2>4, <2>5, PrefixIs
<1> QED BY <1>1, <1>2 DEF TextInOrder

(* The line shows each process's text from its start, in order, with both  *)
(* halves of every newline, and nothing that nobody wrote, for any writers,*)
(* texts and sizes of the ring, wherever wait, sreset and the transmitter  *)
(* hold the writers up (ttywrite.c, ttyputc.c, ttyoin.c).  It is so as     *)
(* long as ttywrite never asks writcopy for more than the text has left    *)
(* (WithinText).  Prompt is as in OutputAlwaysAccounted.                   *)
THEOREM TextStaysInOrder ==
    ASSUME Prompt = TRUE
    PROVE  Spec /\ []WithinText => []TextInOrder
<1>1. Init => ConsoleInv /\ OutSpans /\ TextInv
  BY InitText
<1>2. ConsoleInv /\ OutSpans /\ TextInv /\ WithinText /\ [Next]_vars
          => ConsoleInv' /\ OutSpans' /\ TextInv'
  BY NextStep, OutSpansKept, TextKept DEF StepOK
<1>3. ConsoleInv /\ TextInv => TextInOrder
  BY TextOrdered
<1> QED BY <1>1, <1>2, <1>3, PTL DEF Spec
-----------------------------------------------------------------------------
(***************************************************************************)
(* Texts that do not end in a newline.                                     *)
(***************************************************************************)

PlainText(s) == s = <<>> \/ s[Len(s)].c # "NL"
EndsOK(op, left) == op # "none" /\ (op = "loop" => PlainText(left))
EndsInv == \A p \in Users : EndsOK(pc[p].op, pc[p].left)

LEMMA EndsGoto ==
    ASSUME ConsoleInv, EndsInv, NEW p \in Users, NEW op, NEW left, NEW n,
           Goto(p, op, left, n), EndsOK(op, left)
    PROVE  EndsInv'
<1>1. pc \in [Users -> Place]
  BY DEF ConsoleInv, PlacesInv
<1>2. /\ pc'[p].op = op /\ pc'[p].left = left
      /\ \A q \in Users \ {p} : pc'[q] = pc[q]
  BY <1>1 DEF Goto
<1> QED BY <1>2 DEF EndsInv

LEMMA EndsElsewhere ==
    ASSUME ConsoleInv, EndsInv, NEW p \in Users, NEW op, NEW left, NEW n,
           Goto(p, op, left, n), op \notin {"none", "loop"}
    PROVE  EndsInv'
BY EndsGoto DEF EndsOK

LEMMA EndsReturn ==
    ASSUME ConsoleInv, EndsInv, NEW p \in Users, Return(p)
    PROVE  EndsInv'
BY EndsElsewhere DEF Return

LEMMA EndsPutRest ==
    ASSUME ConsoleInv, EndsInv, NEW p \in Users, NEW s, NEW held, NEW started,
           PutRest(p, s, held, started)
    PROVE  EndsInv'
BY EndsReturn, EndsElsewhere DEF PutRest

LEMMA EndsWriteRest ==
    ASSUME ConsoleInv, EndsInv, NEW p \in Users, NEW left, NEW started,
           WriteRest(p, left, started)
    PROVE  EndsInv'
<1>1. CASE Writcopy(p, left, osem.cnt, "rest")
  <2>1. \E op, new : op = "rest" /\ Goto(p, op, new, 0)
    BY <1>1 DEF Writcopy
  <2> QED BY <2>1, EndsElsewhere
<1>2. CASE PutRest(p, Expanded(left), 0, started)
  BY <1>2, EndsPutRest
<1> QED BY <1>1, <1>2 DEF WriteRest

(* The first character fits when there is room for the whole text.         *)
LEMMA FirstFits ==
    ASSUME NEW left \in Seq(Chr), left # <<>>, PlainText(left),
           osem.cnt \in Nat, osem.cnt >= Len(left)
    PROVE  1 \in Fitting(left)
<1> DEFINE one == SubSeq(left, 1, 1)
<1>1. Len(left) \in Nat /\ Len(left) > 0
  BY LenProperties, EmptySeq
<1>2. left[1] \in Chr /\ 1 \in 1 .. Len(left)
  BY <1>1, ElementOfSeq
<1>3. one \in Seq(Chr) /\ Len(one) = 1 /\ one[1] = left[1]
  <2>1. \A i \in 1 .. 1 : left[i] \in Chr
    BY <1>2
  <2> QED BY <2>1, SubSeqProperties
<1> HIDE DEF one
<1> DEFINE e == Expanded(one)
<1>4. e = CharExpanded(left[1])
  BY <1>3, ExpandedText
<1> HIDE DEF e
<1>5. CASE left[1].c = "NL"
  <2>1. Len(left) # 1
    BY <1>1, <1>5 DEF PlainText
  <2>2. e = <<[left[1] EXCEPT !.c = "CR"], left[1]>>
    BY <1>2, <1>4, <1>5, CharExpandedIs
  <2>3. Len(e) = 2
    BY <2>2
  <2>4. Len(e) <= osem.cnt
    <3>1. Len(left) >= 2
      <4>1. PICK n \in Nat : n = Len(left)
        BY <1>1
      <4>2. n > 0 /\ n # 1
        BY <1>1, <2>1, <4>1, Zenon
      <4>3. n >= 2
        BY <4>2
      <4> QED BY <4>1, <4>3, Zenon
    <3>2. \A a, b, c \in Int : a = 2 /\ b >= 2 /\ c >= b => a <= c
      OBVIOUS
    <3> QED BY <1>1, <2>3, <3>1, <3>2
  <2> QED BY <1>1, <2>4 DEF Fitting, one, e
<1>6. CASE left[1].c # "NL"
  <2>1. e = <<left[1]>>
    BY <1>2, <1>4, <1>6, CharExpandedIs
  <2>2. Len(e) = 1
    BY <2>1
  <2>3. Len(e) <= osem.cnt
    BY <1>1, <2>2
  <2> QED BY <1>1, <2>3 DEF Fitting, one, e
<1> QED BY <1>5, <1>6

LEMMA EndsWritcopy ==
    ASSUME ConsoleInv, EndsInv, NEW p \in Users, NEW left \in Seq(Chr),
           left # <<>>, PlainText(left), osem.cnt \in Nat, osem.cnt >= Len(left),
           Writcopy(p, left, Len(left), "loop")
    PROVE  EndsInv'
<1> DEFINE count    == Len(left)
           user     == UserBuffer(p, left, count)
           part     == SubSeq(user, 1, count)
           fromUser == CHOOSE k \in Fitting(part) : \A m \in Fitting(part) : m <= k
           whole    == Expanded(SubSeq(user, 1, fromUser))
           halfFits == /\ fromUser < count /\ user[fromUser + 1].c = "NL"
                       /\ Len(whole) + 1 <= osem.cnt
           rest     == SubSeq(user, fromUser + 1, Len(left))
           op       == IF "loop" = "loop" /\ fromUser = 0 THEN "none" ELSE "loop"
           new      == IF halfFits THEN [rest EXCEPT ![1].c = "CR"] ELSE rest
<1>1. Goto(p, op, new, 0)
  BY DEF Writcopy
<1>2. count \in Nat
  BY LenProperties
<1>3. user = left
  BY <1>2, UserBufferIs
<1>4. part = left
  BY <1>3, SubSeqFull
<1> HIDE DEF user, part
<1>5. fromUser \in 0 .. count /\ \A m \in Fitting(left) : m <= fromUser
  BY <1>4, SomethingFits
<1> HIDE DEF fromUser
<1>6. fromUser \in 1 .. count
  <2>1. 1 <= fromUser
    BY <1>5, FirstFits
  <2> QED BY <1>2, <1>5, <2>1
<1>7. op = "loop"
  BY <1>6
<1>8. /\ rest \in Seq(Chr) /\ Len(rest) = count - fromUser
      /\ \A i \in 1 .. count - fromUser : rest[i] = left[fromUser + i]
  BY <1>3, <1>5, SplitAt
<1> HIDE DEF rest
<1>9. /\ halfFits => fromUser < count
      /\ new = IF halfFits THEN [rest EXCEPT ![1].c = "CR"] ELSE rest
  OBVIOUS
<1> HIDE DEF halfFits
<1>10. CASE fromUser = count
  <2>1. rest = <<>>
    BY <1>2, <1>8, <1>10, EmptySeq
  <2>2. new = <<>>
    BY <1>2, <1>9, <1>10, <2>1
  <2> QED BY <1>1, <1>7, <2>2, EndsGoto DEF EndsOK, PlainText
<1>11. CASE fromUser < count
  <2> DEFINE k == count - fromUser
             cut == [rest EXCEPT ![1].c = "CR"]
  <2>1. k \in Nat /\ k > 0 /\ k \in 1 .. k /\ fromUser + k = count
    BY <1>2, <1>6, <1>11
  <2>2. Len(rest) = k /\ rest[k].c # "NL"
    BY <1>8, <2>1 DEF PlainText
  <2> HIDE DEF k
  <2>3. cut \in Seq(Chr) /\ Len(cut) = k /\ cut[k].c # "NL"
    <3>1. /\ cut \in Seq(Chr) /\ Len(cut) = k
          /\ cut[1] = [rest[1] EXCEPT !.c = "CR"]
          /\ \A i \in 2 .. k : cut[i] = rest[i]
      BY <1>8, <2>1, <2>2, ReturnStays
    <3>2. rest[1] \in Chr
      BY <1>8, <2>1, <2>2, ElementOfSeq
    <3>3. cut[1].c = "CR"
      BY <3>1, <3>2 DEF Chr
    <3> HIDE DEF cut
    <3>4. k = 1 \/ k \in 2 .. k
      BY <2>1
    <3> QED BY <2>2, <3>1, <3>3, <3>4
  <2> HIDE DEF cut
  <2>4. Len(new) = k /\ new[k].c # "NL"
    BY <1>9, <2>2, <2>3 DEF cut
  <2> HIDE DEF new
  <2>5. PlainText(new)
    BY <2>4 DEF PlainText
  <2> QED BY <1>1, <1>7, <2>5, EndsGoto DEF EndsOK
<1> QED BY <1>2, <1>6, <1>10, <1>11

LEMMA EndsWriteLoop ==
    ASSUME ConsoleInv, EndsInv, NEW p \in Users, NEW left \in Seq(Chr),
           left # <<>>, PlainText(left), WriteLoop(p, left)
    PROVE  EndsInv'
<1>1. osem.cnt \in Int /\ Len(left) \in Nat
  BY Standing, LenProperties
<1>2. CASE osem.cnt >= Len(left) /\ Writcopy(p, left, Len(left), "loop")
  <2>1. osem.cnt \in Nat
    BY <1>1, <1>2
  <2> QED BY <1>2, <2>1, EndsWritcopy
<1>3. CASE WriteRest(p, left, FALSE)
  BY <1>3, EndsWriteRest
<1> QED BY <1>2, <1>3 DEF WriteLoop

LEMMA EndsWriteOn ==
    ASSUME ConsoleInv, EndsInv, NEW p \in Users, WriteOn(p)
    PROVE  EndsInv'
<1>1. pc[p] \in Place /\ pc[p].left \in Seq(Chr) /\ EndsOK(pc[p].op, pc[p].left)
  BY DEF ConsoleInv, PlacesInv, Place, EndsInv
<1>2. CASE AtPc(p, "loop") /\ pc[p].left # <<>> /\ WriteLoop(p, pc[p].left)
  <2>1. PlainText(pc[p].left)
    BY <1>1, <1>2 DEF EndsOK, AtPc
  <2> DEFINE left == pc[p].left
  <2>2. left \in Seq(Chr) /\ left # <<>> /\ PlainText(left) /\ WriteLoop(p, left)
    BY <1>1, <1>2, <2>1
  <2> HIDE DEF left
  <2> QED BY <2>2, EndsWriteLoop
<1>3. CASE Return(p)
  BY <1>3, EndsReturn
<1>4. CASE WriteRest(p, pc[p].left, TRUE)
  BY <1>4, EndsWriteRest
<1>5. CASE PutRest(p, Expanded(pc[p].left), 0, TRUE)
  BY <1>5, EndsPutRest
<1>6. CASE PutRest(p, pc[p].left, 1, FALSE)
  BY <1>6, EndsPutRest
<1> QED BY <1>2, <1>3, <1>4, <1>5, <1>6 DEF WriteOn

LEMMA EndsPutWait ==
    ASSUME ConsoleInv, EndsInv, NEW p \in Users, NEW s, PutWait(p, s)
    PROVE  EndsInv'
BY EndsElsewhere DEF PutWait

LEMMA EndsUpperHalf ==
    ASSUME ConsoleInv, EndsInv, NEW p \in Users, UpperHalf(p)
    PROVE  EndsInv'
<1>1. CASE WriteOn(p)
  BY <1>1, EndsWriteOn
<1>2. CASE PutAgain(p)
  BY <1>2, EndsPutWait DEF PutAgain
<1>3. CASE PutPlace(p)
  BY <1>3, EndsReturn, EndsElsewhere DEF PutPlace
<1>4. CASE ReadOn(p)
  BY <1>4, EndsReturn, EndsElsewhere DEF ReadOn, GetRest
<1>5. CASE PeekEnd(p)
  BY <1>5, EndsReturn DEF PeekEnd
<1> QED BY <1>1, <1>2, <1>3, <1>4, <1>5 DEF UpperHalf, UpperOut, UpperIn

LEMMA EndsStand ==
    ASSUME EndsInv, pc' = pc
    PROVE  EndsInv'
BY DEF EndsInv

(* Nobody writes a text that ends in a newline.                            *)
PlainLoads ==
    \A w \in Loads : \A text \in w.texts : text = <<>> \/ text[Len(text)] # "NL"

LEMMA EndsCall ==
    ASSUME ConsoleInv, EndsInv, PlainLoads, NEW p \in Users, Call(p)
    PROVE  EndsInv'
<1>1. ASSUME NEW count, ttyread(p, count) PROVE EndsInv'
  BY <1>1, EndsReturn, EndsElsewhere DEF ttyread, Readcopy, GetRest
<1>2. CASE ttygetc(p)
  BY <1>2, EndsReturn, EndsElsewhere DEF ttygetc, GetRest
<1>3. ASSUME NEW func, ttycntl(p, func) PROVE EndsInv'
  BY <1>3, EndsStand, EndsElsewhere DEF ttycntl
<1>4. ASSUME NEW text, ttyputc(p, text) PROVE EndsInv'
  BY <1>4, EndsPutWait DEF ttyputc
<1>5. ASSUME NEW text \in load.texts, ttywrite(p, text) PROVE EndsInv'
  <2>1. /\ text \in Seq({"c", "NL"}) /\ text # <<>> /\ text[Len(text)] # "NL"
        /\ wrote \in [Users -> Seq({"c", "NL"})]
    BY <1>5, LoadsAssumption DEF ttywrite, PlainLoads, ConsoleInv, PlacesInv
  <2> DEFINE left == Named(p, text)
  <2>2. left \in Seq(Chr) /\ Len(left) = Len(text) /\ Len(text) \in Nat
    BY <2>1, NamedText, LenProperties
  <2>3. left # <<>> /\ Len(text) \in 1 .. Len(text) /\ DOMAIN text = 1 .. Len(text)
    BY <2>1, <2>2, EmptySeq, LenProperties
  <2>4. left[Len(text)].c = text[Len(text)]
    BY <2>3 DEF Named, Char
  <2>5. PlainText(left) /\ WriteLoop(p, left)
    BY <1>5, <2>1, <2>2, <2>4 DEF PlainText, ttywrite
  <2> HIDE DEF left
  <2> QED BY <2>2, <2>3, <2>5, EndsWriteLoop
<1> QED BY <1>1, <1>2, <1>3, <1>4, <1>5, Zenon DEF Call, read, write, getc, putc, control

LEMMA EndsKept ==
    ASSUME ConsoleInv, EndsInv, PlainLoads, [Next]_vars
    PROVE  EndsInv'
<1>1. ASSUME NEW p \in Users, Call(p) PROVE EndsInv'
  BY <1>1, EndsCall
<1>2. ASSUME NEW p \in Users, UpperHalf(p) PROVE EndsInv'
  BY <1>2, EndsUpperHalf
<1>3. ASSUME NEW signum, IOdispatcher(signum) PROVE EndsInv'
  <2>1. pc' = pc
    BY <1>3 DEF IOdispatcher, ttyiin, ttyoin
  <2> QED BY <2>1, EndsStand
<1>4. CASE UNCHANGED vars
  BY <1>4, EndsStand DEF vars, ttyVars
<1> QED BY <1>1, <1>2, <1>3, <1>4 DEF Next

(* When no text ends in a newline, writcopy is never asked for more than   *)
(* the text has left: its first character always fits, and so the texts    *)
(* stay in order, for any number of writers, texts and sizes (ttywrite.c,  *)
(* ttyoin.c).                                                              *)
THEOREM PlainTextStaysInOrder ==
    ASSUME Prompt = TRUE, PlainLoads
    PROVE  Spec => []TextInOrder
<1>1. Init => ConsoleInv /\ EndsInv
  <2> SUFFICES ASSUME Init PROVE ConsoleInv /\ EndsInv
    OBVIOUS
  <2>1. \A p \in Users : pc[p].op = "idle"
    BY DEF Init, TtyInit
  <2> QED BY <2>1, InitConsole DEF EndsInv, EndsOK
<1>2. ConsoleInv /\ EndsInv /\ [Next]_vars => ConsoleInv' /\ EndsInv'
  BY NextStep, EndsKept DEF StepOK
<1>3. EndsInv => WithinText
  BY DEF EndsInv, EndsOK, WithinText, AtPc
<1>4. Spec => []WithinText
  BY <1>1, <1>2, <1>3, PTL DEF Spec
<1> QED BY <1>4, TextStaysInOrder, PTL

=============================================================================
