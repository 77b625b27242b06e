------------------------- MODULE KernelTimers_proofs -------------------------
(***************************************************************************)
(* The delta list implements the timers, for every value of the constants: *)
(* Spec => SleepersAreTimed.  First lemmas about sums of keys; then the    *)
(* time left to each process, before and after a step; then one lemma for  *)
(* each step that is a step of the timers, and the frame for all others.   *)
(***************************************************************************)
EXTENDS KernelTimers, KernelOrder_proofs

(* f sums up the keys k along the queue cq.                                *)
IsSums(f, cq, k) ==
    /\ f \in [0 .. Len(cq) -> Nat]
    /\ f[0] = 0
    /\ \A i \in 1 .. Len(cq) : f[i] = f[i - 1] + k[cq[i]]

(* The keys k along the queue cq between the places a and b are the keys l *)
(* along dq, m places further.                                             *)
KeysAgree(cq, k, dq, l, a, b, m) ==
    /\ Len(cq) \in Nat /\ Len(dq) \in Nat
    /\ a \in 0 .. Len(cq) /\ b \in a .. Len(cq)
    /\ m \in Int /\ a + m >= 0 /\ b + m <= Len(dq)
    /\ \A i \in a + 1 .. b : k[cq[i]] \in Int /\ l[dq[i + m]] = k[cq[i]]

Apart(f, g, a, b, m, c) == \A i \in a .. b : g[i + m] = f[i] + c

(* Where the keys along two queues agree, place for place, the sums keep   *)
(* their distance.                                                         *)
LEMMA SumsAgree ==
    ASSUME NEW f, NEW cq, NEW k, IsSums(f, cq, k),
           NEW g, NEW dq, NEW l, IsSums(g, dq, l),
           NEW a, NEW b, NEW m, KeysAgree(cq, k, dq, l, a, b, m),
           NEW c \in Int, Apart(f, g, a, a, m, c)
    PROVE  Apart(f, g, a, b, m, c)
<1>0. /\ Len(cq) \in Nat /\ Len(dq) \in Nat
      /\ a \in 0 .. Len(cq) /\ b \in a .. Len(cq)
      /\ m \in Int /\ a + m >= 0 /\ b + m <= Len(dq)
      /\ \A i \in a + 1 .. b : k[cq[i]] \in Int /\ l[dq[i + m]] = k[cq[i]]
      /\ g[a + m] = f[a] + c
  BY DEF KeysAgree, Apart
<1> DEFINE T == {n \in 0 .. b - a : g[(a + n) + m] = f[a + n] + c}
<1>1. b - a \in Nat /\ 0 \in 0 .. b - a /\ a + 0 = a
  BY <1>0
<1>2. 0 \in T
  BY <1>0, <1>1
<1>3. ASSUME NEW n \in 0 .. (b - a) - 1, n \in T
      PROVE  n + 1 \in T
  <2> DEFINE j == a + (n + 1)
  <2>1. /\ n + 1 \in 0 .. b - a /\ j \in a + 1 .. b /\ j \in 1 .. Len(cq)
        /\ j - 1 = a + n /\ j + m \in 1 .. Len(dq) /\ (j + m) - 1 = (a + n) + m
        /\ a + n \in 0 .. Len(cq) /\ (a + n) + m \in 0 .. Len(dq)
    <3>1. n \in Nat /\ a \in Nat /\ b \in Int /\ n + 1 <= b - a /\ b <= Len(cq)
      BY <1>0
    <3>2. n + 1 \in 0 .. b - a /\ j \in a + 1 .. b /\ j \in 1 .. Len(cq)
      BY <1>0, <3>1
    <3>3. j - 1 = a + n /\ (j + m) - 1 = (a + n) + m /\ a + n \in 0 .. Len(cq)
      BY <1>0, <3>1
    <3>4. j + m \in 1 .. Len(dq) /\ (a + n) + m \in 0 .. Len(dq)
      BY <1>0, <3>1
    <3> QED BY <3>2, <3>3, <3>4
  <2> HIDE DEF j
  <2>2. f[j] = f[a + n] + k[cq[j]] /\ g[j + m] = g[(a + n) + m] + l[dq[j + m]]
    BY <2>1 DEF IsSums
  <2>3. g[(a + n) + m] = f[a + n] + c
    BY <1>3
  <2>4. l[dq[j + m]] = k[cq[j]] /\ k[cq[j]] \in Int /\ f[a + n] \in Nat
    BY <1>0, <2>1 DEF IsSums
  <2>5. g[j + m] = f[j] + c
    <3>1. g[j + m] = (f[a + n] + c) + k[cq[j]] /\ f[j] = f[a + n] + k[cq[j]]
      BY <2>2, <2>3, <2>4
    <3>2. \A x, y, z \in Int : (x + z) + y = (x + y) + z
      OBVIOUS
    <3>3. f[a + n] \in Int
      BY <2>4
    <3> QED BY <2>4, <3>1, <3>2, <3>3
  <2> QED BY <2>1, <2>5 DEF j
<1>4. 0 .. b - a \subseteq T
  <2> HIDE DEF T
  <2> QED BY <1>1, <1>2, <1>3, Induct
<1>5. ASSUME NEW i \in a .. b
      PROVE  g[i + m] = f[i] + c
  <2>1. i - a \in 0 .. b - a /\ a + (i - a) = i
    BY <1>0
  <2>2. i - a \in T
    BY <1>4, <2>1
  <2> QED BY <2>1, <2>2
<1> QED BY <1>5 DEF Apart

(* The same queue with the same keys has the same sums.                    *)
LEMMA SumsSame ==
    ASSUME NEW f, NEW g, NEW cq, NEW k, NEW l, Len(cq) \in Nat,
           IsSums(f, cq, k), IsSums(g, cq, l),
           NEW b \in 0 .. Len(cq),
           \A i \in 1 .. b : k[cq[i]] \in Int /\ l[cq[i]] = k[cq[i]]
    PROVE  \A i \in 0 .. b : g[i] = f[i]
<1>1. KeysAgree(cq, k, cq, l, 0, b, 0) /\ Apart(f, g, 0, 0, 0, 0)
  BY DEF KeysAgree, Apart, IsSums
<1>2. Apart(f, g, 0, b, 0, 0)
  BY <1>1, SumsAgree
<1>3. \A i \in 0 .. b : i + 0 = i /\ f[i] \in Nat
  BY DEF IsSums
<1> QED BY <1>2, <1>3 DEF Apart

(* With keys that are zero or more, the sums do not decrease.              *)
LEMMA SumsGrow ==
    ASSUME NEW f, NEW cq, NEW k, IsSums(f, cq, k), Len(cq) \in Nat,
           \A i \in 1 .. Len(cq) : k[cq[i]] \in Nat,
           NEW a \in 0 .. Len(cq)
    PROVE  \A i \in a .. Len(cq) : f[i] >= f[a]
<1> DEFINE T == {n \in 0 .. Len(cq) - a : f[a + n] >= f[a]}
<1>1. Len(cq) - a \in Nat /\ f[a] \in Nat /\ a + 0 = a
  BY DEF IsSums
<1>2. 0 \in T
  BY <1>1
<1>3. ASSUME NEW n \in 0 .. (Len(cq) - a) - 1, n \in T
      PROVE  n + 1 \in T
  <2> DEFINE j == a + (n + 1)
  <2>1. /\ n + 1 \in 0 .. Len(cq) - a /\ j \in 1 .. Len(cq) /\ j - 1 = a + n
        /\ a + n \in 0 .. Len(cq)
    OBVIOUS
  <2> HIDE DEF j
  <2>2. f[j] = f[a + n] + k[cq[j]] /\ k[cq[j]] \in Nat /\ f[a + n] \in Nat
    BY <2>1 DEF IsSums
  <2>3. f[a + n] >= f[a]
    BY <1>3
  <2>4. f[j] >= f[a]
    BY <1>1, <2>2, <2>3
  <2> QED BY <2>1, <2>4 DEF j
<1>4. 0 .. Len(cq) - a \subseteq T
  <2> HIDE DEF T
  <2> QED BY <1>1, <1>2, <1>3, Induct
<1>5. ASSUME NEW i \in a .. Len(cq)
      PROVE  f[i] >= f[a]
  <2>1. i - a \in 0 .. Len(cq) - a /\ a + (i - a) = i
    OBVIOUS
  <2>2. i - a \in T
    BY <1>4, <2>1
  <2> QED BY <2>1, <2>2
<1> QED BY <1>5

(* ... and where all keys are zero they are zero.                          *)
LEMMA SumsZero ==
    ASSUME NEW f, NEW cq, NEW k, IsSums(f, cq, k), Len(cq) \in Nat,
           NEW b \in 0 .. Len(cq), \A i \in 1 .. b : k[cq[i]] = 0
    PROVE  \A i \in 0 .. b : f[i] = 0
<1> DEFINE T == {n \in 0 .. b : f[n] = 0}
<1>1. 0 \in T
  BY DEF IsSums
<1>2. ASSUME NEW n \in 0 .. b - 1, n \in T
      PROVE  n + 1 \in T
  <2>1. n + 1 \in 0 .. b /\ n + 1 \in 1 .. b /\ n + 1 \in 1 .. Len(cq) /\ (n + 1) - 1 = n
    OBVIOUS
  <2>2. f[n + 1] = f[n] + k[cq[n + 1]] /\ k[cq[n + 1]] = 0 /\ f[n] = 0
    BY <1>2, <2>1 DEF IsSums
  <2> QED BY <2>1, <2>2
<1>3. 0 .. b \subseteq T
  <2> HIDE DEF T
  <2> QED BY <1>1, <1>2, Induct
<1> QED BY <1>3

(* The queue dq with the keys l is cq with the keys k less the entry at r, *)
(* whose key has gone to the one behind it.                                *)
LessOne(dq, l, cq, k, r) ==
    /\ Len(cq) \in Nat /\ r \in 1 .. Len(cq) /\ Len(dq) = Len(cq) - 1
    /\ \A j \in 1 .. Len(cq) : k[cq[j]] \in Nat
    /\ \A j \in 1 .. Len(dq) : dq[j] = IF j < r THEN cq[j] ELSE cq[j + 1]
    /\ \A j \in 1 .. Len(cq) :
          /\ j \notin {r, r + 1} => l[cq[j]] = k[cq[j]]
          /\ j = r + 1 => l[cq[j]] = k[cq[r]] + k[cq[j]]

LEMMA SumsLessOne ==
    ASSUME NEW f, NEW cq, NEW k, IsSums(f, cq, k),
           NEW g, NEW dq, NEW l, IsSums(g, dq, l),
           NEW r, LessOne(dq, l, cq, k, r)
    PROVE  /\ \A j \in 0 .. r - 1 : g[j] = f[j]
           /\ \A j \in r + 1 .. Len(cq) : g[j - 1] = f[j]
<1>1. /\ Len(cq) \in Nat /\ r \in 1 .. Len(cq) /\ Len(dq) = Len(cq) - 1
      /\ \A j \in 1 .. Len(cq) : k[cq[j]] \in Nat
      /\ \A j \in 1 .. Len(dq) : dq[j] = IF j < r THEN cq[j] ELSE cq[j + 1]
      /\ \A j \in 1 .. Len(cq) :
            /\ j \notin {r, r + 1} => l[cq[j]] = k[cq[j]]
            /\ j = r + 1 => l[cq[j]] = k[cq[r]] + k[cq[j]]
  BY DEF LessOne
<1>2. \A j \in 0 .. r - 1 : g[j] = f[j]
  <2>1. /\ 0 \in 0 .. Len(cq) /\ r - 1 \in 0 .. Len(cq) /\ 0 + 0 >= 0
        /\ (r - 1) + 0 <= Len(dq) /\ Len(dq) \in Nat
    BY <1>1
  <2>2. ASSUME NEW i \in 0 + 1 .. r - 1
        PROVE  k[cq[i]] \in Int /\ l[dq[i + 0]] = k[cq[i]]
    <3>1. /\ i \in 1 .. Len(cq) /\ i \in 1 .. Len(dq) /\ i < r /\ i + 0 = i
          /\ i \notin {r, r + 1}
      BY <1>1
    <3> QED BY <1>1, <3>1
  <2>3. KeysAgree(cq, k, dq, l, 0, r - 1, 0)
    BY <1>1, <2>1, <2>2 DEF KeysAgree
  <2>4. Apart(f, g, 0, 0, 0, 0)
    BY DEF Apart, IsSums
  <2>5. Apart(f, g, 0, r - 1, 0, 0)
    BY <2>3, <2>4, SumsAgree
  <2>6. ASSUME NEW j \in 0 .. r - 1 PROVE j + 0 = j /\ f[j] \in Nat
    <3>1. j \in 0 .. Len(cq) /\ j + 0 = j
      BY <1>1
    <3> QED BY <3>1 DEF IsSums
  <2> QED BY <2>5, <2>6 DEF Apart
<1>3. CASE r + 1 <= Len(cq)
  <2>1. /\ r + 1 \in 1 .. Len(cq) /\ r \in 1 .. Len(dq) /\ ~(r < r)
        /\ (r + 1) - 1 = r /\ r - 1 \in 0 .. r - 1 /\ r - 1 \in 0 .. Len(cq)
    BY <1>1, <1>3
  <2>2. /\ f[r + 1] = f[r] + k[cq[r + 1]] /\ f[r] = f[r - 1] + k[cq[r]]
        /\ g[r] = g[r - 1] + l[dq[r]] /\ f[r - 1] \in Nat
    BY <1>1, <2>1 DEF IsSums
  <2>3. dq[r] = cq[r + 1] /\ l[cq[r + 1]] = k[cq[r]] + k[cq[r + 1]] /\ g[r - 1] = f[r - 1]
    BY <1>1, <1>2, <2>1
  <2>4. g[r] = f[r + 1]
    BY <1>1, <2>1, <2>2, <2>3
  <2>5. Apart(f, g, r + 1, r + 1, -1, 0)
    <3>1. ASSUME NEW i \in r + 1 .. r + 1 PROVE g[i + (-1)] = f[i] + 0
      <4>1. i = r + 1 /\ i + (-1) = r
        BY <1>1
      <4>2. f[r + 1] \in Nat
        BY <2>1 DEF IsSums
      <4> QED BY <2>4, <4>1, <4>2
    <3> QED BY <3>1 DEF Apart
  <2>6. KeysAgree(cq, k, dq, l, r + 1, Len(cq), -1)
    <3>1. /\ r + 1 \in 0 .. Len(cq) /\ Len(cq) \in r + 1 .. Len(cq) /\ -1 \in Int
          /\ (r + 1) + (-1) >= 0 /\ Len(cq) + (-1) <= Len(dq) /\ Len(dq) \in Nat
      BY <1>1, <1>3
    <3>2. ASSUME NEW i \in (r + 1) + 1 .. Len(cq)
          PROVE  k[cq[i]] \in Int /\ l[dq[i + (-1)]] = k[cq[i]]
      <4>1. /\ i \in 1 .. Len(cq) /\ i + (-1) \in 1 .. Len(dq) /\ ~(i + (-1) < r)
            /\ (i + (-1)) + 1 = i /\ i \notin {r, r + 1}
        BY <1>1, <1>3
      <4>2. dq[i + (-1)] = cq[(i + (-1)) + 1]
        BY <1>1, <4>1
      <4> QED BY <1>1, <4>1, <4>2
    <3> QED BY <1>1, <3>1, <3>2 DEF KeysAgree
  <2>7. Apart(f, g, r + 1, Len(cq), -1, 0)
    BY <2>5, <2>6, SumsAgree
  <2>8. \A j \in r + 1 .. Len(cq) : j + (-1) = j - 1 /\ f[j] \in Nat
    BY <1>1 DEF IsSums
  <2> QED BY <1>2, <2>7, <2>8 DEF Apart
<1>4. CASE ~(r + 1 <= Len(cq))
  BY <1>1, <1>2, <1>4
<1> QED BY <1>3, <1>4

-----------------------------------------------------------------------------
(* The time left to a process, as KernelTimers maps it.                    *)
Left(p) ==
    CASE pstate[p] = "PRFREE"  -> -2
      [] pstate[p] = "PRSLEEP" -> TimeLeft(p)
      [] OTHER                 -> -1

lefts == [p \in Procs |-> Left(p)]

(* IInv with what the walks of strtclk and insertd have passed so far.     *)
TimersInv ==
    /\ Op = "strtclk" =>
          \A j \in 1 .. kctx[currpid].arg - 1 : qkey[clockq[j]] = 0
    /\ Op = "insertd" =>
          KeySum[kctx[currpid].arg - 1] + kctx[currpid].n \in 1 .. LongestTime

LEMMA KeySumIs == IInv => IsSums(KeySum, clockq, qkey)
<1> SUFFICES ASSUME IInv PROVE IsSums(KeySum, clockq, qkey)
  OBVIOUS
<1> DEFINE N == Len(clockq)
           g == [i \in 1 .. N |-> qkey[clockq[i]]]
<1>1. N \in Nat
  BY SchedTypes, LenProperties
<1>2. \A i \in 1 .. N : g[i] = qkey[clockq[i]] /\ g[i] \in Nat
  BY SchedTypes
<1> HIDE DEF g
<1>3. PICK t \in [0 .. N -> Nat] :
          t[0] = 0 /\ \A i \in 1 .. N : t[i] = t[i - 1] + g[i]
  BY <1>1, <1>2, SumsExist
<1>4. t = [i \in 0 .. N |-> IF i = 0 THEN 0 ELSE t[i - 1] + qkey[clockq[i]]]
  <2>1. ASSUME NEW i \in 0 .. N
        PROVE  t[i] = IF i = 0 THEN 0 ELSE t[i - 1] + qkey[clockq[i]]
    <3>1. i # 0 => i \in 1 .. N
      BY <1>1
    <3> QED BY <3>1, <1>2, <1>3
  <2> QED BY <2>1, <1>3
<1> DEFINE s == KeySum
<1>5. s = [i \in 0 .. N |-> IF i = 0 THEN 0 ELSE s[i - 1] + qkey[clockq[i]]]
  BY <1>4 DEF KeySum
<1> HIDE DEF s
<1> DEFINE T == {n \in 0 .. N : s[n] = t[n]}
<1>6. 0 \in T
  BY <1>1, <1>3, <1>5
<1>7. ASSUME NEW n \in 0 .. N - 1, n \in T
      PROVE  n + 1 \in T
  <2>1. n + 1 \in 1 .. N /\ n + 1 \in 0 .. N /\ (n + 1) - 1 = n /\ n + 1 # 0
    BY <1>1
  <2>2. s[n] = t[n]
    BY <1>7
  <2>3. s[n + 1] = s[n] + qkey[clockq[n + 1]]
    BY <1>5, <2>1
  <2>4. t[n + 1] = t[n] + qkey[clockq[n + 1]]
    BY <1>2, <1>3, <2>1
  <2> QED BY <2>1, <2>2, <2>3, <2>4
<1>8. 0 .. N \subseteq T
  <2> HIDE DEF T
  <2> QED BY <1>1, <1>6, <1>7, Induct
<1>9. s = t
  <2>1. \A n \in 0 .. N : s[n] = t[n]
    BY <1>8
  <2> QED BY <1>3, <1>5, <2>1
<1> QED BY <1>2, <1>3, <1>9 DEF IsSums, s

(* A sleeper that has place i in the queue has the sum of the keys up to i *)
(* left, less what strtclk has still to take off it.                       *)
TimeAt(i) ==
    IF KeySum[i] - ToMakeUp(i) > 0 THEN KeySum[i] - ToMakeUp(i) ELSE 0

(* What lefts is in a state with IInv.                                     *)
TimesView ==
    /\ clockq \in Seq(Procs) /\ Len(clockq) \in Nat
    /\ IsSums(KeySum, clockq, qkey)
    /\ \A i \in 1 .. Len(clockq) :
          /\ clockq[i] \in Procs /\ pstate[clockq[i]] = "PRSLEEP"
          /\ qkey[clockq[i]] \in Nat
          /\ Left(clockq[i]) = TimeAt(i)
    /\ \A p \in Procs :
          /\ pstate[p] = "PRFREE" => Left(p) = -2
          /\ pstate[p] \notin {"PRFREE", "PRSLEEP"} => Left(p) = -1
          /\ pstate[p] = "PRSLEEP" => \E i \in 1 .. Len(clockq) : clockq[i] = p

LEMMA TimesViewed == IInv => TimesView
<1> SUFFICES ASSUME IInv PROVE TimesView
  OBVIOUS
<1>1. /\ clockq \in Seq(Procs) /\ Len(clockq) \in Nat /\ DOMAIN clockq = 1 .. Len(clockq)
      /\ Holds(clockq, InState("PRSLEEP"))
  BY SchedTypes, LenProperties
<1>2. \A i \in 1 .. Len(clockq) :
          /\ clockq[i] \in Procs /\ pstate[clockq[i]] = "PRSLEEP"
          /\ qkey[clockq[i]] \in Nat
  BY SchedTypes
<1>3. ASSUME NEW i \in 1 .. Len(clockq) PROVE Left(clockq[i]) = TimeAt(i)
  <2>1. \A j \in 1 .. Len(clockq) : clockq[j] = clockq[i] => j = i
    BY <1>1 DEF Holds, IsInjective
  <2>2. Place(clockq[i]) = i
    BY <1>1, <2>1 DEF Place
  <2>3. TimeLeft(clockq[i]) = TimeAt(i)
    BY <2>2 DEF TimeLeft, TimeAt
  <2> QED BY <1>2, <2>3 DEF Left
<1>4. ASSUME NEW p \in Procs
      PROVE  /\ pstate[p] = "PRFREE" => Left(p) = -2
             /\ pstate[p] \notin {"PRFREE", "PRSLEEP"} => Left(p) = -1
             /\ pstate[p] = "PRSLEEP" => \E i \in 1 .. Len(clockq) : clockq[i] = p
  <2>1. /\ pstate[p] = "PRFREE" => Left(p) = -2
        /\ pstate[p] \notin {"PRFREE", "PRSLEEP"} => Left(p) = -1
    BY DEF Left
  <2>2. pstate[p] = "PRSLEEP" => \E i \in 1 .. Len(clockq) : clockq[i] = p
    BY <1>1 DEF Holds, ToSet, InState
  <2> QED BY <2>1, <2>2
<1> QED BY <1>1, <1>2, <1>3, <1>4, KeySumIs DEF TimesView

LEMMA TimesViewedNext == IInv' => TimesView'
BY TimesViewed, PTL

(* The time at a place when nothing is to be made up.                      *)
LEMMA TimeAtSum ==
    ASSUME TimesView, Op # "strtclk", NEW i \in 0 .. Len(clockq)
    PROVE  TimeAt(i) = KeySum[i] /\ KeySum[i] \in Nat
<1>1. KeySum[i] \in Nat
  BY DEF TimesView, IsSums
<1>2. ToMakeUp(i) = 0
  BY DEF ToMakeUp
<1> QED BY <1>1, <1>2 DEF TimeAt

LEMMA TimeAtSumNext ==
    ASSUME TimesView', Op' # "strtclk", NEW i \in 0 .. Len(clockq')
    PROVE  TimeAt(i)' = KeySum'[i] /\ KeySum'[i] \in Nat
<1>1. KeySum'[i] \in Nat
  BY DEF TimesView, IsSums
<1>2. ToMakeUp(i)' = 0
  BY DEF ToMakeUp
<1> QED BY <1>1, <1>2 DEF TimeAt

-----------------------------------------------------------------------------
(* From the times of single processes to the actions of SleepTimers.       *)

LEMMA TimersStay ==
    ASSUME \A p \in Procs : Left(p)' = Left(p)
    PROVE  lefts' = lefts
BY DEF lefts

LEMMA TimersActions ==
    /\ \A p \in Procs, n \in 1 .. LongestTime :
          lefts[p] = -1 /\ lefts' = [lefts EXCEPT ![p] = n] => Timers!Next
    /\ \A p \in Procs :
          /\ lefts[p] = 0 /\ lefts' = [lefts EXCEPT ![p] = -1] => Timers!Next
          /\ lefts[p] # -2 /\ lefts' = [lefts EXCEPT ![p] = -2] => Timers!Next
          /\ lefts[p] = -2 /\ lefts' = [lefts EXCEPT ![p] = -1] => Timers!Next
    /\ \A n \in 1 .. LongestTime :
          /\ \A p \in Procs : lefts[p] # 0
          /\ lefts' = [p \in Procs |-> IF ~(lefts[p] >= 0) THEN lefts[p]
                                       ELSE IF lefts[p] > n THEN lefts[p] - n ELSE 0]
          => Timers!Next
BY DEF lefts, Left, Timers!Next, Timers!FallAsleep, Timers!WakeUp, Timers!Die,
       Timers!Start, Timers!Elapse, Timers!Asleep, Timers!Awake, Timers!Gone

(* One process changes.                                                    *)
LEMMA TimersOne ==
    ASSUME NEW w \in Procs, \A p \in Procs \ {w} : Left(p)' = Left(p),
           \/ Left(w) = -1 /\ Left(w)' \in 1 .. LongestTime
           \/ Left(w) = 0 /\ Left(w)' = -1
           \/ Left(w) # -2 /\ Left(w)' = -2
           \/ Left(w) = -2 /\ Left(w)' = -1
    PROVE  Timers!Next
<1>1. /\ lefts' = [lefts EXCEPT ![w] = Left(w)']
      /\ lefts[w] = Left(w)
  BY DEF lefts
<1> QED BY <1>1, TimersActions

(* Time passes.                                                            *)
LEMMA TimersElapse ==
    ASSUME NEW n \in 1 .. LongestTime,
           \A p \in Procs :
              /\ Left(p) # 0
              /\ Left(p)' = IF ~(Left(p) >= 0) THEN Left(p)
                            ELSE IF Left(p) > n THEN Left(p) - n ELSE 0
    PROVE  Timers!Next
<1>1. \A p \in Procs : lefts[p] = Left(p)
  BY DEF lefts
<1>2. lefts' = [p \in Procs |-> IF ~(lefts[p] >= 0) THEN lefts[p]
                                ELSE IF lefts[p] > n THEN lefts[p] - n ELSE 0]
  <2>1. lefts' = [p \in Procs |-> Left(p)']
    BY DEF lefts
  <2> QED BY <1>1, <2>1
<1> QED BY <1>1, <1>2, TimersActions

-----------------------------------------------------------------------------
(* The frame.                                                              *)

FreeKept == \A p \in Procs : pstate'[p] = "PRFREE" <=> pstate[p] = "PRFREE"

LEMMA TimeKept ==
    ASSUME TimesView, TimesView', clockq' = clockq,
           Op # "strtclk", Op' # "strtclk", ClkKept,
           NEW p \in Procs, pstate'[p] = "PRFREE" <=> pstate[p] = "PRFREE"
    PROVE  Left(p)' = Left(p)
<1>1. PICK g : g = KeySum'
  OBVIOUS
<1>2. /\ IsSums(KeySum, clockq, qkey) /\ IsSums(g, clockq, qkey')
      /\ Len(clockq) \in Nat
      /\ \A i \in 1 .. Len(clockq) :
            /\ clockq[i] \in Procs /\ pstate[clockq[i]] = "PRSLEEP"
            /\ qkey[clockq[i]] \in Nat
  BY <1>1 DEF TimesView
<1>3. \A i \in 0 .. Len(clockq) : g[i] = KeySum[i]
  BY <1>2, SumsSame DEF ClkKept
<1>4. CASE pstate[p] = "PRFREE"
  BY <1>4 DEF TimesView
<1>5. CASE pstate[p] \notin {"PRFREE", "PRSLEEP"}
  BY <1>5 DEF ClkKept, TimesView
<1>6. CASE pstate[p] = "PRSLEEP"
  <2>1. PICK i \in 1 .. Len(clockq) : clockq[i] = p
    BY <1>6 DEF TimesView
  <2>2. i \in 0 .. Len(clockq) /\ i \in 0 .. Len(clockq')
    BY <1>2
  <2>3. Left(p) = TimeAt(i) /\ Left(p)' = TimeAt(i)'
    BY <2>1 DEF TimesView
  <2>4. TimeAt(i) = KeySum[i] /\ TimeAt(i)' = KeySum'[i]
    BY <2>2, TimeAtSum, TimeAtSumNext
  <2> QED BY <1>1, <1>3, <2>2, <2>3, <2>4
<1> QED BY <1>4, <1>5, <1>6

LEMMA TimesFrame ==
    ASSUME TimesView, TimesView', clockq' = clockq,
           Op # "strtclk", Op' # "strtclk", ClkKept, FreeKept
    PROVE  lefts' = lefts
<1>1. \A p \in Procs : Left(p)' = Left(p)
  BY TimeKept DEF FreeKept
<1> QED BY <1>1, TimersStay

(* What every step has to show.                                            *)
TimersStep == (Timers!Next \/ lefts' = lefts) /\ TimersInv'

Walks == {"insertd", "strtclk"}

LEMMA WalkOver == Op' \notin Walks => TimersInv'
BY DEF TimersInv, Walks

(* No process is left inside a walk over the sleep queue.                  *)
LEMMA WalksLeft ==
    ASSUME IInv, IInv',
           \/ Leave
           \/ \E op \in KernelOps \ Walks : \E a, n : Enter(op, a, n)
           \/ Op \notin Walks /\ UNCHANGED kctx
           \/ Op \notin Walks /\ \E pid \in Procs : kctx' = [kctx EXCEPT ![pid] = OutOfKernel]
    PROVE  Op' \notin Walks
<1>1. /\ currpid \in Procs /\ DOMAIN kctx = Procs /\ currpid' \in Procs
      /\ \A p \in Procs \ {currpid} : kctx[p].op \in Resumable
  BY DEF IInv, SchedInv, ProcTypeOK, SwitchedOutCleanly
<1>2. \A op \in Resumable : op \notin Walks
  BY DEF Resumable, Walks
<1>3. OutOfKernel.op = "none" /\ "none" \notin Walks
  BY DEF OutOfKernel, InKernel, Walks
<1>4. CASE Op \notin Walks /\ UNCHANGED kctx
  BY <1>1, <1>2, <1>4 DEF Op
<1>5. CASE \E pid \in Procs :
              /\ pid = currpid \/ Op \notin Walks
              /\ \E r : r.op \notin Walks /\ kctx' = [kctx EXCEPT ![pid] = r]
  BY <1>1, <1>2, <1>5 DEF Op
<1>6. CASE Leave
  BY <1>1, <1>3, <1>5, <1>6 DEF Leave
<1>7. ASSUME NEW op \in KernelOps \ Walks, NEW a, NEW n, Enter(op, a, n)
      PROVE  Op' \notin Walks
  <2>1. InKernel(op, a, n).op = op
    BY DEF InKernel
  <2>2. kctx' = [kctx EXCEPT ![currpid] = InKernel(op, a, n)]
    BY <1>7 DEF Enter
  <2> DEFINE r == InKernel(op, a, n)
  <2>3. r.op \notin Walks /\ kctx' = [kctx EXCEPT ![currpid] = r]
    BY <2>1, <2>2
  <2> HIDE DEF r
  <2>4. /\ currpid \in Procs /\ currpid = currpid
        /\ \E s : s.op \notin Walks /\ kctx' = [kctx EXCEPT ![currpid] = s]
    BY <1>1, <2>3, Zenon
  <2> QED BY <1>5, <2>4
<1>8. CASE Op \notin Walks /\ \E pid \in Procs : kctx' = [kctx EXCEPT ![pid] = OutOfKernel]
  BY <1>3, <1>5, <1>8
<1> QED BY <1>4, <1>6, <1>7, <1>8

LEMMA FrameStep ==
    ASSUME IInv, IInv', clockq' = clockq, Op # "strtclk", Op' \notin Walks,
           ClkKept, FreeKept
    PROVE  TimersStep
<1>1. TimesView /\ TimesView'
  BY TimesViewed, TimesViewedNext
<1>2. Op' # "strtclk"
  BY DEF Walks
<1> QED BY <1>1, <1>2, TimesFrame, WalkOver DEF TimersStep

(* Calls of resched and ready that put nobody to sleep, wake nobody up and *)
(* free or fill no table entry.                                            *)
Elsewhere == {"PRREADY", "PRCURR", "PRFREE", "PRSLEEP"}

LEMMA SchedTimers ==
    ASSUME IInv, IInv', clockq' = clockq, Op # "strtclk", Op' \notin Walks,
           \/ UNCHANGED <<pstate, qkey>>
           \/ \E left \in {preempt, 0} : Resched(pstate, rdyq, qkey, pprio, left)
           \/ /\ currpid # NULLPROC
              /\ \E s \in States \ Elsewhere : Block(s)
           \/ \E pid \in Procs :
                 pstate[pid] \notin Elsewhere /\ (Ready(pid) \/ ReadyNoResched(pid))
    PROVE  TimersStep
<1>1. /\ SchedOKNow /\ pprio \in [Procs -> Int] /\ qkey \in [Procs -> Int]
      /\ preempt \in -1 .. QUANTUM
      /\ currpid \in Procs /\ pstate[currpid] = "PRCURR"
  BY SchedInvParts, PprioInt, SchedTypes DEF IInv, SchedOKNow, SchedOK, CurrentIn
<1>2. CASE UNCHANGED <<pstate, qkey>>
  BY <1>2, FrameStep DEF ClkKept, FreeKept
<1>3. ASSUME NEW left \in {preempt, 0}, Resched(pstate, rdyq, qkey, pprio, left)
      PROVE  TimersStep
  <2>1. left \in -1 .. QUANTUM
    BY <1>1, ConstFacts
  <2>2. \A p \in Procs : Kept(p)
    BY <1>1, <1>3, <2>1, YieldStep
  <2>3. ClkKept /\ FreeKept
    BY <2>2 DEF Kept, ClkKept, FreeKept, Runnable
  <2> QED BY <2>3, FrameStep
<1>4. ASSUME currpid # NULLPROC, NEW s \in States \ Elsewhere, Block(s)
      PROVE  TimersStep
  <2>1. s \notin Runnable
    BY DEF Elsewhere, Runnable
  <2>2. /\ pstate'[currpid] = s
        /\ \A p \in Procs \ {currpid} :
              /\ pstate[p] \in Runnable <=> pstate'[p] \in Runnable
              /\ pstate[p] \notin Runnable =>
                    pstate'[p] = pstate[p] /\ qkey'[p] = qkey[p]
    BY <1>1, <1>4, <2>1, BlockStep DEF Block
  <2>3. ClkKept /\ FreeKept
    BY <1>1, <2>2 DEF ClkKept, FreeKept, Runnable, Elsewhere
  <2> QED BY <2>3, FrameStep
<1>5. ASSUME NEW pid \in Procs, pstate[pid] \notin Elsewhere,
             Ready(pid) \/ ReadyNoResched(pid)
      PROVE  TimersStep
  <2>1. pstate[pid] \notin Runnable
    BY <1>5 DEF Elsewhere, Runnable
  <2>2. pstate'[pid] \in Runnable /\ \A p \in Procs \ {pid} : Kept(p)
    BY <1>1, <1>5, <2>1, ReadyStep, ReadyNoReschedStep DEF Runnable
  <2>3. ClkKept /\ FreeKept
    BY <1>5, <2>2 DEF Kept, ClkKept, FreeKept, Runnable, Elsewhere
  <2> QED BY <2>3, FrameStep
<1> QED BY <1>2, <1>3, <1>4, <1>5

-----------------------------------------------------------------------------
(* The calls and steps that are no business of the sleep queue.            *)

LEMMA OutsideWalks == "none" \notin Walks /\ "none" # "strtclk"
BY DEF Walks

LEMMA ProcCallTimers ==
    ASSUME OrderInv, IInv', ProcCall
    PROVE  TimersStep
<1>1. IInv /\ UNCHANGED clockq
  BY DEF OrderInv, ProcCall, clkVars
<1>2. PICK pid \in PidArgs :
          \/ Suspend(pid)
          \/ Resume(pid)
          \/ \E newprio \in Prios : ChPrio(pid, newprio)
  BY DEF ProcCall
<1>3. /\ Op = "none" /\ currpid # NULLPROC /\ UNCHANGED kctx
      /\ qkey \in [Procs -> Int] /\ preempt \in -1 .. QUANTUM
  BY <1>2, CallerFacts DEF Suspend, Resume, ChPrio, HandleError
<1>4. Op' \notin Walks /\ Op # "strtclk"
  BY <1>1, <1>3, OutsideWalks, WalksLeft
<1>5. pstate \in [Procs -> States]
  BY <1>1, SchedTypes
<1>6. CASE Suspend(pid)
  <2>1. CASE /\ pstate[pid] = "PRREADY" /\ pstate' = [pstate EXCEPT ![pid] = "PRSUSP"]
             /\ UNCHANGED qkey
    <3>1. ClkKept /\ FreeKept
      BY <1>5, <2>1 DEF ClkKept, FreeKept
    <3> QED BY <1>1, <1>4, <3>1, FrameStep
  <2>2. CASE Block("PRSUSP")
    <3>1. "PRSUSP" \in States \ Elsewhere
      BY DEF States, Elsewhere
    <3> QED BY <1>1, <1>3, <1>4, <2>2, <3>1, SchedTimers
  <2> QED BY <1>6, <2>1, <2>2 DEF Suspend
<1>7. CASE Resume(pid)
  <2>1. CASE HandleError
    BY <1>1, <1>4, <2>1, SchedTimers DEF HandleError
  <2>2. CASE Suspended(pid) /\ Ready(pid)
    <3>1. pid \in Procs /\ pstate[pid] \notin Elsewhere
      BY <2>2, ConstFacts DEF Suspended, isbadpid, PidArgs, Procs, Elsewhere
    <3> QED BY <1>1, <1>4, <2>2, <3>1, SchedTimers
  <2> QED BY <1>7, <2>1, <2>2 DEF Resume
<1>8. ASSUME NEW newprio \in Prios, ChPrio(pid, newprio)
      PROVE  TimersStep
  <2>1. /\ pid \in Procs /\ newprio \in Int /\ pprio \in [Procs -> Int]
        /\ pprio' = [pprio EXCEPT ![pid] = newprio]
    BY <1>8, StagedNow, ConstFacts, ProcTabAssumption
       DEF ChPrio, isbadpid, PidArgs, Procs, NULLPROC
  <2>2. pprio' \in [Procs -> Int]
    BY <2>1
  <2> DEFINE rq == Requeue(pid, newprio)
             k  == [qkey EXCEPT ![pid] = newprio]
  <2>3. CASE Resched(pstate, rdyq, qkey, pprio', preempt)
    <3>1. \A p \in Procs : Kept(p)
      BY <1>3, <2>2, <2>3, StagedNow, YieldStep
    <3>2. ClkKept /\ FreeKept
      BY <3>1 DEF Kept, ClkKept, FreeKept, Runnable
    <3> QED BY <1>1, <1>4, <3>2, FrameStep
  <2>4. CASE pstate[pid] = "PRREADY" /\ Resched(pstate, rq, k, pprio', preempt)
    <3>1. Staged(pstate, rq, k, pprio')
      BY <2>1, <2>4, RequeueStaged
    <3>2. \A p \in Procs \ {pid} : k[p] = qkey[p]
      BY <1>3
    <3> HIDE DEF rq, k
    <3>3. OthersKept(pstate, k, pstate', qkey')
      BY <1>3, <2>2, <2>4, <3>1, ReschedOK DEF Staged, BeforeResched
    <3>4. ClkKept /\ FreeKept
      BY <2>4, <3>2, <3>3 DEF OthersKept, ClkKept, FreeKept, Runnable
    <3> QED BY <1>1, <1>4, <3>4, FrameStep
  <2>5. CASE pstate[pid] = "PRREADY" /\ UNCHANGED pstate /\ qkey' = k
    <3>1. ClkKept /\ FreeKept
      BY <1>3, <2>5 DEF ClkKept, FreeKept
    <3> QED BY <1>1, <1>4, <3>1, FrameStep
  <2>6. CASE UNCHANGED schedVars
    BY <1>1, <1>4, <2>6, SchedTimers DEF schedVars
  <2> HIDE DEF rq, k
  <2> QED BY <1>8, <2>3, <2>4, <2>5, <2>6 DEF ChPrio, rq, k
<1> QED BY <1>2, <1>6, <1>7, <1>8

LEMMA SignalTimers ==
    ASSUME OrderInv, IInv', UNCHANGED clockq, Op = "none",
           NEW s \in SemArgs, NEW count,
           SignalBody(s) \/ SignalNBody(s, count)
    PROVE  TimersStep
<1>1. IInv /\ SemInv
  BY DEF OrderInv, IInv
<1>2. Op' \notin Walks /\ Op # "strtclk"
  <2>1. UNCHANGED kctx \/ Enter("signaln", s, count)
    BY DEF SignalBody, SignalNBody, SemError, HandleError
  <2>2. "signaln" \in KernelOps \ Walks
    BY DEF KernelOps, Walks
  <2> QED BY <1>1, <2>1, <2>2, OutsideWalks, WalksLeft
<1>3. CASE SemUsed(s) /\ semcnt[s] < 0 /\ Ready(Head(semq[s]))
  <2>1. s \in Sems /\ sstate[s] = "SUSED"
    BY <1>1, <1>3, ConstFacts DEF SemUsed, isbadsem, SemInv, SemTypeOK, SemArgs, Sems
  <2>2. semq[s] # <<>>
    BY <1>1, <1>3, <2>1, SomebodyWaits DEF SemDrains
  <2>3. Head(semq[s]) \in Procs /\ pstate[Head(semq[s])] \notin Elsewhere
    BY <1>1, <2>1, <2>2, FirstWaiter DEF Elsewhere
  <2> QED BY <1>1, <1>2, <1>3, <2>3, SchedTimers
<1>4. CASE UNCHANGED <<pstate, qkey>>
  BY <1>1, <1>2, <1>4, SchedTimers
<1> QED BY <1>3, <1>4 DEF SignalBody, SignalNBody, SemError, HandleError, schedVars

LEMMA SemCallTimers ==
    ASSUME OrderInv, IInv', SemCall \/ TtyInterrupt
    PROVE  TimersStep
<1>1. IInv /\ UNCHANGED clockq
  BY DEF OrderInv, SemCall, TtyInterrupt, clkVars
<1>2. ASSUME NEW s \in SemArgs, SDelete(s) \/ Wait(s) PROVE TimersStep
  <2>1. Op = "none" /\ currpid # NULLPROC
    BY <1>2, CallerFacts DEF SDelete, Wait
  <2>2. Op' \notin Walks /\ Op # "strtclk"
    <3>1. UNCHANGED kctx \/ Enter("sdelete", s, 0)
      BY <1>2 DEF SDelete, Wait, SemError, HandleError
    <3>2. "sdelete" \in KernelOps \ Walks
      BY DEF KernelOps, Walks
    <3> QED BY <1>1, <2>1, <3>1, <3>2, OutsideWalks, WalksLeft
  <2>3. UNCHANGED <<pstate, qkey>> \/ Block("PRWAIT")
    BY <1>2 DEF SDelete, Wait, SemError, HandleError, schedVars
  <2>4. "PRWAIT" \in States \ Elsewhere
    BY DEF States, Elsewhere
  <2> QED BY <1>1, <2>1, <2>2, <2>3, <2>4, SchedTimers
<1>3. ASSUME NEW s \in SemArgs, Signal(s) PROVE TimersStep
  BY <1>1, <1>3, CallerFacts, SignalTimers DEF Signal
<1>4. ASSUME NEW count \in Counts, SCreate(count) PROVE TimersStep
  <2>1. UNCHANGED <<pstate, qkey, kctx>> /\ Op = "none"
    BY <1>4, CallerFacts DEF SCreate, SCreateBody, SemError, HandleError, procVars
  <2> QED BY <1>1, <2>1, OutsideWalks, WalksLeft, SchedTimers
<1>5. ASSUME NEW s \in SemArgs, NEW count \in Counts, SReset(s, count)
      PROVE  TimersStep
  <2>1. Op = "none"
    BY <1>5, CallerFacts DEF SReset
  <2>2. /\ UNCHANGED <<pstate, qkey>>
        /\ UNCHANGED kctx \/ Enter("sreset", s, count)
    BY <1>5 DEF SReset, SemError, HandleError, schedVars
  <2>3. "sreset" \in KernelOps \ Walks
    BY DEF KernelOps, Walks
  <2>4. Op' \notin Walks /\ Op # "strtclk"
    BY <1>1, <2>1, <2>2, <2>3, OutsideWalks, WalksLeft
  <2> QED BY <1>1, <2>2, <2>4, SchedTimers
<1>6. ASSUME NEW s \in SemArgs, NEW count \in Counts, SignalN(s, count)
      PROVE  TimersStep
  BY <1>1, <1>6, CallerFacts, SignalTimers DEF SignalN
<1>7. ASSUME NEW s \in TtySems, IOInterrupt(s) PROVE TimersStep
  <2>1. s \in SemArgs /\ Op = "none"
    BY <1>1, <1>7, ConstFacts, OutOfKernelFacts
       DEF IOInterrupt, TtySems, ISEM, OSEM, SemArgs, Sems
  <2>2. SignalBody(s) \/ \E count \in Counts : SignalNBody(s, count)
    BY <1>7 DEF IOInterrupt
  <2> QED BY <1>1, <2>1, <2>2, SignalTimers
<1> QED BY <1>2, <1>3, <1>4, <1>5, <1>6, <1>7 DEF SemCall, TtyInterrupt

LEMMA SemKernelStepTimers ==
    ASSUME OrderInv, IInv', UNCHANGED clockq, SemKernelStep
    PROVE  TimersStep
<1> DEFINE s == kctx[currpid].arg
<1>1. IInv /\ SemInv
  BY DEF OrderInv, IInv
<1>2. PICK op \in {"sdelete", "sreset", "signaln"} : At(op)
  BY DEF SemKernelStep, ReleaseWaiter, SDeleteEnd, SResetEnd, SignalNStep, SignalNEnd
<1>3. Op = op /\ s \in Sems
  BY <1>2, InsideFacts DEF SemInv, SemSection
<1>4. Op' \notin Walks /\ Op # "strtclk"
  <2>1. UNCHANGED kctx \/ Leave \/ \E n : Enter("signaln", s, n)
    BY DEF SemKernelStep, ReleaseWaiter, SDeleteEnd, SResetEnd, SignalNStep, SignalNEnd
  <2>2. "signaln" \in KernelOps \ Walks /\ Op \notin Walks
    BY <1>3 DEF KernelOps, Walks
  <2> QED BY <1>1, <1>3, <2>1, <2>2, WalksLeft
<1>5. ASSUME semq[s] # <<>>, ReadyFirstWaiter(s) PROVE TimersStep
  <2>1. Head(semq[s]) \in Procs /\ pstate[Head(semq[s])] \notin Elsewhere
    BY <1>1, <1>3, <1>5, FirstWaiter DEF Elsewhere
  <2> QED BY <1>1, <1>4, <1>5, <2>1, SchedTimers DEF ReadyFirstWaiter
<1>6. CASE ReleaseWaiter
  BY <1>5, <1>6 DEF ReleaseWaiter
<1>7. CASE SDeleteEnd \/ SResetEnd \/ SignalNEnd
  BY <1>1, <1>4, <1>7, SchedTimers DEF SDeleteEnd, SResetEnd, SignalNEnd, Yield
<1>8. CASE SignalNStep
  <2>1. At("signaln")
    BY <1>8 DEF SignalNStep
  <2>2. Op = "signaln" /\ sstate[s] = "SUSED"
    BY <1>1, <2>1, InsideFacts DEF SemInv, SemSection
  <2>3. CASE semcnt[s] < 0 /\ ReadyFirstWaiter(s)
    BY <1>1, <1>3, <1>5, <2>2, <2>3, SomebodyWaits DEF SemDrains
  <2>4. CASE UNCHANGED schedVars
    BY <1>1, <1>4, <2>4, SchedTimers DEF schedVars
  <2> QED BY <1>8, <2>3, <2>4 DEF SignalNStep
<1> QED BY <1>6, <1>7, <1>8 DEF SemKernelStep

LEMMA MsgTimers ==
    ASSUME OrderInv, IInv', UNCHANGED clockq,
           \/ \E pid \in PidArgs, msg \in Msgs : Send(pid, msg)
           \/ Receive \/ RecvClr \/ ReceiveEnd
    PROVE  TimersStep
<1>1. IInv
  BY DEF OrderInv
<1>2. ASSUME NEW pid \in PidArgs, NEW msg \in Msgs, Send(pid, msg) PROVE TimersStep
  <2>1. /\ pid \in Procs /\ UNCHANGED kctx /\ Op = "none"
    BY <1>2, ConstFacts, CallerFacts DEF Send, isbadpid, PidArgs, Procs
  <2>2. Op' \notin Walks /\ Op # "strtclk"
    BY <1>1, <2>1, OutsideWalks, WalksLeft
  <2>3. "PRRECV" \notin Elsewhere
    BY DEF Elsewhere
  <2> QED BY <1>1, <1>2, <2>1, <2>2, <2>3, SchedTimers DEF Send, schedVars
<1>3. CASE Receive
  <2>1. Op = "none" /\ currpid # NULLPROC /\ Enter("receive", 0, 0)
    BY <1>3, CallerFacts DEF Receive
  <2>2. "receive" \in KernelOps \ Walks /\ "PRRECV" \in States \ Elsewhere
    BY DEF KernelOps, Walks, States, Elsewhere
  <2>3. Op' \notin Walks /\ Op # "strtclk"
    BY <1>1, <2>1, <2>2, OutsideWalks, WalksLeft
  <2> QED BY <1>1, <1>3, <2>1, <2>2, <2>3, SchedTimers DEF Receive, schedVars
<1>4. CASE RecvClr
  <2>1. Op = "none" /\ UNCHANGED <<pstate, qkey, kctx>>
    BY <1>4, CallerFacts DEF RecvClr, procVars
  <2> QED BY <1>1, <2>1, OutsideWalks, WalksLeft, SchedTimers
<1>5. CASE ReceiveEnd
  <2>1. Op = "receive" /\ Leave /\ UNCHANGED <<pstate, qkey>>
    BY <1>5, InsideFacts DEF ReceiveEnd, schedVars
  <2> QED BY <1>1, <2>1, WalksLeft, SchedTimers
<1> QED BY <1>2, <1>3, <1>4, <1>5

-----------------------------------------------------------------------------
(* The clock.  The greatest time really is that.                           *)
LEMMA LongestFacts ==
    /\ LongestTime \in Nat /\ LongestTime > 0 /\ MaxDiff <= LongestTime
    /\ \A m \in 1 .. CHUNK : TENTHS * m \in 1 .. LongestTime
<1>1. TENTHS \in Nat /\ TENTHS > 0 /\ CHUNK \in Nat /\ CHUNK > 0 /\ MaxDiff \in Nat
  BY RealClockAssumption
<1>2. TENTHS * CHUNK \in Int /\ TENTHS * CHUNK > 0
  BY <1>1, PositiveProduct
<1>3. /\ LongestTime \in Nat /\ LongestTime > 0 /\ MaxDiff <= LongestTime
      /\ TENTHS * CHUNK <= LongestTime
  <2> DEFINE c == TENTHS * CHUNK
  <2>1. c \in Int /\ c > 0 /\ LongestTime = IF c > MaxDiff THEN c ELSE MaxDiff
    BY <1>2 DEF LongestTime
  <2> HIDE DEF c
  <2>2. /\ LongestTime \in Nat /\ LongestTime > 0 /\ MaxDiff <= LongestTime
        /\ c <= LongestTime
    BY <1>1, <2>1
  <2> QED BY <2>2 DEF c
<1>4. ASSUME NEW m \in 1 .. CHUNK
      PROVE  TENTHS * m \in 1 .. LongestTime
  <2>1. TENTHS * m \in Int /\ TENTHS * m > 0
    BY <1>1, PositiveProduct
  <2>2. TENTHS * m <= TENTHS * CHUNK
    <3>1. m \in Nat /\ CHUNK - m \in Nat
      BY <1>1
    <3>2. TENTHS * (CHUNK - m) >= 0
      BY <1>1, <3>1
    <3>3. TENTHS * (CHUNK - m) = TENTHS * CHUNK - TENTHS * m
      BY <1>1, <3>1
    <3> QED BY <1>2, <2>1, <3>2, <3>3
  <2> QED BY <1>2, <1>3, <2>1, <2>2
<1> QED BY <1>3, <1>4

(* n ticks pass, or none.                                                  *)
LEMMA TimesPass ==
    ASSUME TimesView, TimesView', clockq' = clockq, UNCHANGED pstate,
           NEW n \in 0 .. LongestTime,
           \A i \in 1 .. Len(clockq) :
              /\ TimeAt(i) \in Nat /\ (n > 0 => TimeAt(i) > 0)
              /\ TimeAt(i)' = IF TimeAt(i) > n THEN TimeAt(i) - n ELSE 0
    PROVE  Timers!Next \/ lefts' = lefts
<1>1. ASSUME NEW p \in Procs
      PROVE  /\ n > 0 => Left(p) # 0
             /\ Left(p)' = IF ~(Left(p) >= 0) THEN Left(p)
                           ELSE IF Left(p) > n THEN Left(p) - n ELSE 0
  <2>1. CASE pstate[p] = "PRFREE"
    <3>1. Left(p) = -2 /\ Left(p)' = -2
      BY <2>1 DEF TimesView
    <3> QED BY <3>1
  <2>2. CASE pstate[p] \notin {"PRFREE", "PRSLEEP"}
    <3>1. Left(p) = -1 /\ Left(p)' = -1
      BY <2>2 DEF TimesView
    <3> QED BY <3>1
  <2>3. CASE pstate[p] = "PRSLEEP"
    <3>1. PICK i \in 1 .. Len(clockq) : clockq[i] = p
      BY <2>3 DEF TimesView
    <3>2. Left(p) = TimeAt(i) /\ Left(p)' = TimeAt(i)'
      BY <3>1 DEF TimesView
    <3>3. /\ TimeAt(i) \in Nat /\ (n > 0 => TimeAt(i) > 0)
          /\ TimeAt(i)' = IF TimeAt(i) > n THEN TimeAt(i) - n ELSE 0
      OBVIOUS
    <3> QED BY <3>2, <3>3
  <2> QED BY <2>1, <2>2, <2>3
<1>2. CASE n > 0
  <2>1. n \in 1 .. LongestTime
    BY <1>2, LongestFacts
  <2> QED BY <1>1, <1>2, <2>1, TimersElapse
<1>3. CASE n = 0
  <2>1. \A p \in Procs : Left(p) \in Nat \/ Left(p) \in {-1, -2}
    <3>1. \A p \in Procs : pstate[p] = "PRSLEEP" => Left(p) \in Nat
      BY DEF TimesView
    <3>2. \A p \in Procs : pstate[p] # "PRSLEEP" => Left(p) \in {-1, -2}
      BY DEF TimesView
    <3> QED BY <3>1, <3>2
  <2>2. ASSUME NEW p \in Procs PROVE Left(p)' = Left(p)
    <3>1. Left(p)' = IF ~(Left(p) >= 0) THEN Left(p)
                     ELSE IF Left(p) > 0 THEN Left(p) - 0 ELSE 0
      BY <1>1, <1>3
    <3>2. Left(p) \in Nat \/ Left(p) \in {-1, -2}
      BY <2>1
    <3> QED BY <3>1, <3>2
  <2> QED BY <2>2, TimersStay
<1> QED BY <1>2, <1>3

(* The piece of a sleep that SleepNext starts with is within the limits.   *)
LEMMA SleepNextTimers ==
    ASSUME OrderInv, IInv', SleepNext
    PROVE  TimersStep
<1>1. /\ IInv /\ Op = "none" /\ UNCHANGED <<pstate, qkey, clockq, currpid>>
  BY OutOfKernelFacts DEF OrderInv, SleepNext, schedVars, clkVars
<1>2. CASE UNCHANGED kctx
  <2>1. Op' \notin Walks /\ Op # "strtclk"
    BY <1>1, <1>2, OutsideWalks, WalksLeft
  <2> QED BY <1>1, <2>1, SchedTimers
<1>3. ASSUME NEW m \in 1 .. CHUNK, EnterSleep10(TENTHS * m)
      PROVE  TimersStep
  <2> DEFINE d == TENTHS * m
  <2>1. d \in 1 .. LongestTime /\ LongestTime \in Nat
    BY LongestFacts
  <2>2. Enter("insertd", 1, d) /\ d \in Int
    BY <1>3, <2>1 DEF EnterSleep10
  <2> HIDE DEF d
  <2>3. Op' = "insertd" /\ kctx'[currpid'].arg = 1 /\ kctx'[currpid'].n = d
    <3>1. TabOK /\ currpid \in Procs /\ "insertd" \in KernelOps /\ 1 \in Int
      BY <1>1, OutOfKernelFacts, SchedTypes DEF SleepNext, KernelOps
    <3> QED BY <1>1, <2>2, <3>1, EnterFacts DEF Op
  <2>4. TimesView /\ TimesView'
    BY <1>1, TimesViewed, TimesViewedNext
  <2>5. TimersInv'
    <3>1. KeySum'[kctx'[currpid'].arg - 1] = 0
      BY <2>3, <2>4 DEF TimesView, IsSums
    <3>2. KeySum'[kctx'[currpid'].arg - 1] + kctx'[currpid'].n \in 1 .. LongestTime
      BY <2>1, <2>3, <3>1
    <3> QED BY <2>3, <3>2 DEF TimersInv
  <2>6. lefts' = lefts
    <3>1. ClkKept /\ FreeKept /\ Op # "strtclk" /\ Op' # "strtclk"
      BY <1>1, <2>3 DEF ClkKept, FreeKept
    <3> QED BY <1>1, <2>4, <3>1, TimesFrame
  <2> QED BY <2>5, <2>6 DEF TimersStep
<1>4. \/ UNCHANGED kctx
      \/ \E m \in 1 .. CHUNK : EnterSleep10(TENTHS * m)
  <2> DEFINE n == uctx[currpid].n
  <2>1. n \in Nat /\ CHUNK \in Nat /\ CHUNK > 0
    BY <1>1, SchedTypes, RealClockAssumption
  <2>2. CHUNK \in 1 .. CHUNK /\ (0 < n /\ n < CHUNK => n \in 1 .. CHUNK)
    BY <2>1
  <2> QED BY <2>2 DEF SleepNext
<1> QED BY <1>2, <1>3, <1>4

(* Out of the kernel no sleeper is due.                                    *)
LEMMA NobodyDue ==
    ASSUME OrderInv, Op = "none"
    PROVE  \A i \in 1 .. Len(clockq) : KeySum[i] \in Nat /\ KeySum[i] > 0
<1> DEFINE N == Len(clockq)
<1>1. TimesView
  BY TimesViewed DEF OrderInv
<1>2. CASE clockq = <<>>
  BY <1>2
<1>3. CASE clockq # <<>>
  <2>1. 1 \in 1 .. N /\ qkey[clockq[1]] > 0
    <3>1. qkey[Head(clockq)] > 0
      BY <1>3 DEF OrderInv, IInv, ClkInv, SleepTopAgrees
    <3> QED BY <1>3, <3>1, FirstSleeper
  <2>2. N \in Nat /\ IsSums(KeySum, clockq, qkey) /\ \A i \in 1 .. N : qkey[clockq[i]] \in Nat
    BY <1>1 DEF TimesView
  <2>3. KeySum[1] > 0
    <3>1. KeySum[1] = KeySum[1 - 1] + qkey[clockq[1]] /\ KeySum[0] = 0
      BY <2>1, <2>2 DEF IsSums
    <3> QED BY <2>1, <2>2, <3>1
  <2>4. \A i \in 1 .. N : KeySum[i] >= KeySum[1] /\ KeySum[i] \in Nat
    BY <2>1, <2>2, SumsGrow DEF IsSums
  <2> QED BY <2>1, <2>3, <2>4
<1> QED BY <1>2, <1>3

(* A tick of the clock counts one off the first key, and so off the time   *)
(* of every sleeper.                                                       *)
LEMMA TickTimers ==
    ASSUME OrderInv, IInv', Op = "none", slnempty, Op' \notin Walks,
           UNCHANGED <<clockq, pstate>>, qkey' = [qkey EXCEPT ![sltop] = @ - 1]
    PROVE  TimersStep
<1> DEFINE N == Len(clockq)
<1>1. IInv /\ clockq # <<>> /\ sltop = clockq[1] /\ qkey[clockq[1]] > 0 /\ 1 \in 1 .. N
  <2>1. IInv /\ clockq # <<>> /\ sltop = Head(clockq) /\ qkey[sltop] > 0
    BY DEF OrderInv, IInv, ClkInv, SleepTopAgrees
  <2> QED BY <2>1, FirstSleeper
<1>2. TimesView /\ TimesView' /\ Op' # "strtclk" /\ Op # "strtclk"
  BY <1>1, OutsideWalks, TimesViewed, TimesViewedNext DEF Walks
<1>3. /\ clockq \in Seq(Procs) /\ N \in Nat /\ IsSums(KeySum, clockq, qkey)
      /\ \A i \in 1 .. N : clockq[i] \in Procs /\ qkey[clockq[i]] \in Nat
  BY <1>2 DEF TimesView
<1>4. PICK g : g = KeySum'
  OBVIOUS
<1>5. IsSums(g, clockq, qkey')
  BY <1>2, <1>4 DEF TimesView
<1>6. \A i \in 1 + 1 .. N : qkey'[clockq[i]] = qkey[clockq[i]]
  <2>1. qkey \in [Procs -> Int] /\ DOMAIN clockq = 1 .. N /\ IsInjective(clockq)
    BY <1>1, <1>3, SchedTypes, LenProperties DEF Holds
  <2>2. \A i \in 2 .. N : clockq[i] # clockq[1]
    BY <1>1, <2>1 DEF IsInjective
  <2> QED BY <1>1, <1>3, <2>1, <2>2
<1>7. g[1] = KeySum[1] - 1 /\ KeySum[1] = qkey[clockq[1]]
  <2>1. qkey'[clockq[1]] = qkey[clockq[1]] - 1 /\ qkey[clockq[1]] \in Nat
    BY <1>1, <1>3, SchedTypes
  <2>2. KeySum[1] = KeySum[1 - 1] + qkey[clockq[1]] /\ KeySum[0] = 0
    BY <1>1, <1>3 DEF IsSums
  <2>3. g[1] = g[1 - 1] + qkey'[clockq[1]] /\ g[0] = 0
    BY <1>1, <1>5 DEF IsSums
  <2> QED BY <2>1, <2>2, <2>3
<1>8. \A i \in 1 .. N : g[i] = KeySum[i] - 1
  <2>1. KeysAgree(clockq, qkey, clockq, qkey', 1, N, 0) /\ Apart(KeySum, g, 1, 1, 0, -1)
    <3>1. KeySum[1] \in Nat
      BY <1>1, <1>3 DEF IsSums
    <3>2. Apart(KeySum, g, 1, 1, 0, -1)
      BY <1>7, <3>1 DEF Apart
    <3>3. KeysAgree(clockq, qkey, clockq, qkey', 1, N, 0)
      BY <1>1, <1>3, <1>6 DEF KeysAgree
    <3> QED BY <3>2, <3>3
  <2>2. Apart(KeySum, g, 1, N, 0, -1)
    BY <1>3, <1>5, <2>1, SumsAgree
  <2>3. \A i \in 1 .. N : KeySum[i] \in Nat /\ i + 0 = i
    BY <1>3 DEF IsSums
  <2> QED BY <2>2, <2>3 DEF Apart
<1>9. \A i \in 1 .. N : KeySum[i] > 0 /\ KeySum[i] \in Nat
  BY NobodyDue
<1>10. 1 \in 0 .. LongestTime
  BY LongestFacts
<1>11. ASSUME NEW i \in 1 .. N
       PROVE  /\ TimeAt(i) \in Nat /\ TimeAt(i) > 0
              /\ TimeAt(i)' = IF TimeAt(i) > 1 THEN TimeAt(i) - 1 ELSE 0
  <2>1. i \in 0 .. Len(clockq) /\ i \in 0 .. Len(clockq')
    BY <1>3
  <2>2. TimeAt(i) = KeySum[i] /\ TimeAt(i)' = g[i]
    BY <1>2, <1>4, <2>1, TimeAtSum, TimeAtSumNext
  <2> QED BY <1>8, <1>9, <2>2
<1>12. Timers!Next \/ lefts' = lefts
  BY <1>2, <1>10, <1>11, TimesPass
<1> QED BY <1>12, WalkOver DEF TimersStep

(* strtclk takes the deferred ticks off everybody's time at once ...       *)
LEMMA StrtClkTimers ==
    ASSUME OrderInv, IInv', StrtClk
    PROVE  TimersStep
<1>1. /\ IInv /\ Op = "none" /\ TabOK /\ currpid \in Procs
      /\ UNCHANGED <<pstate, qkey, clockq, currpid>>
  BY CallerFacts, OutOfKernelFacts DEF OrderInv, StrtClk
<1>2. CASE UNCHANGED kctx \/ Enter("strtclk_tail", 0, 0)
  <2>1. "strtclk_tail" \in KernelOps \ Walks
    BY DEF KernelOps, Walks
  <2>2. Op' \notin Walks /\ Op # "strtclk"
    BY <1>1, <1>2, <2>1, OutsideWalks, WalksLeft
  <2> QED BY <1>1, <2>2, SchedTimers
<1>3. CASE Enter("strtclk", 1, clkdiff)
  <2>1. clkdiff \in 0 .. MaxDiff /\ MaxDiff \in Nat
    BY ConstFacts DEF OrderInv, IInv, ClkInv, ClkTypeOK
  <2>2. Op' = "strtclk" /\ kctx'[currpid'].arg = 1 /\ kctx'[currpid'].n = clkdiff
    <3>1. "strtclk" \in KernelOps /\ 1 \in Int /\ clkdiff \in Int
      BY <2>1 DEF KernelOps
    <3> QED BY <1>1, <1>3, <3>1, EnterFacts DEF Op
  <2>3. TimersInv'
    BY <2>2 DEF TimersInv
  <2>4. TimesView /\ TimesView'
    BY <1>1, TimesViewed, TimesViewedNext
  <2>5. KeySum' = KeySum
    BY <1>1 DEF KeySum
  <2>6. clkdiff \in 0 .. LongestTime
    BY <2>1, LongestFacts
  <2>7. ASSUME NEW i \in 1 .. Len(clockq)
        PROVE  /\ TimeAt(i) \in Nat /\ TimeAt(i) > 0
               /\ TimeAt(i)' = IF TimeAt(i) > clkdiff THEN TimeAt(i) - clkdiff ELSE 0
    <3>1. TimeAt(i) = KeySum[i] /\ KeySum[i] \in Nat /\ KeySum[i] > 0
      <4>1. i \in 0 .. Len(clockq) /\ Op # "strtclk"
        BY <1>1, <2>4, OutsideWalks DEF TimesView
      <4> QED BY <1>1, <2>4, <4>1, TimeAtSum, NobodyDue
    <3>2. ToMakeUp(i)' = clkdiff
      BY <2>2 DEF ToMakeUp
    <3>3. TimeAt(i)' = IF KeySum[i] - clkdiff > 0 THEN KeySum[i] - clkdiff ELSE 0
      BY <2>5, <3>2 DEF TimeAt
    <3> QED BY <2>1, <3>1, <3>3
  <2>8. Timers!Next \/ lefts' = lefts
    BY <1>1, <2>4, <2>6, <2>7, TimesPass
  <2> QED BY <2>3, <2>8 DEF TimersStep
<1> QED BY <1>2, <1>3 DEF StrtClk

LEMMA ClkCallTimers ==
    ASSUME OrderInv, IInv', ClkCall \/ SleepNext \/ StopClkStore \/ ClkInt
    PROVE  TimersStep
<1>1. IInv
  BY DEF OrderInv
<1>2. ASSUME \/ \E n \in Seconds : Sleep(n)
             \/ StopClkLoad \/ StopClkStore
             \/ ClkInt /\ UNCHANGED qkey
      PROVE  TimersStep
  <2>1. Interruptible /\ UNCHANGED clockq
    BY <1>2, CallerFacts DEF Sleep, StopClkLoad, StopClkStore, ClkInt, clkVars
  <2>2. Op = "none"
    BY <1>1, <2>1, OutOfKernelFacts
  <2>3. UNCHANGED kctx \/ Enter("clkint", 0, 0) \/ Enter("wakeup_clkint", 0, 0)
    BY <1>2 DEF Sleep, StopClkLoad, StopClkStore, ClkInt
  <2>4. {"clkint", "wakeup_clkint"} \subseteq KernelOps \ Walks
    BY DEF KernelOps, Walks
  <2>5. Op' \notin Walks /\ Op # "strtclk"
    BY <1>1, <2>2, <2>3, <2>4, OutsideWalks, WalksLeft
  <2>6. UNCHANGED <<pstate, qkey>> \/ Resched(pstate, rdyq, qkey, pprio, preempt)
    BY <1>2 DEF Sleep, StopClkLoad, StopClkStore, ClkInt, schedVars, Yield
  <2> QED BY <1>1, <2>1, <2>5, <2>6, SchedTimers
<1>3. CASE ClkInt /\ ~UNCHANGED qkey
  <2>1. /\ Op = "none" /\ slnempty /\ UNCHANGED <<clockq, pstate>>
        /\ qkey' = [qkey EXCEPT ![sltop] = @ - 1]
        /\ Enter("clkint", 0, 0) \/ Enter("wakeup_clkint", 0, 0)
    BY <1>1, <1>3, OutOfKernelFacts DEF ClkInt
  <2>2. {"clkint", "wakeup_clkint"} \subseteq KernelOps \ Walks
    BY DEF KernelOps, Walks
  <2>3. Op' \notin Walks
    BY <1>1, <2>1, <2>2, WalksLeft
  <2> QED BY <2>1, <2>3, TickTimers
<1> QED BY <1>2, <1>3, SleepNextTimers, StrtClkTimers DEF ClkCall

LEMMA InsertdWalkTimers ==
    ASSUME OrderInv, TimersInv, IInv', InsertdWalk
    PROVE  TimersStep
<1> DEFINE i == kctx[currpid].arg
           n == kctx[currpid].n
           m == n - qkey[clockq[i]]
<1>1. /\ IInv /\ Op = "insertd" /\ ClkInv /\ TabOK /\ currpid \in Procs
      /\ UNCHANGED <<pstate, qkey, clockq, currpid>>
      /\ i <= Len(clockq) /\ Enter("insertd", i + 1, m)
  BY SectionFacts DEF OrderInv, InsertdWalk, IInv, schedVars, clkVars
<1>2. TimesView /\ TimesView'
  BY <1>1, TimesViewed, TimesViewedNext
<1>3. i \in 1 .. Len(clockq) /\ n \in Int /\ qkey[clockq[i]] \in Nat
  <2>1. i \in 1 .. Len(clockq) + 1 /\ Len(clockq) \in Nat /\ n \in Int
    BY <1>1, <1>2 DEF ClkInv, ClkSection, TabOK, TimesView
  <2>2. i \in 1 .. Len(clockq)
    BY <1>1, <2>1
  <2> QED BY <1>2, <2>1, <2>2 DEF TimesView
<1>4. KeySum[i - 1] + n \in 1 .. LongestTime
  BY <1>1 DEF TimersInv
<1> HIDE DEF i, n
<1>5. i + 1 \in Int /\ m \in Int /\ (i + 1) - 1 = i
  BY <1>3
<1> HIDE DEF m
<1>6. Op' = "insertd" /\ kctx'[currpid'].arg = i + 1 /\ kctx'[currpid'].n = m
  <2>1. "insertd" \in KernelOps
    BY DEF KernelOps
  <2> QED BY <1>1, <1>5, <2>1, EnterFacts DEF Op
<1>7. KeySum' = KeySum
  BY <1>1 DEF KeySum
<1>8. KeySum[i] + m \in 1 .. LongestTime
  <2>1. KeySum[i] = KeySum[i - 1] + qkey[clockq[i]] /\ KeySum[i - 1] \in Nat
    <3>1. i - 1 \in 0 .. Len(clockq)
      BY <1>3
    <3> QED BY <1>2, <1>3, <3>1 DEF TimesView, IsSums
  <2> QED BY <1>3, <1>4, <2>1, LongestFacts DEF m
<1>9. TimersInv'
  <2>1. KeySum'[kctx'[currpid'].arg - 1] + kctx'[currpid'].n \in 1 .. LongestTime
    BY <1>5, <1>6, <1>7, <1>8
  <2> QED BY <1>6, <2>1 DEF TimersInv
<1>10. lefts' = lefts
  <2>1. ClkKept /\ FreeKept /\ Op # "strtclk" /\ Op' # "strtclk"
    BY <1>1, <1>6 DEF ClkKept, FreeKept
  <2> QED BY <1>1, <1>2, <2>1, TimesFrame
<1> QED BY <1>9, <1>10 DEF TimersStep

(* The place strtclk has reached: all keys before it are zero.             *)
LEMMA StrtClkPlace ==
    ASSUME OrderInv, TimersInv, At("strtclk")
    PROVE  LET i == kctx[currpid].arg
               n == kctx[currpid].n
           IN  /\ Op = "strtclk" /\ TimesView /\ TabOK /\ currpid \in Procs
               /\ i \in 1 .. Len(clockq) + 1 /\ n \in Nat
               /\ \A j \in 1 .. i - 1 : qkey[clockq[j]] = 0
               /\ \A j \in 0 .. i - 1 : KeySum[j] = 0
               /\ \A j \in 1 .. Len(clockq) :
                     TimeAt(j) = IF j < i THEN 0
                                 ELSE IF KeySum[j] > n THEN KeySum[j] - n ELSE 0
<1> DEFINE i == kctx[currpid].arg
           n == kctx[currpid].n
<1>1. /\ IInv /\ Op = "strtclk" /\ TabOK /\ currpid \in Procs /\ ClkInv
  BY SectionFacts DEF OrderInv, IInv
<1>2. TimesView
  BY <1>1, TimesViewed
<1>3. i \in 1 .. Len(clockq) + 1 /\ n \in Nat /\ Len(clockq) \in Nat
  <2>1. n \in Int
    BY <1>1 DEF TabOK
  <2> QED BY <1>1, <1>2, <2>1 DEF ClkInv, ClkSection, TimesView
<1>4. \A j \in 1 .. i - 1 : qkey[clockq[j]] = 0
  BY <1>1 DEF TimersInv
<1>5. \A j \in 1 .. Len(clockq) :
          ToMakeUp(j) = IF i <= j THEN n ELSE 0
  BY <1>1 DEF ToMakeUp
<1> HIDE DEF i, n
<1>6. \A j \in 0 .. i - 1 : KeySum[j] = 0
  <2>1. i - 1 \in 0 .. Len(clockq) /\ IsSums(KeySum, clockq, qkey)
    BY <1>2, <1>3 DEF TimesView
  <2> QED BY <1>3, <1>4, <2>1, SumsZero
<1>7. ASSUME NEW j \in 1 .. Len(clockq)
      PROVE  TimeAt(j) = IF j < i THEN 0
                         ELSE IF KeySum[j] > n THEN KeySum[j] - n ELSE 0
  <2>1. KeySum[j] \in Nat
    BY <1>2, <1>3 DEF TimesView, IsSums
  <2>2. TimeAt(j) = IF KeySum[j] - ToMakeUp(j) > 0 THEN KeySum[j] - ToMakeUp(j) ELSE 0
    BY DEF TimeAt
  <2>3. CASE j < i
    <3>1. j \in 0 .. i - 1 /\ ~(i <= j)
      BY <1>3, <2>3
    <3>2. KeySum[j] = 0 /\ ToMakeUp(j) = 0
      BY <1>5, <1>6, <3>1
    <3> QED BY <2>2, <2>3, <3>2
  <2>4. CASE ~(j < i)
    <3>1. ToMakeUp(j) = n
      BY <1>3, <1>5, <2>4
    <3> QED BY <1>3, <2>1, <2>2, <2>4, <3>1
  <2> QED BY <2>3, <2>4
<1> QED BY <1>1, <1>2, <1>3, <1>4, <1>6, <1>7 DEF i, n

(* What becomes of the sums when strtclk gives the entry it has reached    *)
(* the key v.                                                              *)
LEMMA StrtClkSums ==
    ASSUME OrderInv, TimersInv, At("strtclk"), TimesView', clockq' = clockq,
           kctx[currpid].arg <= Len(clockq), NEW v \in Int,
           qkey' = [qkey EXCEPT ![clockq[kctx[currpid].arg]] = v]
    PROVE  LET i == kctx[currpid].arg
               d == v - qkey[clockq[i]]
           IN  /\ i \in 1 .. Len(clockq) /\ qkey[clockq[i]] \in Nat
               /\ KeySum[i] = qkey[clockq[i]]
               /\ qkey'[clockq[i]] = v
               /\ \A j \in 1 .. i - 1 : qkey'[clockq[j]] = 0
               /\ \A j \in 0 .. i - 1 : KeySum'[j] = 0
               /\ \A j \in i .. Len(clockq) :
                     /\ KeySum[j] \in Nat /\ KeySum[j] >= KeySum[i]
                     /\ KeySum'[j] = KeySum[j] + d
<1> DEFINE i == kctx[currpid].arg
           N == Len(clockq)
           d == v - qkey[clockq[i]]
<1>1. /\ TimesView /\ i \in 1 .. N + 1
      /\ \A j \in 1 .. i - 1 : qkey[clockq[j]] = 0
      /\ KeySum[i - 1] = 0
  <2>1. /\ TimesView /\ i \in 1 .. N + 1
        /\ \A j \in 1 .. i - 1 : qkey[clockq[j]] = 0
        /\ \A j \in 0 .. i - 1 : KeySum[j] = 0
    BY StrtClkPlace
  <2>2. i - 1 \in 0 .. i - 1
    BY <2>1
  <2> QED BY <2>1, <2>2
<1>2. /\ clockq \in Seq(Procs) /\ N \in Nat /\ IsSums(KeySum, clockq, qkey)
      /\ \A j \in 1 .. N : clockq[j] \in Procs /\ qkey[clockq[j]] \in Nat
  BY <1>1 DEF TimesView
<1>3. i \in 1 .. N /\ i - 1 \in 0 .. N
  BY <1>1, <1>2
<1>4. PICK g : g = KeySum'
  OBVIOUS
<1>5. IsSums(g, clockq, qkey')
  BY <1>4 DEF TimesView
<1>6. /\ qkey'[clockq[i]] = v
      /\ \A j \in 1 .. N : j # i => qkey'[clockq[j]] = qkey[clockq[j]]
  <2>1. qkey \in [Procs -> Int] /\ DOMAIN clockq = 1 .. N /\ IsInjective(clockq)
    BY <1>2, SchedTypes, LenProperties DEF Holds, OrderInv
  <2>2. \A j \in 1 .. N : j # i => clockq[j] # clockq[i]
    BY <1>3, <2>1 DEF IsInjective
  <2> QED BY <1>2, <1>3, <2>1, <2>2
<1> HIDE DEF i
<1>7. \A j \in 1 .. i - 1 : qkey'[clockq[j]] = 0
  <2>1. \A j \in 1 .. i - 1 : j \in 1 .. N /\ j # i
    BY <1>2, <1>3
  <2> QED BY <1>1, <1>6, <2>1
<1>8. \A j \in 0 .. i - 1 : g[j] = 0
  BY <1>2, <1>3, <1>5, <1>7, SumsZero
<1>9. KeySum[i] = qkey[clockq[i]] /\ g[i] = v
  <2>1. KeySum[i] = KeySum[i - 1] + qkey[clockq[i]] /\ g[i] = g[i - 1] + qkey'[clockq[i]]
    BY <1>2, <1>3, <1>5 DEF IsSums
  <2>2. g[i - 1] = 0
    <3>1. i - 1 \in 0 .. i - 1
      BY <1>3
    <3> QED BY <1>8, <3>1
  <2>3. qkey[clockq[i]] \in Nat
    BY <1>2, <1>3
  <2> QED BY <1>1, <1>6, <2>1, <2>2, <2>3
<1>10. \A j \in i .. N : g[j] = KeySum[j] + d
  <2>1. qkey[clockq[i]] \in Nat
    BY <1>2, <1>3
  <2>2. d \in Int /\ Apart(KeySum, g, i, i, 0, d)
    BY <1>3, <1>9, <2>1 DEF Apart
  <2>3. KeysAgree(clockq, qkey, clockq, qkey', i, N, 0)
    BY <1>2, <1>3, <1>6 DEF KeysAgree
  <2> HIDE DEF d
  <2>4. Apart(KeySum, g, i, N, 0, d)
    BY <1>2, <1>5, <2>2, <2>3, SumsAgree
  <2>5. \A j \in i .. N : j + 0 = j
    BY <1>3
  <2> QED BY <2>4, <2>5 DEF Apart
<1>11. \A j \in i .. N : KeySum[j] \in Nat /\ KeySum[j] >= KeySum[i]
  <2>1. i \in 0 .. N /\ \A j \in i .. N : j \in 0 .. N
    BY <1>3
  <2> QED BY <1>2, <2>1, SumsGrow DEF IsSums
<1> QED BY <1>2, <1>3, <1>4, <1>6, <1>7, <1>8, <1>9, <1>10, <1>11 DEF i

(* ... and its walk, that brings the keys in line with that, changes       *)
(* nobody's time.                                                          *)
LEMMA StrtClkWalkTimers ==
    ASSUME OrderInv, TimersInv, IInv', StrtClkWalk
    PROVE  TimersStep
<1> DEFINE i == kctx[currpid].arg
           n == kctx[currpid].n
           m == n - qkey[clockq[i]]
<1>1. /\ At("strtclk") /\ UNCHANGED <<pstate, clockq, currpid>>
      /\ i <= Len(clockq) /\ qkey[clockq[i]] < n /\ Enter("strtclk", i + 1, m)
      /\ qkey' = [qkey EXCEPT ![clockq[i]] = 0]
      /\ TimesView'
  BY TimesViewedNext DEF StrtClkWalk, clkVars
<1>2. /\ TimesView /\ TabOK /\ currpid \in Procs /\ n \in Nat
      /\ \A j \in 1 .. Len(clockq) :
            TimeAt(j) = IF j < i THEN 0
                        ELSE IF KeySum[j] > n THEN KeySum[j] - n ELSE 0
  BY <1>1, StrtClkPlace
<1>3. /\ i \in 1 .. Len(clockq) /\ qkey[clockq[i]] \in Nat
      /\ KeySum[i] = qkey[clockq[i]]
      /\ qkey'[clockq[i]] = 0
      /\ \A j \in 1 .. i - 1 : qkey'[clockq[j]] = 0
      /\ \A j \in 0 .. i - 1 : KeySum'[j] = 0
      /\ \A j \in i .. Len(clockq) :
            /\ KeySum[j] \in Nat /\ KeySum[j] >= KeySum[i]
            /\ KeySum'[j] = KeySum[j] + (0 - qkey[clockq[i]])
  <2>1. 0 \in Int
    OBVIOUS
  <2> QED BY <1>1, <2>1, StrtClkSums
<1>4. Op' = "strtclk" /\ kctx'[currpid'].arg = i + 1 /\ kctx'[currpid'].n = m
  <2>1. "strtclk" \in KernelOps
    BY DEF KernelOps
  <2>2. i + 1 \in Int /\ m \in Int
    BY <1>2, <1>3
  <2> HIDE DEF i, m
  <2> QED BY <1>1, <1>2, <2>1, <2>2, EnterFacts DEF Op
<1> HIDE DEF i, n
<1>5. TimersInv'
  <2>1. \A j \in 1 .. (i + 1) - 1 : j \in 1 .. i - 1 \/ j = i
    BY <1>3
  <2>2. \A j \in 1 .. kctx'[currpid'].arg - 1 : qkey'[clockq'[j]] = 0
    BY <1>1, <1>3, <1>4, <2>1
  <2> QED BY <1>4, <2>2 DEF TimersInv
<1>6. ASSUME NEW j \in 1 .. Len(clockq)
      PROVE  /\ TimeAt(j) \in Nat
             /\ TimeAt(j)' = IF TimeAt(j) > 0 THEN TimeAt(j) - 0 ELSE 0
  <2>1. PICK h : h = KeySum'[j]
    OBVIOUS
  <2>2. TimeAt(j)' = IF h - ToMakeUp(j)' > 0 THEN h - ToMakeUp(j)' ELSE 0
    BY <2>1 DEF TimeAt
  <2>3. ToMakeUp(j)' = IF i + 1 <= j THEN m ELSE 0
    BY <1>4 DEF ToMakeUp
  <2>4. j < i => h = 0
    <3>1. j < i => j \in 0 .. i - 1
      BY <1>3
    <3> QED BY <1>3, <2>1, <3>1
  <2>5. j >= i => KeySum[j] \in Nat /\ KeySum[j] >= KeySum[i] /\ h = KeySum[j] - qkey[clockq[i]]
    <3>1. j >= i => j \in i .. Len(clockq)
      BY <1>3
    <3>2. j >= i => /\ KeySum[j] \in Nat /\ KeySum[j] >= KeySum[i]
                    /\ h = KeySum[j] + (0 - qkey[clockq[i]])
      BY <1>3, <2>1, <3>1
    <3> QED BY <1>3, <3>2
  <2>6. TimeAt(j) = IF j < i THEN 0
                    ELSE IF KeySum[j] > n THEN KeySum[j] - n ELSE 0
    BY <1>2
  <2>7. CASE j < i
    <3>1. TimeAt(j) = 0 /\ TimeAt(j)' = 0
      BY <1>3, <2>2, <2>3, <2>4, <2>6, <2>7
    <3> QED BY <3>1
  <2>8. CASE j = i
    <3>1. TimeAt(j) = 0 /\ TimeAt(j)' = 0
      BY <1>1, <1>2, <1>3, <2>2, <2>3, <2>5, <2>6, <2>8 DEF i, n
    <3> QED BY <3>1
  <2>9. CASE j > i
    <3>1. i + 1 <= j /\ j >= i /\ ~(j < i)
      BY <1>3, <2>9
    <3>2. ToMakeUp(j)' = m /\ h - m = KeySum[j] - n /\ h - m \in Int
      BY <1>2, <1>3, <2>3, <2>5, <3>1
    <3>3. TimeAt(j)' = IF KeySum[j] - n > 0 THEN KeySum[j] - n ELSE 0
      BY <2>2, <3>2
    <3>4. TimeAt(j) = IF KeySum[j] > n THEN KeySum[j] - n ELSE 0
      BY <2>6, <3>1
    <3> QED BY <1>2, <2>5, <3>1, <3>3, <3>4
  <2> QED BY <1>3, <2>7, <2>8, <2>9
<1>7. Timers!Next \/ lefts' = lefts
  <2>1. 0 \in 0 .. LongestTime
    BY LongestFacts
  <2> QED BY <1>1, <1>2, <1>6, <2>1, TimesPass
<1> QED BY <1>5, <1>7 DEF TimersStep

LEMMA StrtClkWalkDoneTimers ==
    ASSUME OrderInv, TimersInv, IInv', StrtClkWalkDone
    PROVE  TimersStep
<1> DEFINE i == kctx[currpid].arg
           n == kctx[currpid].n
           N == Len(clockq)
<1>1. /\ At("strtclk") /\ UNCHANGED <<pstate, clockq, currpid>>
      /\ Enter("wakeup_strtclk", 0, 0) /\ TimesView'
      /\ \/ i > N /\ UNCHANGED qkey
         \/ /\ i <= N /\ qkey[clockq[i]] >= n
            /\ qkey' = [qkey EXCEPT ![clockq[i]] = @ - n]
  BY TimesViewedNext DEF StrtClkWalkDone, clkVars
<1>2. /\ TimesView /\ TabOK /\ currpid \in Procs /\ n \in Nat
      /\ i \in 1 .. N + 1
      /\ \A j \in 0 .. i - 1 : KeySum[j] = 0
      /\ \A j \in 1 .. N :
            TimeAt(j) = IF j < i THEN 0
                        ELSE IF KeySum[j] > n THEN KeySum[j] - n ELSE 0
  BY <1>1, StrtClkPlace
<1>3. Op' \notin Walks /\ Op' # "strtclk"
  <2>1. "wakeup_strtclk" \in KernelOps \ Walks /\ IInv
    BY DEF KernelOps, Walks, OrderInv
  <2>2. Op' \notin Walks
    BY <1>1, <2>1, WalksLeft
  <2> QED BY <2>2 DEF Walks
<1>4. PICK g : g = KeySum'
  OBVIOUS
<1>5. \A j \in 1 .. N : g[j] \in Nat /\ TimeAt(j)' = g[j]
  <2>1. \A j \in 1 .. N : j \in 0 .. Len(clockq')
    BY <1>1, <1>2 DEF TimesView
  <2> QED BY <1>1, <1>3, <1>4, <2>1, TimeAtSumNext
<1>6. ASSUME NEW j \in 1 .. N
      PROVE  g[j] = IF j < i THEN 0
                    ELSE IF KeySum[j] > n THEN KeySum[j] - n ELSE 0
  <2>1. CASE i > N /\ UNCHANGED qkey
    <3>1. KeySum' = KeySum
      BY <1>1, <2>1 DEF KeySum
    <3>2. j < i /\ j \in 0 .. i - 1
      BY <1>2, <2>1 DEF TimesView
    <3> QED BY <1>2, <1>4, <3>1, <3>2
  <2>2. CASE /\ i <= N /\ qkey[clockq[i]] >= n
             /\ qkey' = [qkey EXCEPT ![clockq[i]] = @ - n]
    <3> DEFINE v == qkey[clockq[i]] - n
    <3>1. i \in 1 .. N /\ qkey[clockq[i]] \in Nat /\ v \in Int
      <4>1. i \in 1 .. N
        BY <1>2, <2>2 DEF TimesView
      <4> QED BY <1>2, <4>1 DEF TimesView
    <3>2. qkey' = [qkey EXCEPT ![clockq[i]] = v]
      BY <2>2
    <3> HIDE DEF v
    <3>3. /\ KeySum[i] = qkey[clockq[i]]
          /\ \A l \in 0 .. i - 1 : KeySum'[l] = 0
          /\ \A l \in i .. N : /\ KeySum[l] \in Nat /\ KeySum[l] >= KeySum[i]
                               /\ KeySum'[l] = KeySum[l] + (v - qkey[clockq[i]])
      BY <1>1, <2>2, <3>1, <3>2, StrtClkSums
    <3> HIDE DEF i, n
    <3>4. CASE j < i
      <4>1. j \in 0 .. i - 1
        BY <3>1, <3>4
      <4> QED BY <1>4, <3>3, <3>4, <4>1
    <3>5. CASE ~(j < i)
      <4>1. j \in i .. N
        BY <3>1, <3>5
      <4>2. KeySum[j] \in Nat /\ KeySum[j] >= KeySum[i] /\ g[j] = KeySum[j] + (v - qkey[clockq[i]])
        BY <1>4, <3>3, <4>1
      <4>3. g[j] = KeySum[j] - n /\ KeySum[j] >= n
        BY <1>2, <2>2, <3>1, <3>3, <4>2 DEF v
      <4> QED BY <1>2, <3>5, <4>2, <4>3
    <3> QED BY <3>4, <3>5
  <2> QED BY <1>1, <2>1, <2>2
<1> HIDE DEF i, n
<1>7. ASSUME NEW j \in 1 .. N
      PROVE  /\ TimeAt(j) \in Nat
             /\ TimeAt(j)' = IF TimeAt(j) > 0 THEN TimeAt(j) - 0 ELSE 0
  <2>1. TimeAt(j) = g[j] /\ TimeAt(j)' = g[j] /\ g[j] \in Nat
    BY <1>2, <1>5, <1>6
  <2> QED BY <2>1
<1>8. Timers!Next \/ lefts' = lefts
  <2>1. 0 \in 0 .. LongestTime
    BY LongestFacts
  <2> QED BY <1>1, <1>2, <1>7, <2>1, TimesPass
<1> QED BY <1>3, <1>8, WalkOver DEF TimersStep

-----------------------------------------------------------------------------
(* A sleeper leaves the queue, or a process joins it.                      *)

StatesKeptBut(w) ==
    \A p \in Procs \ {w} :
        /\ pstate'[p] = "PRFREE" <=> pstate[p] = "PRFREE"
        /\ pstate'[p] = "PRSLEEP" <=> pstate[p] = "PRSLEEP"

LEMMA SleeperGone ==
    ASSUME TimesView, TimesView', Op # "strtclk", Op' # "strtclk",
           NEW r, LessOne(clockq', qkey', clockq, qkey, r),
           StatesKeptBut(clockq[r])
    PROVE  /\ \A p \in Procs \ {clockq[r]} : Left(p)' = Left(p)
           /\ r \in 1 .. Len(clockq) /\ Left(clockq[r]) = KeySum[r]
<1> DEFINE N == Len(clockq)
<1>1. PICK g, dq, l : g = KeySum' /\ dq = clockq' /\ l = qkey'
  OBVIOUS
<1>2. /\ IsSums(KeySum, clockq, qkey) /\ IsSums(g, dq, l) /\ LessOne(dq, l, clockq, qkey, r)
      /\ N \in Nat /\ r \in 1 .. N /\ Len(dq) = N - 1
      /\ \A j \in 1 .. Len(dq) : dq[j] = IF j < r THEN clockq[j] ELSE clockq[j + 1]
  BY <1>1 DEF TimesView, LessOne
<1>3. /\ \A j \in 0 .. r - 1 : g[j] = KeySum[j]
      /\ \A j \in r + 1 .. N : g[j - 1] = KeySum[j]
  BY <1>2, SumsLessOne
<1>4. \A j \in 1 .. N : Left(clockq[j]) = KeySum[j]
  <2>1. \A j \in 1 .. N : j \in 0 .. Len(clockq)
    BY <1>2
  <2>2. \A j \in 1 .. N : Left(clockq[j]) = TimeAt(j)
    BY DEF TimesView
  <2> QED BY <2>1, <2>2, TimeAtSum
<1>5. \A j \in 1 .. Len(dq) : Left(dq[j])' = g[j]
  <2>1. \A j \in 1 .. Len(dq) : j \in 0 .. Len(clockq') /\ j \in 1 .. Len(clockq')
    BY <1>1, <1>2
  <2>2. ASSUME NEW j \in 1 .. Len(dq) PROVE Left(dq[j])' = TimeAt(j)'
    <3>1. PICK p : p = dq[j]
      OBVIOUS
    <3>2. Left(p)' = TimeAt(j)'
      BY <1>1, <3>1 DEF TimesView
    <3> QED BY <3>1, <3>2
  <2> QED BY <1>1, <2>1, <2>2, TimeAtSumNext
<1>6. ASSUME NEW p \in Procs \ {clockq[r]} PROVE Left(p)' = Left(p)
  <2>1. CASE pstate[p] = "PRFREE"
    BY <2>1 DEF StatesKeptBut, TimesView
  <2>2. CASE pstate[p] \notin {"PRFREE", "PRSLEEP"}
    BY <2>2 DEF StatesKeptBut, TimesView
  <2>3. CASE pstate[p] = "PRSLEEP"
    <3>1. PICK j \in 1 .. N : clockq[j] = p
      BY <2>3 DEF TimesView
    <3>2. CASE j < r
      <4>1. j \in 1 .. Len(dq) /\ dq[j] = p /\ j \in 0 .. r - 1
        BY <1>2, <3>1, <3>2
      <4> QED BY <1>3, <1>4, <1>5, <3>1, <4>1
    <3>3. CASE j > r
      <4>1. j \in r + 1 .. N /\ j - 1 \in 1 .. Len(dq) /\ ~(j - 1 < r) /\ (j - 1) + 1 = j
        BY <1>2, <3>3
      <4>2. dq[j - 1] = p
        BY <1>2, <3>1, <4>1
      <4> QED BY <1>3, <1>4, <1>5, <3>1, <4>1, <4>2
    <3>4. j # r
      BY <3>1
    <3> QED BY <1>2, <3>2, <3>3, <3>4
  <2> QED BY <2>1, <2>2, <2>3
<1> QED BY <1>2, <1>4, <1>6

LEMMA SleeperNew ==
    ASSUME TimesView, TimesView', Op # "strtclk", Op' # "strtclk",
           NEW r, LessOne(clockq, qkey, clockq', qkey', r),
           NEW w \in Procs, clockq'[r] = w, StatesKeptBut(w)
    PROVE  /\ \A p \in Procs \ {w} : Left(p)' = Left(p)
           /\ Left(w)' = KeySum[r - 1] + qkey'[w]
<1> DEFINE N == Len(clockq)
<1>1. PICK g, dq, l : g = KeySum' /\ dq = clockq' /\ l = qkey'
  OBVIOUS
<1>2. /\ IsSums(KeySum, clockq, qkey) /\ IsSums(g, dq, l) /\ LessOne(clockq, qkey, dq, l, r)
      /\ N \in Nat /\ r \in 1 .. Len(dq) /\ Len(dq) = N + 1
      /\ \A j \in 1 .. N : clockq[j] = IF j < r THEN dq[j] ELSE dq[j + 1]
  BY <1>1 DEF TimesView, LessOne
<1>3. /\ \A j \in 0 .. r - 1 : KeySum[j] = g[j]
      /\ \A j \in r + 1 .. Len(dq) : KeySum[j - 1] = g[j]
  BY <1>2, SumsLessOne
<1>4. \A j \in 1 .. N : Left(clockq[j]) = KeySum[j]
  <2>1. \A j \in 1 .. N : j \in 0 .. Len(clockq)
    BY <1>2
  <2>2. \A j \in 1 .. N : Left(clockq[j]) = TimeAt(j)
    BY DEF TimesView
  <2> QED BY <2>1, <2>2, TimeAtSum
<1>5. \A j \in 1 .. Len(dq) : Left(dq[j])' = g[j]
  <2>1. \A j \in 1 .. Len(dq) : j \in 0 .. Len(clockq') /\ j \in 1 .. Len(clockq')
    BY <1>1, <1>2
  <2>2. ASSUME NEW j \in 1 .. Len(dq) PROVE Left(dq[j])' = TimeAt(j)'
    <3>1. PICK p : p = dq[j]
      OBVIOUS
    <3>2. Left(p)' = TimeAt(j)'
      BY <1>1, <3>1 DEF TimesView
    <3> QED BY <3>1, <3>2
  <2> QED BY <1>1, <2>1, <2>2, TimeAtSumNext
<1>6. ASSUME NEW p \in Procs \ {w} PROVE Left(p)' = Left(p)
  <2>1. CASE pstate[p] = "PRFREE"
    BY <2>1 DEF StatesKeptBut, TimesView
  <2>2. CASE pstate[p] \notin {"PRFREE", "PRSLEEP"}
    BY <2>2 DEF StatesKeptBut, TimesView
  <2>3. CASE pstate[p] = "PRSLEEP"
    <3>1. PICK j \in 1 .. N : clockq[j] = p
      BY <2>3 DEF TimesView
    <3>2. CASE j < r
      <4>1. j \in 1 .. Len(dq) /\ dq[j] = p /\ j \in 0 .. r - 1
        BY <1>2, <3>1, <3>2
      <4> QED BY <1>3, <1>4, <1>5, <3>1, <4>1
    <3>3. CASE j >= r
      <4>1. j + 1 \in r + 1 .. Len(dq) /\ j + 1 \in 1 .. Len(dq) /\ (j + 1) - 1 = j
        BY <1>2, <3>3
      <4>2. dq[j + 1] = p
        BY <1>2, <3>1, <3>3
      <4> QED BY <1>3, <1>4, <1>5, <3>1, <4>1, <4>2
    <3> QED BY <1>2, <3>2, <3>3
  <2> QED BY <2>1, <2>2, <2>3
<1>7. Left(w)' = KeySum[r - 1] + l[w]
  <2>1. g[r] = g[r - 1] + l[dq[r]] /\ r - 1 \in 0 .. r - 1
    BY <1>2 DEF IsSums
  <2>2. Left(dq[r])' = g[r] /\ dq[r] = w
    BY <1>1, <1>2, <1>5
  <2>3. Left(w)' = g[r]
    BY <2>2
  <2> QED BY <1>3, <2>1, <2>2, <2>3
<1> QED BY <1>1, <1>6, <1>7

LEMMA WakeupFirstTimers ==
    ASSUME OrderInv, IInv', WakeupFirst
    PROVE  TimersStep
<1>0. PICK w : w = clockq[1]
  OBVIOUS
<1>1. PICK op \in {"wakeup_clkint", "wakeup_strtclk"} : At(op)
  BY DEF WakeupFirst
<1>2. /\ IInv /\ Op = op /\ Op \notin Walks /\ UNCHANGED kctx
      /\ clockq # <<>> /\ FirstKey(clockq, qkey) <= 0
      /\ clockq' = Tail(clockq) /\ ReadyNoResched(Head(clockq))
  BY <1>1, InsideFacts DEF WakeupFirst, OrderInv, Walks
<1>3. /\ w = Head(clockq) /\ 1 \in 1 .. Len(clockq) /\ w \in Procs
      /\ pstate[w] = "PRSLEEP" /\ TimesView /\ TimesView'
      /\ SchedOKNow /\ pprio \in [Procs -> Int]
  BY <1>0, <1>2, FirstSleeper, SchedTypes, StagedNow, TimesViewed, TimesViewedNext
<1>4. Op' \notin Walks /\ Op # "strtclk" /\ Op' # "strtclk"
  <2>1. Op' \notin Walks
    BY <1>2, WalksLeft
  <2> QED BY <1>2, <2>1 DEF Walks
<1>5. qkey[w] = 0
  <2>1. qkey[w] <= 0 /\ qkey[w] \in Nat
    BY <1>2, <1>3 DEF FirstKey, TimesView
  <2> QED BY <2>1
<1>6. /\ Len(clockq) \in Nat /\ Len(clockq') = Len(clockq) - 1
      /\ \A i \in 1 .. Len(clockq') : clockq'[i] = clockq[i + 1]
      /\ \A i \in 1 .. Len(clockq) : qkey[clockq[i]] \in Nat /\ clockq[i] \in Procs
      /\ \A i \in 1 .. Len(clockq) : pstate[clockq[i]] = "PRSLEEP"
  BY <1>2, <1>3, HeadTailProperties DEF TimesView
<1>7. /\ pstate'[w] = "PRREADY" /\ \A p \in Procs \ {w} : Kept(p)
  BY <1>2, <1>3, ReadyNoReschedStep DEF Runnable
<1>8. StatesKeptBut(w)
  BY <1>7 DEF StatesKeptBut, Kept, Runnable
<1>9. \A i \in 1 .. Len(clockq) : i # 1 => qkey'[clockq[i]] = qkey[clockq[i]]
  <2>1. IsInjective(clockq) /\ DOMAIN clockq = 1 .. Len(clockq)
    BY <1>2, SchedTypes, LenProperties DEF Holds
  <2>2. \A i \in 1 .. Len(clockq) : i # 1 => clockq[i] # w
    BY <1>0, <1>3, <2>1 DEF IsInjective
  <2> QED BY <1>6, <1>7, <2>2 DEF Kept, Runnable
<1>10. LessOne(clockq', qkey', clockq, qkey, 1)
  <2>1. \A j \in 1 .. Len(clockq') : ~(j < 1)
    OBVIOUS
  <2>2. \A j \in 1 .. Len(clockq) :
            /\ j \notin {1, 1 + 1} => qkey'[clockq[j]] = qkey[clockq[j]]
            /\ j = 1 + 1 => qkey'[clockq[j]] = qkey[clockq[1]] + qkey[clockq[j]]
    BY <1>0, <1>5, <1>6, <1>9
  <2> QED BY <1>3, <1>6, <2>1, <2>2 DEF LessOne
<1>11. Left(w) = 0 /\ Left(w)' = -1 /\ \A p \in Procs \ {w} : Left(p)' = Left(p)
  <2>1. /\ Left(w) = KeySum[1]
        /\ \A p \in Procs \ {w} : Left(p)' = Left(p)
    BY <1>0, <1>3, <1>4, <1>8, <1>10, SleeperGone
  <2>2. KeySum[1] = KeySum[1 - 1] + qkey[clockq[1]] /\ KeySum[0] = 0
    BY <1>3 DEF TimesView, IsSums
  <2>3. Left(w)' = -1
    BY <1>3, <1>7 DEF TimesView
  <2> QED BY <1>0, <1>5, <2>1, <2>2, <2>3
<1>12. Timers!Next
  BY <1>3, <1>11, TimersOne
<1> QED BY <1>4, <1>12, WalkOver DEF TimersStep

LEMMA KillSleepingTimers ==
    ASSUME OrderInv, IInv', NEW pid \in PidArgs, Kill(pid), KillSleeping(pid)
    PROVE  TimersStep
<1> DEFINE N == Len(clockq)
<1>1. /\ IInv /\ Op = "none" /\ pid \in Procs /\ pstate[pid] = "PRSLEEP"
      /\ kctx' = [kctx EXCEPT ![pid] = OutOfKernel]
      /\ qkey' = [p \in Procs |-> IF p \in Successors(pid)
                                  THEN qkey[p] + qkey[pid] ELSE qkey[p]]
      /\ clockq' = Dequeue(clockq, pid)
      /\ pstate' = [pstate EXCEPT ![pid] = "PRFREE"]
  BY KillFacts DEF OrderInv, Kill, KillSleeping
<1>2. TimesView /\ TimesView' /\ pstate \in [Procs -> States]
  BY <1>1, TimesViewed, TimesViewedNext, SchedTypes
<1>3. Op' \notin Walks /\ Op # "strtclk" /\ Op' # "strtclk"
  <2>1. Op' \notin Walks
    BY <1>1, OutsideWalks, WalksLeft
  <2> QED BY <1>1, <2>1, OutsideWalks DEF Walks
<1>4. /\ clockq \in Seq(Procs) /\ N \in Nat /\ DOMAIN clockq = 1 .. N
      /\ \A i, j \in 1 .. N : clockq[i] = clockq[j] => i = j
      /\ \A j \in 1 .. N : clockq[j] \in Procs /\ qkey[clockq[j]] \in Nat
  <2>1. IsInjective(clockq) /\ DOMAIN clockq = 1 .. N
    BY <1>1, <1>2, SchedTypes, LenProperties DEF Holds
  <2> QED BY <1>2, <2>1 DEF TimesView, IsInjective
<1>5. PICK r \in 1 .. N : clockq[r] = pid /\ clockq' = RemoveAt(clockq, r)
  <2>1. \E j \in DOMAIN clockq : clockq[j] = pid
    BY <1>1, <1>2, <1>4 DEF TimesView
  <2> QED BY <1>1, <1>4, <2>1 DEF Dequeue
<1>6. /\ Len(clockq') = N - 1
      /\ \A j \in 1 .. N - 1 : clockq'[j] = IF j < r THEN clockq[j] ELSE clockq[j + 1]
  BY <1>4, <1>5, RemoveAtShape
<1>7. ASSUME NEW j \in 1 .. N
      PROVE  /\ j \notin {r, r + 1} => qkey'[clockq[j]] = qkey[clockq[j]]
             /\ j = r + 1 => qkey'[clockq[j]] = qkey[clockq[r]] + qkey[clockq[j]]
  <2>1. clockq[j] \in Successors(pid) <=> j = r + 1
    <3>1. CASE j = r + 1
      <4>1. j \in 2 .. N /\ j - 1 = r
        BY <1>4, <3>1
      <4> QED BY <1>5, <3>1, <4>1 DEF Successors
    <3>2. ASSUME clockq[j] \in Successors(pid) PROVE j = r + 1
      <4>1. PICK i \in 2 .. N : clockq[i - 1] = pid /\ clockq[j] = clockq[i]
        BY <3>2 DEF Successors
      <4>2. i \in 1 .. N /\ i - 1 \in 1 .. N
        BY <1>4, <4>1
      <4>3. j = i /\ i - 1 = r
        BY <1>4, <1>5, <4>1, <4>2
      <4> QED BY <1>4, <4>2, <4>3
    <3> QED BY <3>1, <3>2
  <2>2. qkey'[clockq[j]] = IF j = r + 1 THEN qkey[clockq[j]] + qkey[pid] ELSE qkey[clockq[j]]
    BY <1>1, <1>4, <2>1
  <2>3. qkey[clockq[j]] \in Nat /\ qkey[clockq[r]] \in Nat
    BY <1>4
  <2> QED BY <1>5, <2>2, <2>3
<1>8. LessOne(clockq', qkey', clockq, qkey, r)
  BY <1>4, <1>6, <1>7 DEF LessOne
<1>9. /\ \A p \in Procs \ {pid} : Left(p)' = Left(p)
      /\ Left(pid) = KeySum[r]
  <2>1. StatesKeptBut(clockq[r])
    BY <1>1, <1>2, <1>5 DEF StatesKeptBut
  <2> QED BY <1>2, <1>3, <1>5, <1>8, <2>1, SleeperGone
<1>10. Left(pid) # -2 /\ Left(pid)' = -2
  <2>1. KeySum[r] \in Nat
    BY <1>2, <1>4 DEF IsSums, TimesView
  <2>2. pstate'[pid] = "PRFREE"
    BY <1>1, <1>2
  <2>3. Left(pid)' = -2
    BY <1>1, <1>2, <2>2 DEF TimesView
  <2> QED BY <1>9, <2>1, <2>3
<1>11. Timers!Next
  BY <1>1, <1>9, <1>10, TimersOne
<1> QED BY <1>3, <1>11, WalkOver DEF TimersStep

LEMMA InsertdEndTimers ==
    ASSUME OrderInv, TimersInv, IInv', InsertdEnd
    PROVE  TimersStep
<1> DEFINE i == kctx[currpid].arg
           n == kctx[currpid].n
           b == clockq[i]
           N == Len(clockq)
           k0 == [qkey EXCEPT ![currpid] = n]
           k == IF i <= N THEN [k0 EXCEPT ![b] = k0[b] - n] ELSE k0
<1>1. /\ IInv /\ Op = "insertd" /\ ClkInv /\ TabOK /\ SchedOKNow
      /\ currpid \in Procs /\ pstate[currpid] = "PRCURR" /\ pprio \in [Procs -> Int]
      /\ qkey \in [Procs -> Int]
  BY SectionFacts, StagedNow, SchedTypes DEF OrderInv, InsertdEnd, IInv
<1>2. TimesView /\ TimesView'
  BY <1>1, TimesViewed, TimesViewedNext
<1>3. /\ clockq \in Seq(Procs) /\ N \in Nat
      /\ \A j \in 1 .. N : /\ clockq[j] \in Procs /\ clockq[j] # currpid
                           /\ pstate[clockq[j]] = "PRSLEEP" /\ qkey[clockq[j]] \in Nat
  BY <1>1, <1>2 DEF TimesView
<1>4. /\ i \in 1 .. N + 1 /\ n > 0 /\ n \in Int /\ currpid # NULLPROC
      /\ KeySum[i - 1] + n \in 1 .. LongestTime
  BY <1>1 DEF ClkInv, ClkSection, TabOK, TimersInv
<1>5. /\ clockq' = InsertAt(clockq, i, currpid)
      /\ i <= N => qkey[b] >= n
      /\ Resched([pstate EXCEPT ![currpid] = "PRSLEEP"], rdyq, k, pprio, preempt)
      /\ Leave
  BY <1>3, <1>4 DEF InsertdEnd
<1>6. i <= N => i \in 1 .. N /\ b \in Procs /\ b # currpid /\ qkey[b] \in Nat
  BY <1>3, <1>4
<1> HIDE DEF i, n, b
<1>7. k0 \in [Procs -> Int]
  BY <1>1, <1>4
<1>8. /\ k \in [Procs -> Int] /\ k[currpid] = n
      /\ \A p \in Procs \ {currpid} :
            k[p] = IF i <= N /\ p = b THEN qkey[p] - n ELSE qkey[p]
  BY <1>1, <1>4, <1>5, <1>6, <1>7
<1> HIDE DEF k0, k
<1>9. /\ pstate'[currpid] = "PRSLEEP" /\ qkey'[currpid] = n
      /\ \A p \in Procs \ {currpid} :
            /\ pstate[p] \in Runnable <=> pstate'[p] \in Runnable
            /\ pstate[p] \notin Runnable => pstate'[p] = pstate[p] /\ qkey'[p] = k[p]
  <2>1. "PRSLEEP" \in States /\ "PRSLEEP" \notin Runnable
    BY DEF States, Runnable
  <2> QED BY <1>1, <1>4, <1>5, <1>8, <2>1, BlockStep
<1>10. Op' \notin Walks /\ Op # "strtclk" /\ Op' # "strtclk"
  <2>1. Op' \notin Walks
    BY <1>1, <1>5, WalksLeft
  <2> QED BY <1>1, <2>1 DEF Walks
<1>11. /\ Len(clockq') = N + 1
       /\ \A j \in 1 .. N + 1 : clockq'[j] =
             IF j < i THEN clockq[j] ELSE IF j = i THEN currpid ELSE clockq[j - 1]
  <2>1. clockq \in Seq(Procs) /\ i \in 1 .. Len(clockq) + 1 /\ currpid \in Procs
    BY <1>1, <1>3, <1>4
  <2>2. /\ Len(InsertAt(clockq, i, currpid)) = N + 1
        /\ \A j \in 1 .. N + 1 : InsertAt(clockq, i, currpid)[j] =
              IF j < i THEN clockq[j] ELSE IF j = i THEN currpid ELSE clockq[j - 1]
    BY <2>1, InsertAtShape
  <2> QED BY <1>5, <2>2
<1>12. clockq'[i] = currpid /\ i \in 1 .. N + 1
  BY <1>4, <1>11
<1>13. \A j \in 1 .. N : clockq[j] = IF j < i THEN clockq'[j] ELSE clockq'[j + 1]
  <2>1. ASSUME NEW j \in 1 .. N, j < i PROVE clockq[j] = clockq'[j]
    <3>1. j \in 1 .. N + 1
      BY <1>3
    <3> QED BY <1>11, <2>1, <3>1
  <2>2. ASSUME NEW j \in 1 .. N, ~(j < i) PROVE clockq[j] = clockq'[j + 1]
    <3>1. j + 1 \in 1 .. N + 1 /\ ~(j + 1 < i) /\ j + 1 # i /\ (j + 1) - 1 = j
      BY <1>3, <1>4, <2>2
    <3> QED BY <1>11, <3>1
  <2> QED BY <2>1, <2>2
<1>14. ASSUME NEW j \in 1 .. N
       PROVE  /\ qkey'[clockq[j]] = IF j = i THEN qkey[clockq[j]] - n ELSE qkey[clockq[j]]
              /\ qkey'[clockq[j]] \in Nat
  <2>1. qkey'[clockq[j]] = k[clockq[j]]
    BY <1>3, <1>9 DEF Runnable
  <2>2. i <= N /\ clockq[j] = b <=> j = i
    <3>1. IsInjective(clockq) /\ DOMAIN clockq = 1 .. N
      BY <1>1, <1>3, SchedTypes, LenProperties DEF Holds
    <3> QED BY <1>3, <1>6, <3>1 DEF IsInjective, b
  <2>3. k[clockq[j]] = IF j = i THEN qkey[clockq[j]] - n ELSE qkey[clockq[j]]
    BY <1>3, <1>8, <2>2
  <2>4. j = i => qkey[clockq[j]] >= n
    BY <1>5, <2>2
  <2> QED BY <1>3, <1>4, <2>1, <2>3, <2>4
<1>15. LessOne(clockq, qkey, clockq', qkey', i)
  <2>1. N + 1 \in Nat /\ N = (N + 1) - 1
    BY <1>3
  <2>2. ASSUME NEW j \in 1 .. N + 1
        PROVE  /\ qkey'[clockq'[j]] \in Nat
               /\ j \notin {i, i + 1} => qkey[clockq'[j]] = qkey'[clockq'[j]]
               /\ j = i + 1 => qkey[clockq'[j]] = qkey'[clockq'[i]] + qkey'[clockq'[j]]
    <3>1. CASE j < i
      <4>1. j \in 1 .. N /\ j # i /\ j # i + 1 /\ clockq'[j] = clockq[j]
        BY <1>3, <1>4, <1>11, <3>1
      <4> QED BY <1>14, <4>1
    <3>2. CASE j = i
      <4>1. qkey'[clockq'[j]] = n /\ n \in Nat /\ j # i + 1
        BY <1>4, <1>9, <1>12, <3>2
      <4> QED BY <3>2, <4>1
    <3>3. CASE j > i
      <4>1. j - 1 \in 1 .. N /\ ~(j < i) /\ j # i /\ clockq'[j] = clockq[j - 1]
        BY <1>3, <1>4, <1>11, <3>3
      <4>2. /\ qkey'[clockq'[j]] = IF j - 1 = i THEN qkey[clockq'[j]] - n ELSE qkey[clockq'[j]]
            /\ qkey'[clockq'[j]] \in Nat /\ qkey[clockq'[j]] \in Nat
        BY <1>3, <1>14, <4>1
      <4>3. j = i + 1 <=> j - 1 = i
        BY <1>4
      <4>4. qkey'[clockq'[i]] = n
        BY <1>9, <1>12
      <4> QED BY <1>4, <4>1, <4>2, <4>3, <4>4
    <3> QED BY <1>4, <3>1, <3>2, <3>3
  <2> QED BY <1>11, <1>12, <1>13, <2>1, <2>2 DEF LessOne
<1>16. PICK w : w = currpid
  OBVIOUS
<1>17. /\ \A p \in Procs \ {w} : Left(p)' = Left(p)
       /\ Left(w)' = KeySum[i - 1] + qkey'[w]
  <2>1. StatesKeptBut(w)
    BY <1>9, <1>16 DEF StatesKeptBut, Runnable
  <2> QED BY <1>1, <1>2, <1>10, <1>12, <1>15, <1>16, <2>1, SleeperNew
<1>18. Left(w) = -1 /\ Left(w)' \in 1 .. LongestTime
  <2>1. Left(w) = -1
    BY <1>1, <1>2, <1>16 DEF TimesView
  <2> QED BY <1>4, <1>9, <1>16, <1>17, <2>1
<1>19. Timers!Next
  BY <1>1, <1>16, <1>17, <1>18, TimersOne
<1> QED BY <1>10, <1>19, WalkOver DEF TimersStep

LEMMA ClkKernelStepTimers ==
    ASSUME OrderInv, TimersInv, IInv', ClkKernelStep
    PROVE  TimersStep
<1>1. IInv
  BY DEF OrderInv
<1>2. CASE WakeupEnd \/ ClkIntEnd \/ StrtClkEnd
  <2>1. /\ UNCHANGED clockq
        /\ At("wakeup_clkint") \/ At("wakeup_strtclk") \/ At("clkint") \/ At("strtclk_tail")
        /\ Leave \/ Enter("clkint", 0, 0) \/ Enter("strtclk_tail", 0, 0)
        /\ \/ UNCHANGED <<pstate, qkey>>
           \/ \E left \in {preempt, 0} : Resched(pstate, rdyq, qkey, pprio, left)
    BY <1>2 DEF WakeupEnd, ClkIntEnd, StrtClkEnd, clkVars, Yield, schedVars
  <2>2. Op \in {"wakeup_clkint", "wakeup_strtclk", "clkint", "strtclk_tail"}
    BY <2>1, InsideFacts
  <2>3. {"clkint", "strtclk_tail"} \subseteq KernelOps \ Walks /\ Op # "strtclk"
    BY <2>2 DEF KernelOps, Walks
  <2>4. Op' \notin Walks
    BY <1>1, <2>1, <2>3, WalksLeft
  <2> QED BY <1>1, <2>1, <2>3, <2>4, SchedTimers
<1> QED BY <1>2, InsertdWalkTimers, InsertdEndTimers, WakeupFirstTimers,
       StrtClkWalkTimers, StrtClkWalkDoneTimers DEF ClkKernelStep

-----------------------------------------------------------------------------
(* Processes come and go.                                                  *)

LEMMA CreateTimers ==
    ASSUME OrderInv, IInv', NEW ssize, NEW priority, Create(ssize, priority)
    PROVE  TimersStep
<1>1. IInv /\ Op = "none" /\ UNCHANGED clockq /\ pstate \in [Procs -> States]
  BY CallerFacts, SchedTypes DEF OrderInv, Create, NewProcess, clkVars
<1>2. CASE SemError
  <2>1. UNCHANGED <<pstate, qkey, kctx>>
    BY <1>2 DEF SemError, HandleError
  <2>2. Op' \notin Walks /\ Op # "strtclk"
    BY <1>1, <2>1, OutsideWalks, WalksLeft
  <2> QED BY <1>1, <2>1, <2>2, SchedTimers
<1>3. ASSUME NEW pid \in Procs, NewProcess(pid, ssize, priority)
      PROVE  TimersStep
  <2>1. /\ pstate' = [pstate EXCEPT ![pid] = "PRSUSP"] /\ UNCHANGED qkey
        /\ kctx' = [kctx EXCEPT ![pid] = OutOfKernel]
        /\ pstate[pid] = "PRFREE"
    BY <1>3 DEF NewProcess, IsNewPid
  <2>2. Op' \notin Walks /\ Op # "strtclk" /\ Op' # "strtclk"
    <3>1. Op' \notin Walks
      BY <1>1, <2>1, OutsideWalks, WalksLeft
    <3> QED BY <1>1, <3>1 DEF Walks
  <2>3. TimesView /\ TimesView' /\ ClkKept
    BY <1>1, <2>1, TimesViewed, TimesViewedNext DEF ClkKept
  <2>4. ASSUME NEW p \in Procs \ {pid} PROVE Left(p)' = Left(p)
    <3>1. pstate'[p] = pstate[p]
      BY <1>1, <2>1
    <3> QED BY <1>1, <2>2, <2>3, <3>1, TimeKept
  <2>5. Left(pid) = -2 /\ Left(pid)' = -1
    <3>1. pstate'[pid] = "PRSUSP"
      BY <1>1, <2>1
    <3> QED BY <2>1, <2>3, <3>1 DEF TimesView
  <2>6. Timers!Next
    BY <2>4, <2>5, TimersOne
  <2> QED BY <2>2, <2>6, WalkOver DEF TimersStep
<1> QED BY <1>2, <1>3 DEF Create

LEMMA KillTimers ==
    ASSUME OrderInv, IInv', NEW pid \in PidArgs, Kill(pid)
    PROVE  TimersStep
<1>1. /\ IInv /\ Op = "none" /\ pid \in Procs /\ pid # NULLPROC
      /\ SchedOKNow /\ pprio \in [Procs -> Int] /\ pstate \in [Procs -> States]
      /\ currpid \in Procs /\ pstate[currpid] = "PRCURR"
      /\ kctx' = [kctx EXCEPT ![pid] = OutOfKernel]
  BY KillFacts, StagedNow, SchedTypes DEF OrderInv, Kill
<1>2. TimesView /\ TimesView'
  BY <1>1, TimesViewed, TimesViewedNext
<1>3. Op' \notin Walks /\ Op # "strtclk" /\ Op' # "strtclk"
  <2>1. Op' \notin Walks
    BY <1>1, OutsideWalks, WalksLeft
  <2> QED BY <1>1, <2>1 DEF Walks
<1>4. ASSUME clockq' = clockq, ClkKept, pstate[pid] \notin {"PRFREE", "PRSLEEP"},
             pstate'[pid] = "PRFREE",
             \A p \in Procs \ {pid} : pstate'[p] = "PRFREE" <=> pstate[p] = "PRFREE"
      PROVE  TimersStep
  <2>1. \A p \in Procs \ {pid} : Left(p)' = Left(p)
    BY <1>2, <1>3, <1>4, TimeKept
  <2>2. Left(pid) # -2 /\ Left(pid)' = -2
    <3>1. Left(pid) = -1 /\ Left(pid)' = -2
      BY <1>1, <1>2, <1>4 DEF TimesView
    <3> QED BY <3>1
  <2>3. Timers!Next
    BY <1>1, <2>1, <2>2, TimersOne
  <2> QED BY <1>3, <2>3, WalkOver DEF TimersStep
<1>5. CASE KillCurrent(pid)
  <2>1. pid = currpid /\ Block("PRFREE") /\ UNCHANGED clockq
    BY <1>1, <1>5 DEF KillCurrent, SchedOKNow, SchedOK, CurrentIn, clkVars
  <2>2. ClkKept
    BY <1>1, <2>1, BlockedKept DEF States
  <2>3. /\ pstate'[pid] = "PRFREE"
        /\ \A p \in Procs \ {pid} :
              /\ pstate[p] \in Runnable <=> pstate'[p] \in Runnable
              /\ pstate[p] \notin Runnable => pstate'[p] = pstate[p]
    <3>1. "PRFREE" \in States /\ "PRFREE" \notin Runnable /\ qkey \in [Procs -> Int]
      BY <1>1, SchedTypes DEF States, Runnable
    <3> QED BY <1>1, <2>1, <3>1, BlockStep DEF Block
  <2>4. \A p \in Procs \ {pid} : pstate'[p] = "PRFREE" <=> pstate[p] = "PRFREE"
    BY <2>3 DEF Runnable
  <2> QED BY <1>1, <1>4, <2>1, <2>2, <2>3, <2>4
<1>6. CASE KillWaiting(pid) \/ KillReady(pid) \/ KillOffQueues(pid)
  <2>1. /\ pstate[pid] \in {"PRWAIT", "PRREADY", "PRSUSP", "PRRECV"}
        /\ pstate' = [pstate EXCEPT ![pid] = "PRFREE"] /\ UNCHANGED <<qkey, clockq>>
    BY <1>6 DEF KillWaiting, KillReady, KillOffQueues, clkVars
  <2>2. /\ ClkKept /\ pstate'[pid] = "PRFREE"
        /\ \A p \in Procs \ {pid} : pstate'[p] = "PRFREE" <=> pstate[p] = "PRFREE"
    BY <1>1, <2>1 DEF ClkKept
  <2> QED BY <1>4, <2>1, <2>2
<1> QED BY <1>5, <1>6, KillSleepingTimers DEF Kill

-----------------------------------------------------------------------------
LEMMA TimersOrStay == TimersStep => [Timers!Next]_lefts /\ TimersInv'
BY DEF TimersStep

LEMMA NextTimers ==
    OrderInv /\ TimersInv /\ [Next]_vars => [Timers!Next]_lefts /\ TimersInv'
<1> SUFFICES ASSUME OrderInv, TimersInv, [Next]_vars
             PROVE  TimersStep
  BY TimersOrStay
<1>1. IInv /\ IInv'
  BY IInvKept DEF OrderInv
<1>2. CASE Call
  BY <1>1, <1>2, ProcCallTimers, SemCallTimers, MsgTimers, ClkCallTimers,
     CreateTimers, KillTimers DEF Call, MsgCall, clkVars
<1>3. CASE KernelStep
  BY <1>1, <1>3, SemKernelStepTimers, MsgTimers, ClkKernelStepTimers
     DEF KernelStep, clkVars
<1>4. CASE UserStep \/ ClockInterrupt
  BY <1>1, <1>4, ClkCallTimers DEF UserStep, ClockInterrupt
<1>5. CASE TtyInterrupt
  BY <1>1, <1>5, SemCallTimers
<1>6. CASE UNCHANGED vars
  <2>1. UNCHANGED <<pstate, qkey, clockq, kctx, currpid>>
    BY <1>6 DEF vars, procVars, clkVars
  <2>2. lefts' = lefts
    BY <2>1 DEF lefts, Left, TimeLeft, KeySum, Place, ToMakeUp, Op
  <2>3. TimersInv'
    BY <2>1 DEF TimersInv, KeySum, Op
  <2> QED BY <2>2, <2>3 DEF TimersStep
<1> QED BY <1>2, <1>3, <1>4, <1>5, <1>6 DEF Next, Gone

LEMMA InitTimers == Init => Timers!Init /\ TimersInv
<1> SUFFICES ASSUME Init PROVE Timers!Init /\ TimersInv
  OBVIOUS
<1>1. currpid \in Procs
  BY ConstFacts DEF Init, ProcInit, FirstUser, Procs, NULLPROC
<1>2. Op = "none"
  BY <1>1 DEF Init, ProcInit, Op, OutOfKernel, InKernel
<1>3. TimersInv
  BY <1>2 DEF TimersInv
<1>4. \A p \in Procs : Left(p) \in {-1, -2}
  <2>1. \A p \in Procs : pstate[p] # "PRSLEEP"
    BY DEF Init, ProcInit
  <2> QED BY <2>1 DEF Left
<1>5. Timers!Init
  BY <1>4 DEF Timers!Init, Timers!Awake, Timers!Gone, Left
<1> QED BY <1>3, <1>5

\* Time is kept right for every sleeper: Kernel implements SleepTimers, in which
\* each sleeping process has a timer of its own. The keys of insertd are
\* differences, wakeup, insertd and strtclk change them in several steps, and
\* stopclk puts ticks off; still no sleeper loses or gains a tick by what others
\* do, and none is woken before its own time has run out.
THEOREM SleepersAlwaysTimed == Spec => SleepersAreTimed
<1>1. Init => TimersInv /\ Timers!Init
  BY InitTimers
<1>2. OrderInv /\ TimersInv /\ [Next]_vars => TimersInv' /\ [Timers!Next]_lefts
  BY NextTimers
<1> QED BY <1>1, <1>2, OrderInvariant, PTL DEF Spec, SleepersAreTimed, Timers!Spec, lefts, Left

=============================================================================
