-------------------------- MODULE KernelOrder_proofs --------------------------
(***************************************************************************)
(* Who runs next, for every value of the constants: the ready list is in   *)
(* the order of priorities, nobody outranks the running process, equals    *)
(* take turns, semaphores serve in order of arrival, and a receiver finds  *)
(* its message.                                                            *)
(*                                                                         *)
(* The actions of Kernel do only a few things to the ready list.  These    *)
(* moves are named first, with what each of them does to the order of      *)
(* processes; then every action is shown to be one of the moves, and the   *)
(* properties follow from the moves.                                       *)
(***************************************************************************)
EXTENDS Kernel_proofs

-----------------------------------------------------------------------------
(* Who comes before whom in a queue.                                       *)

LEMMA BeforeInsert ==
    ASSUME NEW S, NEW T, NEW q \in Seq(S), Holds(q, T),
           NEW k \in [S -> Int], NEW key \in Int, NEW p \in S, p \notin T
    PROVE  /\ \A a, b : Before(q, a, b) => Before(Insert(q, p, key, k), a, b)
           /\ \A b \in T : k[b] >= key => Before(Insert(q, p, key, k), p, b)
<1> DEFINE i == Min(KeyPlaces(q, key, k))
           r == InsertAt(q, i, p)
<1>1. /\ i \in 1 .. Len(q) + 1
      /\ \A j \in 1 .. Len(q) : j < i => k[q[j]] < key
  BY InsertPlace
<1>2. /\ Len(q) \in Nat /\ DOMAIN q = 1 .. Len(q)
      /\ \A j \in 1 .. Len(q) : q[j] \in S /\ k[q[j]] \in Int
  BY LenProperties, ElementOfSeq
<1>3. Insert(q, p, key, k) = r
  BY DEF Insert
<1> HIDE DEF i
<1>4. /\ r \in Seq(S) /\ Len(r) = Len(q) + 1
      /\ \A j \in 1 .. Len(q) + 1 :
             r[j] = IF j < i THEN q[j] ELSE IF j = i THEN p ELSE q[j - 1]
  BY <1>1, InsertAtShape
<1>5. DOMAIN r = 1 .. Len(q) + 1
  BY <1>4, LenProperties
<1> HIDE DEF r
<1> DEFINE At_(j) == IF j < i THEN j ELSE j + 1
<1>6. ASSUME NEW j \in 1 .. Len(q)
      PROVE  /\ At_(j) \in 1 .. Len(q) + 1 /\ r[At_(j)] = q[j]
             /\ \A l \in 1 .. Len(q) : j < l => At_(j) < At_(l)
             /\ j >= i => i < At_(j)
  <2>1. /\ At_(j) \in 1 .. Len(q) + 1
        /\ \A l \in 1 .. Len(q) : j < l => At_(j) < At_(l)
        /\ j >= i => i < At_(j)
    BY <1>1, <1>2
  <2>2. CASE j < i
    BY <2>1, <2>2, <1>4
  <2>3. CASE j >= i
    <3>1. At_(j) = j + 1 /\ j + 1 \in 1 .. Len(q) + 1 /\ ~(j + 1 < i) /\ j + 1 # i
      BY <2>3, <1>1, <1>2
    <3>2. r[j + 1] = q[(j + 1) - 1] /\ (j + 1) - 1 = j
      BY <3>1, <1>4
    <3> QED BY <2>1, <3>1, <3>2
  <2> QED BY <2>1, <2>2, <2>3, <1>1
<1>7. ASSUME NEW a, NEW b, Before(q, a, b)
      PROVE  Before(r, a, b)
  <2>1. PICK j \in 1 .. Len(q), l \in 1 .. Len(q) : j < l /\ q[j] = a /\ q[l] = b
    BY <1>2, <1>7 DEF Before
  <2> QED BY <2>1, <1>5, <1>6 DEF Before
<1>8. ASSUME NEW b \in T, k[b] >= key
      PROVE  Before(r, p, b)
  <2>1. PICK l \in 1 .. Len(q) : q[l] = b
    BY <1>2 DEF Holds, ToSet
  <2>2. ~(k[q[l]] < key)
    BY <1>2, <1>8, <2>1
  <2>3. l >= i
    BY <1>1, <1>2, <2>2
  <2>4. r[i] = p /\ i \in 1 .. Len(q) + 1
    BY <1>1, <1>2, <1>4
  <2>5. At_(l) \in 1 .. Len(q) + 1 /\ r[At_(l)] = b /\ i < At_(l)
    BY <1>6, <2>1, <2>3
  <2> QED BY <2>4, <2>5, <1>5 DEF Before
<1> QED BY <1>3, <1>7, <1>8

LEMMA BeforeLast ==
    ASSUME NEW S, NEW T, NEW q \in Seq(S), Holds(q, T), NEW a, NEW b,
           Before(q, a, b)
    PROVE  a \in T /\ b \in T /\ a # b /\ a # Last(q) /\ b # Head(q)
<1>1. /\ Len(q) \in Nat /\ DOMAIN q = 1 .. Len(q)
  BY LenProperties
<1>2. PICK j \in 1 .. Len(q), l \in 1 .. Len(q) : j < l /\ q[j] = a /\ q[l] = b
  BY <1>1 DEF Before
<1>3. \A x, y \in 1 .. Len(q) : q[x] = q[y] => x = y
  BY <1>1 DEF Holds, IsInjective
<1>4. Last(q) = q[Len(q)] /\ Head(q) = q[1]
  BY <1>1, <1>2, HeadTailProperties DEF Last
<1>5. a # b /\ a # Last(q) /\ b # Head(q)
  BY <1>1, <1>2, <1>3, <1>4
<1>6. a \in T /\ b \in T
  BY <1>1, <1>2 DEF Holds, ToSet
<1> QED BY <1>5, <1>6

LEMMA BeforeFront ==
    ASSUME NEW S, NEW T, NEW q \in Seq(S), Holds(q, T), NEW a, NEW b,
           Before(q, a, b), b # Last(q)
    PROVE  Before(Front(q), a, b)
<1>1. /\ Len(q) \in Nat /\ DOMAIN q = 1 .. Len(q)
      /\ \A j \in 1 .. Len(q) : q[j] \in S
  BY LenProperties, ElementOfSeq
<1>2. PICK j \in 1 .. Len(q), l \in 1 .. Len(q) : j < l /\ q[j] = a /\ q[l] = b
  BY <1>1 DEF Before
<1>3. l < Len(q)
  BY <1>1, <1>2 DEF Last
<1>4. /\ Front(q) \in Seq(S) /\ Len(Front(q)) = Len(q) - 1
      /\ \A x \in 1 .. Len(q) - 1 : Front(q)[x] = q[x]
  <2>1. \A x \in 1 .. Len(q) - 1 : q[x] \in S
    BY <1>1
  <2> QED BY <1>1, <1>2, <2>1, SubSeqProperties DEF Front
<1>5. DOMAIN Front(q) = 1 .. Len(q) - 1
  BY <1>4, LenProperties
<1> QED BY <1>1, <1>2, <1>3, <1>4, <1>5 DEF Before

LEMMA BeforeDequeue ==
    ASSUME NEW S, NEW T, NEW q \in Seq(S), Holds(q, T), NEW p \in T,
           NEW a, NEW b, Before(q, a, b), a # p, b # p
    PROVE  Before(Dequeue(q, p), a, b)
<1> DEFINE i == CHOOSE j \in DOMAIN q : q[j] = p
           r == RemoveAt(q, i)
<1>1. /\ Len(q) \in Nat /\ DOMAIN q = 1 .. Len(q)
  BY LenProperties
<1>2. i \in 1 .. Len(q) /\ q[i] = p
  BY <1>1 DEF Holds, ToSet
<1>3. Dequeue(q, p) = r
  BY DEF Dequeue
<1> HIDE DEF i
<1>4. /\ r \in Seq(S) /\ Len(r) = Len(q) - 1
      /\ \A j \in 1 .. Len(q) - 1 : r[j] = IF j < i THEN q[j] ELSE q[j + 1]
  BY <1>2, RemoveAtShape
<1>5. DOMAIN r = 1 .. Len(q) - 1
  BY <1>4, LenProperties
<1> HIDE DEF r
<1> DEFINE At_(j) == IF j < i THEN j ELSE j - 1
<1>6. PICK j \in 1 .. Len(q), l \in 1 .. Len(q) : j < l /\ q[j] = a /\ q[l] = b
  BY <1>1 DEF Before
<1>7. j # i /\ l # i
  BY <1>2, <1>6
<1>8. /\ At_(j) \in 1 .. Len(q) - 1 /\ At_(l) \in 1 .. Len(q) - 1
      /\ At_(j) < At_(l)
  BY <1>1, <1>2, <1>6, <1>7
<1>9. ASSUME NEW x \in 1 .. Len(q), x # i, At_(x) \in 1 .. Len(q) - 1
      PROVE  r[At_(x)] = q[x]
  <2>1. CASE x < i
    BY <2>1, <1>4, <1>9
  <2>2. CASE x > i
    <3>1. /\ At_(x) = x - 1 /\ x - 1 \in 1 .. Len(q) - 1
          /\ ~(x - 1 < i) /\ (x - 1) + 1 = x
      BY <2>2, <1>1, <1>2, <1>9
    <3>2. r[x - 1] = q[(x - 1) + 1]
      BY <3>1, <1>4
    <3> QED BY <3>1, <3>2
  <2> QED BY <2>1, <2>2, <1>2, <1>9
<1>10. r[At_(j)] = q[j] /\ r[At_(l)] = q[l]
  BY <1>6, <1>7, <1>8, <1>9
<1> QED BY <1>3, <1>5, <1>6, <1>8, <1>10 DEF Before

-----------------------------------------------------------------------------
(* resched and the order of the ready list.                                *)

(* The tables as a call has set them up when it comes to resched or to its *)
(* return, with the priorities pr: in order, though perhaps without a      *)
(* current process, and perhaps with a ready one that outranks it.         *)
Staged(ps, rq, k, pr) ==
    /\ ps \in [Procs -> States]
    /\ rq \in Seq(Procs)
    /\ k \in [Procs -> Int]
    /\ pr \in [Procs -> Int]
    /\ currpid \in Procs
    /\ CurrentIn(ps) \subseteq {currpid}
    /\ Holds(rq, ReadyIn(ps))
    /\ ps[NULLPROC] \in Runnable
    /\ Ordered(rq, k)
    /\ \A p \in ReadyIn(ps) : k[p] = pr[p]

(* What resched makes of them.                                             *)
OrderedNext(pr) ==
    Ordered(rdyq', qkey') /\ \A p \in ReadyIn(pstate') : qkey'[p] = pr[p]
HighestNext(pr) == \A p \in ReadyIn(pstate') : pr[p] <= pr[currpid']
QuantumNext(pr) ==
    \A p \in ReadyIn(pstate') : pr[p] = pr[currpid'] => preempt' > 0
PlacesKept(ps, rq) ==
    \A p, c \in Procs :
        pstate'[p] = "PRREADY" /\ Before(rq, c, p)
            => pstate'[c] = "PRREADY" /\ Before(rdyq', c, p)
LateComersBehind(ps, pr) ==
    \A p, c \in Procs :
        /\ ps[p] = "PRREADY" /\ pstate'[p] = "PRREADY" /\ pr[c] = pr[p]
        /\ ps[c] # "PRREADY" /\ pstate'[c] = "PRREADY"
        => Before(rdyq', c, p)

LEMMA SwitchOrder ==
    ASSUME NEW ps, NEW rq, NEW k, NEW pr, Staged(ps, rq, k, pr),
           CurrentIn(ps) = {}, SwitchToLast(ps, rq, k)
    PROVE  /\ OrderedNext(pr) /\ HighestNext(pr) /\ preempt' = QUANTUM
           /\ PlacesKept(ps, rq)
           /\ \A c \in Procs : ps[c] # "PRREADY" => pstate'[c] = ps[c]
<1> USE DEF Staged
<1>1. ps[NULLPROC] = "PRREADY" /\ NULLPROC \in ReadyIn(ps)
  BY ConstFacts DEF CurrentIn, ReadyIn, Runnable
<1>2. /\ Last(rq) \in ReadyIn(ps) /\ Last(rq) \in Procs
      /\ Front(rq) \in Seq(Procs)
      /\ Holds(Front(rq), ReadyIn(ps) \ {Last(rq)})
  BY <1>1, LastFrontHolds
<1>3. /\ \A p \in ReadyIn(ps) : k[p] <= k[Last(rq)]
      /\ Ordered(Front(rq), k)
  BY <1>1, LastIsGreatest
<1>4. /\ currpid' = Last(rq) /\ rdyq' = Front(rq) /\ qkey' = k
      /\ pstate' = [ps EXCEPT ![Last(rq)] = "PRCURR"] /\ preempt' = QUANTUM
  BY DEF SwitchToLast
<1>5. /\ ReadyIn(pstate') = ReadyIn(ps) \ {Last(rq)}
      /\ \A c \in Procs : ps[c] # "PRREADY" => pstate'[c] = ps[c]
  BY <1>2, <1>4 DEF ReadyIn
<1>6. OrderedNext(pr) /\ HighestNext(pr)
  BY <1>2, <1>3, <1>4, <1>5 DEF OrderedNext, HighestNext
<1>7. PlacesKept(ps, rq)
  <2> SUFFICES ASSUME NEW p \in Procs, NEW c \in Procs,
                      pstate'[p] = "PRREADY", Before(rq, c, p)
               PROVE  pstate'[c] = "PRREADY" /\ Before(rdyq', c, p)
    BY DEF PlacesKept
  <2>1. c \in ReadyIn(ps) /\ c # Last(rq)
    BY BeforeLast
  <2>2. p # Last(rq)
    BY <1>5 DEF ReadyIn
  <2>3. Before(Front(rq), c, p)
    BY <2>2, BeforeFront
  <2> QED BY <2>1, <2>3, <1>4, <1>5 DEF ReadyIn
<1> QED BY <1>4, <1>5, <1>6, <1>7

LEMMA ReschedOrder ==
    ASSUME NEW ps, NEW rq, NEW k, NEW pr, Staged(ps, rq, k, pr),
           NEW left \in -1 .. QUANTUM, Resched(ps, rq, k, pr, left)
    PROVE  /\ OrderedNext(pr) /\ HighestNext(pr) /\ QuantumNext(pr)
           /\ PlacesKept(ps, rq) /\ LateComersBehind(ps, pr)
           /\ \A p \in Procs : ps[p] \in Runnable <=> pstate'[p] \in Runnable
<1> USE DEF Staged
<1>1. \A p \in Procs : ps[p] \in Runnable <=> pstate'[p] \in Runnable
  BY ReschedOK DEF BeforeResched, OthersKept
<1>2. CASE KeepsCpu(ps, rq, k, pr)
  <2>1. /\ pstate' = ps /\ rdyq' = rq /\ qkey' = k /\ currpid' = currpid
        /\ LastKey(rq, k) < pr[currpid]
    BY <1>2 DEF Resched, KeepsCpu
  <2>2. ASSUME NEW p \in ReadyIn(ps) PROVE pr[p] < pr[currpid]
    <3>1. ReadyIn(ps) # {} /\ rq # <<>>
      BY <2>2 DEF Holds, ToSet
    <3>2. k[p] <= k[Last(rq)] /\ Last(rq) \in Procs
      BY <2>2, <3>1, LastIsGreatest, LastFrontHolds
    <3>3. k[Last(rq)] < pr[currpid]
      BY <2>1, <3>1 DEF LastKey
    <3>4. k[p] = pr[p] /\ k[p] \in Int /\ k[Last(rq)] \in Int /\ pr[currpid] \in Int
      BY <2>2, <3>2 DEF ReadyIn
    <3> QED BY <3>2, <3>3, <3>4
  <2>3. OrderedNext(pr)
    BY <2>1 DEF OrderedNext
  <2>4. HighestNext(pr) /\ QuantumNext(pr)
    <3>1. \A p \in ReadyIn(ps) : pr[p] \in Int /\ pr[currpid] \in Int
      BY DEF ReadyIn
    <3> QED BY <3>1, <2>1, <2>2 DEF HighestNext, QuantumNext
  <2>5. PlacesKept(ps, rq)
    BY <2>1, BeforeLast DEF PlacesKept, ReadyIn
  <2>6. LateComersBehind(ps, pr)
    BY <2>1 DEF LateComersBehind
  <2> QED BY <1>1, <2>3, <2>4, <2>5, <2>6
<1>3. CASE ~KeepsCpu(ps, rq, k, pr) /\ ps[currpid] = "PRCURR"
  <2> DEFINE ps2 == [ps EXCEPT ![currpid] = "PRREADY"]
             rq2 == Insert(rq, currpid, pr[currpid], k)
             k2 == [k EXCEPT ![currpid] = pr[currpid]]
  <2>1. SwitchToLast(ps2, rq2, k2)
    BY <1>3 DEF Resched
  <2>2. currpid \notin ReadyIn(ps) /\ pr[currpid] \in Int
    BY <1>3 DEF ReadyIn
  <2>3. /\ rq2 \in Seq(Procs) /\ Holds(rq2, ReadyIn(ps) \cup {currpid})
        /\ Ordered(rq2, k2)
    BY <2>2, InsertHolds, InsertOrdered
  <2>4. /\ \A a, b : Before(rq, a, b) => Before(rq2, a, b)
        /\ \A b \in ReadyIn(ps) : k[b] >= pr[currpid] => Before(rq2, currpid, b)
    BY <2>2, BeforeInsert
  <2>5. /\ ps2 \in [Procs -> States] /\ k2 \in [Procs -> Int]
        /\ ReadyIn(ps2) = ReadyIn(ps) \cup {currpid} /\ CurrentIn(ps2) = {}
        /\ ps2[NULLPROC] \in Runnable
        /\ \A p \in ReadyIn(ps2) : k2[p] = pr[p]
        /\ ps2[currpid] = "PRREADY"
        /\ \A c \in Procs \ {currpid} : ps2[c] = ps[c]
    BY <1>3, <2>2, ConstFacts DEF ReadyIn, CurrentIn, States, Runnable
  <2> HIDE DEF ps2, rq2, k2
  <2>6. Staged(ps2, rq2, k2, pr)
    BY <2>3, <2>5
  <2>7. /\ OrderedNext(pr) /\ HighestNext(pr) /\ preempt' = QUANTUM
        /\ PlacesKept(ps2, rq2)
        /\ \A c \in Procs : ps2[c] # "PRREADY" => pstate'[c] = ps2[c]
    BY <2>1, <2>5, <2>6, SwitchOrder
  <2>8. PlacesKept(ps, rq)
    BY <2>4, <2>7 DEF PlacesKept
  <2>9. LateComersBehind(ps, pr)
    <3> SUFFICES ASSUME NEW p \in Procs, NEW c \in Procs,
                        ps[p] = "PRREADY", pstate'[p] = "PRREADY", pr[c] = pr[p],
                        ps[c] # "PRREADY", pstate'[c] = "PRREADY"
                 PROVE  Before(rdyq', c, p)
      BY DEF LateComersBehind
    <3>1. c = currpid
      BY <2>5, <2>7
    <3>2. p \in ReadyIn(ps) /\ k[p] >= pr[currpid]
      BY <3>1, <2>2 DEF ReadyIn
    <3> QED BY <3>1, <3>2, <2>4, <2>7 DEF PlacesKept
  <2>10. QuantumNext(pr)
    BY <2>7, ConstFacts DEF QuantumNext
  <2> QED BY <1>1, <2>7, <2>8, <2>9, <2>10
<1>4. CASE ps[currpid] # "PRCURR"
  <2>1. SwitchToLast(ps, rq, k) /\ CurrentIn(ps) = {}
    BY <1>4 DEF Resched, KeepsCpu, CurrentIn
  <2>2. /\ OrderedNext(pr) /\ HighestNext(pr) /\ preempt' = QUANTUM
        /\ PlacesKept(ps, rq)
        /\ \A c \in Procs : ps[c] # "PRREADY" => pstate'[c] = ps[c]
    BY <2>1, SwitchOrder
  <2>3. LateComersBehind(ps, pr) /\ QuantumNext(pr)
    BY <2>2, ConstFacts DEF LateComersBehind, QuantumNext
  <2> QED BY <1>1, <2>2, <2>3
<1> QED BY <1>2, <1>3, <1>4

-----------------------------------------------------------------------------
(* The inductive invariant of the order, and what a step does to it.       *)

OrderInv == IInv /\ ReadyListByPriority /\ HighestPriorityRuns

(* Points of the kernel from which the way out leads through resched, or   *)
(* past a test of preempt.                                                 *)
Unsettled == {"sdelete", "sreset", "signaln", "wakeup_clkint",
              "wakeup_strtclk", "strtclk", "strtclk_tail"}

(* A process with a ready equal has ticks left.                            *)
QuantumInv ==
    Op \notin Unsettled =>
        \A p \in ReadyIn(pstate) : pprio[p] = pprio[currpid] => preempt > 0

(* If pid waits, it is the first in its queue.                             *)
WaitsFirst(pid) ==
    pstate[pid] = "PRWAIT" =>
        semq[psem[pid]] # <<>> /\ pid = Head(semq[psem[pid]])

(* The body of EqualsTakeTurns.                                            *)
TurnsTaken ==
    \A p, c \in Procs :
        /\ pstate[p] = "PRREADY" /\ pstate'[p] = "PRREADY"
        /\ pprio'[p] = pprio[p] /\ pprio'[c] = pprio[p]
        => /\ pstate[c] # "PRREADY" /\ pstate'[c] = "PRREADY"
                 => Before(rdyq', c, p)
           /\ Before(rdyq, c, p) => pstate'[c] # "PRCURR"

FirstServed == \A p \in Procs : pstate'[p] \in Runnable => WaitsFirst(p)

OrderKept ==
    /\ ReadyListByPriority' /\ HighestPriorityRuns'
    /\ TurnsTaken /\ FirstServed

StepInOrder ==
    OrderKept /\ ("chprio" \notin Calls /\ QuantumInv => QuantumInv')

LEMMA StagedNow ==
    ASSUME OrderInv
    PROVE  /\ Staged(pstate, rdyq, qkey, pprio)
           /\ SchedOKNow /\ pprio \in [Procs -> Int]
<1>1. SchedOKNow /\ pprio \in [Procs -> Int]
  BY SchedInvParts, PprioInt DEF OrderInv, IInv
<1>2. Ordered(rdyq, qkey) /\ \A p \in ReadyIn(pstate) : qkey[p] = pprio[p]
  BY DEF OrderInv, ReadyListByPriority, InState, ReadyIn
<1> QED BY <1>1, <1>2 DEF Staged, SchedOKNow, SchedOK

(* How the tables that a call has set up follow from those it found: equals *)
(* keep their turns, only a process that stops to be runnable leaves the   *)
(* ready list, and a waiter is let go only when it is the first.           *)
FollowsFrom(ps, rq, pr) ==
    /\ \A p, c \in Procs :
          /\ pstate[p] = "PRREADY" /\ ps[p] = "PRREADY" /\ pr[p] = pprio[p]
          /\ ps[c] = "PRREADY" /\ pr[c] = pprio[p]
          /\ Before(rdyq, c, p) \/ pstate[c] # "PRREADY"
          => Before(rq, c, p)
    /\ \A p \in Procs :
          /\ pstate[p] = "PRREADY" => ps[p] = "PRREADY" \/ ps[p] \notin Runnable
          /\ ps[p] \in Runnable => WaitsFirst(p)

(* A call that ends with resched keeps the order ...                       *)
LEMMA ReschedKeeps ==
    ASSUME OrderInv, NEW ps, NEW rq, NEW k, Staged(ps, rq, k, pprio'),
           FollowsFrom(ps, rq, pprio'),
           NEW left \in -1 .. QUANTUM, Resched(ps, rq, k, pprio', left)
    PROVE  StepInOrder
<1>1. /\ OrderedNext(pprio') /\ HighestNext(pprio') /\ QuantumNext(pprio')
      /\ PlacesKept(ps, rq) /\ LateComersBehind(ps, pprio')
      /\ \A p \in Procs : ps[p] \in Runnable <=> pstate'[p] \in Runnable
  BY ReschedOrder
<1>2. ReadyListByPriority'
  BY <1>1 DEF OrderedNext, ReadyListByPriority, InState, ReadyIn
<1>3. HighestPriorityRuns'
  BY <1>1 DEF HighestNext, HighestPriorityRuns, InState, ReadyIn
<1>4. QuantumInv'
  BY <1>1 DEF QuantumNext, QuantumInv
<1>5. FirstServed
  BY <1>1 DEF FirstServed, FollowsFrom
<1>6. ASSUME NEW p \in Procs, NEW c \in Procs,
             pstate[p] = "PRREADY", pstate'[p] = "PRREADY",
             pprio'[p] = pprio[p], pprio'[c] = pprio[p]
      PROVE  /\ pstate[c] # "PRREADY" /\ pstate'[c] = "PRREADY"
                   => Before(rdyq', c, p)
             /\ Before(rdyq, c, p) => pstate'[c] # "PRCURR"
  <2>1. ps[p] = "PRREADY"
    BY <1>1, <1>6 DEF FollowsFrom, Runnable
  <2>2. ASSUME pstate[c] # "PRREADY", pstate'[c] = "PRREADY"
        PROVE  Before(rdyq', c, p)
    <3>1. CASE ps[c] = "PRREADY"
      BY <1>1, <1>6, <2>1, <2>2, <3>1 DEF FollowsFrom, PlacesKept
    <3>2. CASE ps[c] # "PRREADY"
      BY <1>1, <1>6, <2>1, <2>2, <3>2 DEF LateComersBehind
    <3> QED BY <3>1, <3>2
  <2>3. ASSUME Before(rdyq, c, p)
        PROVE  pstate'[c] # "PRCURR"
    <3>1. pstate[c] = "PRREADY"
      BY <2>3, StagedNow, BeforeLast DEF Staged, ReadyIn
    <3>2. CASE ps[c] = "PRREADY"
      BY <1>1, <1>6, <2>1, <2>3, <3>2 DEF FollowsFrom, PlacesKept
    <3>3. CASE ps[c] \notin Runnable
      BY <1>1, <3>3 DEF Runnable
    <3> QED BY <3>1, <3>2, <3>3 DEF FollowsFrom
  <2> QED BY <2>2, <2>3
<1>7. TurnsTaken
  BY <1>6 DEF TurnsTaken
<1> QED BY <1>2, <1>3, <1>4, <1>5, <1>7 DEF StepInOrder, OrderKept

(* ... and so does one that ends without it, if nobody outranks the        *)
(* running process then.                                                   *)
LEMMA ReturnKeeps ==
    ASSUME OrderInv, Staged(pstate', rdyq', qkey', pprio'),
           FollowsFrom(pstate', rdyq', pprio'),
           UNCHANGED currpid, HighestPriorityRuns'
    PROVE  OrderKept
<1>1. ReadyListByPriority'
  BY DEF Staged, ReadyListByPriority, InState, ReadyIn
<1>2. FirstServed
  BY DEF FirstServed, FollowsFrom
<1>3. ASSUME NEW p \in Procs, NEW c \in Procs,
             pstate[p] = "PRREADY", pstate'[p] = "PRREADY",
             pprio'[p] = pprio[p], pprio'[c] = pprio[p]
      PROVE  /\ pstate[c] # "PRREADY" /\ pstate'[c] = "PRREADY"
                   => Before(rdyq', c, p)
             /\ Before(rdyq, c, p) => pstate'[c] # "PRCURR"
  <2>1. pstate[c] # "PRREADY" /\ pstate'[c] = "PRREADY" => Before(rdyq', c, p)
    BY <1>3 DEF FollowsFrom
  <2>2. ASSUME Before(rdyq, c, p)
        PROVE  pstate'[c] # "PRCURR"
    <3>1. pstate[c] = "PRREADY"
      BY <2>2, StagedNow, BeforeLast DEF Staged, ReadyIn
    <3> QED BY <3>1 DEF FollowsFrom, Runnable
  <2> QED BY <2>1, <2>2
<1>4. TurnsTaken
  BY <1>3 DEF TurnsTaken
<1> QED BY <1>1, <1>2, <1>4 DEF OrderKept

-----------------------------------------------------------------------------
(* The moves: all that a step of the kernel may do to the order.           *)

(* No process starts or stops to be runnable and the ready list stays as   *)
(* it is; a loop that is to end with resched goes on.                      *)
QuietMove ==
    /\ UNCHANGED <<rdyq, currpid>>
    /\ \A p \in Procs :
          pstate[p] \in Runnable \/ pstate'[p] \in Runnable =>
              pstate'[p] = pstate[p] /\ pprio'[p] = pprio[p]
    /\ \A p \in ReadyIn(pstate) : qkey'[p] = qkey[p]
    /\ ReschedPending => ReschedPending'
    /\ Op' \notin Unsettled =>
          \/ preempt' > 0
          \/ Op \notin Unsettled /\ (preempt > 0 => preempt' > 0)

LEMMA QuietInOrder ==
    ASSUME OrderInv, IInv', QuietMove
    PROVE  StepInOrder
<1> USE DEF QuietMove
<1>1. /\ Staged(pstate, rdyq, qkey, pprio) /\ SchedOKNow
      /\ pstate[currpid] = "PRCURR" /\ currpid \in Procs
  BY StagedNow DEF SchedOKNow, SchedOK, CurrentIn
<1>2. SchedOKNext /\ pprio' \in [Procs -> Int]
  BY SchedInvParts, ConstFacts DEF IInv, TabOK
<1>3. ReadyIn(pstate') = ReadyIn(pstate)
  BY DEF ReadyIn, Runnable
<1>4. Staged(pstate', rdyq', qkey', pprio')
  <2>1. Ordered(rdyq', qkey')
    BY <1>1, OrderedAgrees DEF Staged, Holds
  <2>2. \A p \in ReadyIn(pstate') : qkey'[p] = pprio'[p]
    BY <1>1, <1>3 DEF Staged, ReadyIn, Runnable
  <2> QED BY <1>2, <2>1, <2>2 DEF Staged, SchedOKNext, SchedOK
<1>5. FollowsFrom(pstate', rdyq', pprio')
  BY DEF FollowsFrom, Runnable, WaitsFirst
<1>6. HighestPriorityRuns'
  <2>1. ASSUME ~ReschedPending', NEW p \in ReadyIn(pstate')
        PROVE  pprio'[p] <= pprio'[currpid']
    <3>1. pprio[p] <= pprio[currpid]
      BY <1>3, <2>1 DEF OrderInv, HighestPriorityRuns, InState, ReadyIn
    <3>2. pprio'[p] = pprio[p] /\ pprio'[currpid] = pprio[currpid]
      BY <1>1, <1>3, <2>1 DEF ReadyIn, Runnable
    <3> QED BY <3>1, <3>2
  <2> QED BY <2>1 DEF HighestPriorityRuns, InState, ReadyIn
<1>7. QuantumInv => QuantumInv'
  <2>1. ASSUME QuantumInv, Op' \notin Unsettled, NEW p \in ReadyIn(pstate'),
               pprio'[p] = pprio'[currpid']
        PROVE  preempt' > 0
    <3>1. pprio'[p] = pprio[p] /\ pprio'[currpid] = pprio[currpid]
      BY <1>1, <1>3, <2>1 DEF ReadyIn, Runnable
    <3> QED BY <1>3, <2>1, <3>1 DEF QuantumInv
  <2> QED BY <2>1 DEF QuantumInv
<1> QED BY <1>4, <1>5, <1>6, <1>7, ReturnKeeps DEF StepInOrder

(* The same for a step that does not touch the tables of the scheduler.    *)
LEMMA UntouchedInOrder ==
    ASSUME OrderInv, IInv', UNCHANGED <<schedVars, pprio>>,
           ReschedPending => ReschedPending',
           Op' \notin Unsettled => Op \notin Unsettled
    PROVE  StepInOrder
<1>1. QuietMove
  BY DEF QuietMove, schedVars
<1> QED BY <1>1, QuietInOrder

(* resched with nothing else changed.                                      *)
LEMMA YieldInOrder ==
    ASSUME OrderInv, UNCHANGED pprio, NEW left \in -1 .. QUANTUM,
           Resched(pstate, rdyq, qkey, pprio, left)
    PROVE  StepInOrder
<1>1. Staged(pstate, rdyq, qkey, pprio')
  BY StagedNow
<1>2. FollowsFrom(pstate, rdyq, pprio')
  BY DEF FollowsFrom, Runnable, WaitsFirst
<1> QED BY <1>1, <1>2, ReschedKeeps

(* The current process gives up the processor.                             *)
LEMMA BlockInOrder ==
    ASSUME OrderInv, UNCHANGED pprio, currpid # NULLPROC,
           NEW s \in States, s \notin Runnable,
           NEW k \in [Procs -> Int],
           \A p \in ReadyIn(pstate) : k[p] = qkey[p],
           Resched([pstate EXCEPT ![currpid] = s], rdyq, k, pprio, preempt)
    PROVE  StepInOrder
<1> DEFINE ps == [pstate EXCEPT ![currpid] = s]
<1>1. /\ Staged(pstate, rdyq, qkey, pprio)
      /\ pstate[currpid] = "PRCURR" /\ preempt \in -1 .. QUANTUM
  BY StagedNow DEF SchedOKNow, SchedOK, CurrentIn
<1>2. /\ ps \in [Procs -> States] /\ ps[currpid] = s
      /\ \A p \in Procs \ {currpid} : ps[p] = pstate[p]
      /\ ReadyIn(ps) = ReadyIn(pstate) /\ CurrentIn(ps) \subseteq {currpid}
      /\ ps[NULLPROC] \in Runnable
  BY <1>1, ConstFacts DEF Staged, ReadyIn, CurrentIn, Runnable
<1> HIDE DEF ps
<1>3. Ordered(rdyq, k)
  BY <1>1, OrderedAgrees DEF Staged, Holds
<1>4. Staged(ps, rdyq, k, pprio')
  BY <1>1, <1>2, <1>3 DEF Staged
<1>5. FollowsFrom(ps, rdyq, pprio')
  BY <1>1, <1>2 DEF FollowsFrom, Runnable, WaitsFirst, Staged
<1> QED BY <1>1, <1>4, <1>5, ReschedKeeps DEF ps

(* ready, before resched or without it.                                    *)
LEMMA ReadyStaged ==
    ASSUME OrderInv, NEW pid \in Procs, pstate[pid] \notin Runnable,
           WaitsFirst(pid)
    PROVE  LET ps == [pstate EXCEPT ![pid] = "PRREADY"]
               rq == Insert(rdyq, pid, pprio[pid], qkey)
               k  == [qkey EXCEPT ![pid] = pprio[pid]]
           IN  Staged(ps, rq, k, pprio) /\ FollowsFrom(ps, rq, pprio)
<1> DEFINE ps == [pstate EXCEPT ![pid] = "PRREADY"]
           rq == Insert(rdyq, pid, pprio[pid], qkey)
           k  == [qkey EXCEPT ![pid] = pprio[pid]]
<1>1. Staged(pstate, rdyq, qkey, pprio) /\ SchedOKNow
  BY StagedNow
<1>2. SchedOK(ps, rq, k, currpid, preempt)
  BY <1>1, ReadyJoins DEF SchedOKNow, Staged
<1>3. pid \notin ReadyIn(pstate) /\ pprio[pid] \in Int
  BY <1>1 DEF ReadyIn, Runnable, Staged
<1>4. Ordered(rq, k)
  BY <1>1, <1>3, InsertOrdered DEF Staged
<1>5. /\ \A a, b : Before(rdyq, a, b) => Before(rq, a, b)
      /\ \A b \in ReadyIn(pstate) : qkey[b] >= pprio[pid] => Before(rq, pid, b)
  BY <1>1, <1>3, BeforeInsert DEF Staged
<1>6. /\ ps[pid] = "PRREADY" /\ k[pid] = pprio[pid]
      /\ \A p \in Procs \ {pid} : ps[p] = pstate[p] /\ k[p] = qkey[p]
  BY <1>1 DEF Staged
<1> HIDE DEF ps, rq, k
<1>7. Staged(ps, rq, k, pprio)
  BY <1>1, <1>2, <1>4, <1>6 DEF Staged, SchedOK, ReadyIn
<1>8. ASSUME NEW p \in Procs, NEW c \in Procs,
             pstate[p] = "PRREADY", ps[c] = "PRREADY", pprio[c] = pprio[p],
             Before(rdyq, c, p) \/ pstate[c] # "PRREADY"
      PROVE  Before(rq, c, p)
  <2>1. CASE pstate[c] # "PRREADY"
    <3>1. c = pid /\ p \in ReadyIn(pstate)
      BY <1>6, <1>8, <2>1 DEF ReadyIn
    <3>2. qkey[p] = pprio[pid]
      BY <3>1, <1>1, <1>8 DEF Staged
    <3> QED BY <1>3, <1>5, <3>1, <3>2
  <2> QED BY <1>5, <1>8, <2>1
<1>9. \A p \in Procs :
          /\ pstate[p] = "PRREADY" => ps[p] = "PRREADY"
          /\ ps[p] \in Runnable => WaitsFirst(p)
  BY <1>6 DEF Runnable, WaitsFirst
<1>10. FollowsFrom(ps, rq, pprio)
  BY <1>8, <1>9 DEF FollowsFrom
<1> QED BY <1>7, <1>10 DEF ps, rq, k

LEMMA ReadyInOrder ==
    ASSUME OrderInv, UNCHANGED pprio, NEW pid \in Procs,
           pstate[pid] \notin Runnable, WaitsFirst(pid), Ready(pid)
    PROVE  StepInOrder
<1> DEFINE ps == [pstate EXCEPT ![pid] = "PRREADY"]
           rq == Insert(rdyq, pid, pprio[pid], qkey)
           k  == [qkey EXCEPT ![pid] = pprio[pid]]
<1>1. Staged(ps, rq, k, pprio') /\ FollowsFrom(ps, rq, pprio')
  BY ReadyStaged
<1>2. Resched(ps, rq, k, pprio', preempt) /\ preempt \in -1 .. QUANTUM
  BY StagedNow DEF Ready, SchedOKNow, SchedOK
<1> HIDE DEF ps, rq, k
<1> QED BY <1>1, <1>2, ReschedKeeps

LEMMA LetGoInOrder ==
    ASSUME OrderInv, UNCHANGED pprio, NEW pid \in Procs,
           pstate[pid] \notin Runnable, WaitsFirst(pid), ReadyNoResched(pid),
           ReschedPending'
    PROVE  StepInOrder
<1> DEFINE ps == [pstate EXCEPT ![pid] = "PRREADY"]
           rq == Insert(rdyq, pid, pprio[pid], qkey)
           k  == [qkey EXCEPT ![pid] = pprio[pid]]
<1>1. Staged(ps, rq, k, pprio') /\ FollowsFrom(ps, rq, pprio')
  BY ReadyStaged
<1>2. pstate' = ps /\ rdyq' = rq /\ qkey' = k /\ currpid' = currpid
  BY DEF ReadyNoResched
<1> HIDE DEF ps, rq, k
<1>3. Staged(pstate', rdyq', qkey', pprio') /\ FollowsFrom(pstate', rdyq', pprio')
  BY <1>1, <1>2 DEF Staged
<1>4. HighestPriorityRuns'
  BY DEF HighestPriorityRuns
<1>5. QuantumInv'
  BY DEF QuantumInv, ReschedPending, Unsettled
<1> QED BY <1>2, <1>3, <1>4, <1>5, ReturnKeeps DEF StepInOrder

(* A ready process leaves the ready list.                                  *)
LEMMA UnreadyInOrder ==
    ASSUME OrderInv, UNCHANGED pprio, NEW pid \in Procs, pid # NULLPROC,
           pstate[pid] = "PRREADY", NEW s \in States, s \notin Runnable,
           pstate' = [pstate EXCEPT ![pid] = s],
           rdyq' = Dequeue(rdyq, pid),
           UNCHANGED <<qkey, currpid, preempt>>,
           ~ReschedPending, Op \notin Unsettled
    PROVE  StepInOrder
<1>1. Staged(pstate, rdyq, qkey, pprio) /\ SchedOKNow
  BY StagedNow
<1>2. SchedOKNext
  BY <1>1, UnreadyStep
<1>3. pid \in ReadyIn(pstate) /\ Ordered(rdyq', qkey')
  <2>1. pid \in ReadyIn(pstate)
    BY DEF ReadyIn
  <2>2. Ordered(Dequeue(rdyq, pid), qkey)
    BY <1>1, <2>1, DequeueOrdered DEF Staged
  <2> QED BY <2>1, <2>2
<1>4. /\ pstate'[pid] = s /\ \A p \in Procs \ {pid} : pstate'[p] = pstate[p]
      /\ ReadyIn(pstate') = ReadyIn(pstate) \ {pid}
  BY <1>1 DEF Staged, ReadyIn, Runnable
<1>5. Staged(pstate', rdyq', qkey', pprio')
  BY <1>1, <1>2, <1>3, <1>4 DEF Staged, SchedOKNext, SchedOK
<1>6. ASSUME NEW p \in Procs, NEW c \in Procs, pstate'[p] = "PRREADY",
             pstate'[c] = "PRREADY", Before(rdyq, c, p) \/ pstate[c] # "PRREADY"
      PROVE  Before(rdyq', c, p)
  <2>1. c # pid /\ p # pid /\ Before(rdyq, c, p)
    BY <1>4, <1>6 DEF Runnable
  <2> QED BY <1>1, <1>3, <2>1, BeforeDequeue DEF Staged
<1>7. FollowsFrom(pstate', rdyq', pprio')
  <2>1. \A p \in Procs :
            /\ pstate[p] = "PRREADY" =>
                  pstate'[p] = "PRREADY" \/ pstate'[p] \notin Runnable
            /\ pstate'[p] \in Runnable => WaitsFirst(p)
    BY <1>4 DEF Runnable, WaitsFirst
  <2> QED BY <1>6, <2>1 DEF FollowsFrom
<1>8. HighestPriorityRuns'
  <2>1. \A p \in ReadyIn(pstate) : pprio[p] <= pprio[currpid]
    BY DEF OrderInv, HighestPriorityRuns, InState, ReadyIn
  <2> QED BY <1>4, <2>1 DEF HighestPriorityRuns, InState, ReadyIn
<1>9. QuantumInv => QuantumInv'
  BY <1>4 DEF QuantumInv
<1> QED BY <1>5, <1>7, <1>8, <1>9, ReturnKeeps DEF StepInOrder

(* A ready process gets a new priority and a new place.                    *)
LEMMA RequeueStaged ==
    ASSUME OrderInv, NEW pid \in Procs, pstate[pid] = "PRREADY",
           NEW newprio \in Int, pprio' = [pprio EXCEPT ![pid] = newprio]
    PROVE  LET rq == Requeue(pid, newprio)
               k  == [qkey EXCEPT ![pid] = newprio]
           IN  /\ Staged(pstate, rq, k, pprio')
               /\ newprio # pprio[pid] => FollowsFrom(pstate, rq, pprio')
<1> DEFINE dq == Dequeue(rdyq, pid)
           rq == Requeue(pid, newprio)
           k  == [qkey EXCEPT ![pid] = newprio]
<1>1. Staged(pstate, rdyq, qkey, pprio) /\ pid \in ReadyIn(pstate)
  BY StagedNow DEF ReadyIn
<1>2. /\ dq \in Seq(Procs) /\ Holds(dq, ReadyIn(pstate) \ {pid})
      /\ Ordered(dq, qkey)
  BY <1>1, DequeueHolds, DequeueOrdered DEF Staged
<1>3. \A a, b : Before(rdyq, a, b) /\ a # pid /\ b # pid => Before(dq, a, b)
  BY <1>1, BeforeDequeue DEF Staged
<1>4. rq = Insert(dq, pid, newprio, qkey)
  BY DEF Requeue
<1> HIDE DEF dq, rq
<1>5. /\ rq \in Seq(Procs)
      /\ Holds(rq, (ReadyIn(pstate) \ {pid}) \cup {pid})
      /\ Ordered(rq, k)
  <2>1. pid \notin ReadyIn(pstate) \ {pid} /\ qkey \in [Procs -> Int]
    BY <1>1 DEF Staged
  <2> QED BY <1>2, <1>4, <2>1, InsertHolds, InsertOrdered
<1>6. /\ \A a, b : Before(dq, a, b) => Before(rq, a, b)
      /\ \A b \in ReadyIn(pstate) \ {pid} : qkey[b] >= newprio => Before(rq, pid, b)
  <2>1. pid \notin ReadyIn(pstate) \ {pid} /\ qkey \in [Procs -> Int]
    BY <1>1 DEF Staged
  <2> QED BY <1>2, <1>4, <2>1, BeforeInsert
<1>7. /\ k \in [Procs -> Int] /\ pprio' \in [Procs -> Int]
      /\ k[pid] = newprio /\ pprio'[pid] = newprio
      /\ \A p \in Procs \ {pid} : k[p] = qkey[p] /\ pprio'[p] = pprio[p]
  BY <1>1 DEF Staged
<1> HIDE DEF k
<1>8. (ReadyIn(pstate) \ {pid}) \cup {pid} = ReadyIn(pstate)
  BY <1>1
<1>9. Staged(pstate, rq, k, pprio')
  <2>1. \A p \in ReadyIn(pstate) : k[p] = pprio'[p]
    BY <1>1, <1>7 DEF Staged, ReadyIn
  <2> QED BY <1>1, <1>5, <1>7, <1>8, <2>1 DEF Staged
<1>10. ASSUME newprio # pprio[pid], NEW p \in Procs, NEW c \in Procs,
              pstate[p] = "PRREADY", pprio'[p] = pprio[p],
              pstate[c] = "PRREADY", pprio'[c] = pprio[p],
              Before(rdyq, c, p)
       PROVE  Before(rq, c, p)
  <2>1. p # pid /\ p \in ReadyIn(pstate)
    BY <1>7, <1>10 DEF ReadyIn
  <2>2. CASE c = pid
    <3>1. qkey[p] = newprio
      BY <1>1, <1>7, <1>10, <2>1, <2>2 DEF Staged
    <3> QED BY <1>6, <2>1, <2>2, <3>1
  <2> QED BY <1>3, <1>6, <1>10, <2>1, <2>2
<1>11. newprio # pprio[pid] => FollowsFrom(pstate, rq, pprio')
  BY <1>10 DEF FollowsFrom, Runnable, WaitsFirst
<1> QED BY <1>9, <1>11 DEF rq, k

LEMMA StatesKept ==
    ASSUME OrderInv, UNCHANGED pstate
    PROVE  TurnsTaken /\ FirstServed
<1>1. FirstServed
  BY DEF FirstServed, WaitsFirst, Runnable
<1>2. ASSUME NEW p, NEW c, Before(rdyq, c, p) PROVE pstate'[c] # "PRCURR"
  BY <1>2, StagedNow, BeforeLast DEF Staged, ReadyIn
<1>3. TurnsTaken
  BY <1>2 DEF TurnsTaken
<1> QED BY <1>1, <1>3

-----------------------------------------------------------------------------
(* Every action is one of the moves.  First the calls.                     *)

LEMMA OutOfKernelSettled ==
    ASSUME Op = "none"
    PROVE  ~ReschedPending /\ Op \notin Unsettled
BY DEF ReschedPending, Unsettled

LEMMA CallerFacts ==
    ASSUME OrderInv, NEW name, Calling(name)
    PROVE  /\ Interruptible /\ Op = "none"
           /\ currpid \in Procs /\ currpid # NULLPROC
           /\ pstate[currpid] = "PRCURR"
           /\ qkey \in [Procs -> Int] /\ preempt \in -1 .. QUANTUM
<1>1. IInv
  BY DEF OrderInv
<1> QED BY <1>1, CallFacts, OutOfKernelFacts, SchedTypes

LEMMA ChPrioInOrder ==
    ASSUME OrderInv, NEW pid \in PidArgs, NEW newprio \in Prios,
           ChPrio(pid, newprio)
    PROVE  StepInOrder
<1>1. /\ Staged(pstate, rdyq, qkey, pprio) /\ SchedOKNow
      /\ pstate[currpid] = "PRCURR" /\ preempt \in -1 .. QUANTUM
  BY StagedNow DEF SchedOKNow, SchedOK, CurrentIn
<1>2. Op = "none" /\ "chprio" \in Calls
  BY OutOfKernelFacts DEF OrderInv, ChPrio, Calling
<1>3. \A p \in ReadyIn(pstate) : pprio[p] <= pprio[currpid]
  BY <1>2, OutOfKernelSettled DEF OrderInv, HighestPriorityRuns, InState, ReadyIn
<1>4. /\ pid \in Procs /\ newprio \in Int
      /\ pprio' = [pprio EXCEPT ![pid] = newprio]
  BY ConstFacts, ProcTabAssumption
     DEF ChPrio, isbadpid, PidArgs, Procs, NULLPROC
<1>5. /\ pprio' \in [Procs -> Int] /\ pprio'[pid] = newprio
      /\ \A p \in Procs \ {pid} : pprio'[p] = pprio[p]
      /\ \A p \in Procs : pprio[p] \in Int
  BY <1>1, <1>4 DEF Staged
<1>6. ASSUME OrderKept PROVE StepInOrder
  BY <1>2, <1>6 DEF StepInOrder
<1>7. CASE /\ pstate[pid] = "PRCURR"
           /\ Resched(pstate, rdyq, qkey, pprio', preempt)
  <2>1. Staged(pstate, rdyq, qkey, pprio')
    BY <1>1, <1>5, <1>7 DEF Staged, ReadyIn
  <2>2. FollowsFrom(pstate, rdyq, pprio')
    BY DEF FollowsFrom, Runnable, WaitsFirst
  <2> QED BY <1>1, <1>7, <2>1, <2>2, ReschedKeeps
<1>8. CASE pstate[pid] = "PRREADY"
  <2> DEFINE rq == Requeue(pid, newprio)
             k  == [qkey EXCEPT ![pid] = newprio]
  <2>1. /\ Staged(pstate, rq, k, pprio')
        /\ newprio # pprio[pid] => FollowsFrom(pstate, rq, pprio')
    BY <1>4, <1>8, RequeueStaged
  <2>2. pid # currpid /\ pprio'[currpid] = pprio[currpid] /\ pid \in ReadyIn(pstate)
    BY <1>1, <1>4, <1>5, <1>8 DEF ReadyIn, Staged
  <2>3. \/ /\ pprio'[currpid] < newprio
           /\ Resched(pstate, rq, k, pprio', preempt)
        \/ /\ pprio'[currpid] >= newprio
           /\ rdyq' = rq /\ qkey' = k
           /\ UNCHANGED <<pstate, currpid, preempt>>
    BY <1>8 DEF ChPrio
  <2> HIDE DEF rq, k
  <2>4. CASE /\ pprio'[currpid] < newprio
             /\ Resched(pstate, rq, k, pprio', preempt)
    <3>1. newprio # pprio[pid]
      <4>1. pprio[pid] <= pprio[currpid] /\ pprio[currpid] < newprio
        BY <1>3, <2>2, <2>4
      <4> QED BY <4>1, <1>1, <1>4, <1>5 DEF Staged
    <3> QED BY <1>1, <2>1, <2>4, <3>1, ReschedKeeps
  <2>5. CASE /\ pprio'[currpid] >= newprio
             /\ rdyq' = rq /\ qkey' = k
             /\ UNCHANGED <<pstate, currpid, preempt>>
    <3>1. ReadyListByPriority'
      BY <2>1, <2>5 DEF Staged, ReadyListByPriority, InState, ReadyIn
    <3>2. ASSUME NEW p \in ReadyIn(pstate) PROVE pprio'[p] <= pprio'[currpid]
      <4>1. CASE p = pid
        BY <1>1, <1>4, <1>5, <2>5, <4>1 DEF Staged
      <4>2. CASE p # pid
        BY <1>3, <1>5, <2>2, <4>2 DEF ReadyIn
      <4> QED BY <4>1, <4>2
    <3>3. HighestPriorityRuns'
      BY <2>5, <3>2 DEF HighestPriorityRuns, InState, ReadyIn
    <3> QED BY <1>6, <2>5, <3>1, <3>3, StatesKept DEF OrderKept
  <2> QED BY <2>3, <2>4, <2>5
<1>9. CASE /\ pstate[pid] = "PRCURR" => newprio >= pprio[pid]
           /\ pstate[pid] # "PRREADY"
           /\ UNCHANGED schedVars
  <2>1. UNCHANGED <<pstate, rdyq, qkey, currpid>>
    BY <1>9 DEF schedVars
  <2>2. \A p \in ReadyIn(pstate) : pprio'[p] = pprio[p]
    BY <1>5, <1>9 DEF ReadyIn
  <2>3. ReadyListByPriority'
    BY <1>1, <2>1, <2>2 DEF Staged, ReadyListByPriority, InState, ReadyIn
  <2>4. pprio'[currpid] >= pprio[currpid]
    <3>1. currpid \in Procs /\ pprio[currpid] \in Int
      BY <1>1, <1>5 DEF Staged
    <3>2. CASE pid = currpid
      BY <1>1, <1>5, <1>9, <3>2
    <3>3. CASE pid # currpid
      BY <1>5, <3>1, <3>3
    <3> QED BY <3>2, <3>3
  <2>5. \A p \in ReadyIn(pstate) : pprio'[p] <= pprio'[currpid]
    <3>1. \A p \in ReadyIn(pstate) : pprio[p] \in Int
      BY <1>5 DEF ReadyIn
    <3> QED BY <1>1, <1>3, <1>5, <2>2, <2>4, <3>1 DEF Staged
  <2>6. HighestPriorityRuns'
    BY <2>1, <2>5 DEF HighestPriorityRuns, InState, ReadyIn
  <2> QED BY <1>6, <2>1, <2>3, <2>6, StatesKept DEF OrderKept
<1> QED BY <1>7, <1>8, <1>9 DEF ChPrio

LEMMA ProcCallInOrder ==
    ASSUME OrderInv, IInv', ProcCall
    PROVE  StepInOrder
<1>1. PICK pid \in PidArgs :
          \/ Suspend(pid)
          \/ Resume(pid)
          \/ \E priority \in Prios : ChPrio(pid, priority)
  BY DEF ProcCall
<1>2. CASE Suspend(pid)
  <2>1. /\ Op = "none" /\ currpid # NULLPROC /\ qkey \in [Procs -> Int]
        /\ pid \in Procs /\ pid # NULLPROC /\ UNCHANGED pprio
    <3>1. Calling("suspend") /\ ~isbadpid(pid) /\ UNCHANGED pprio
      BY <1>2 DEF Suspend, tabVars
    <3>2. pid \in Procs /\ pid # NULLPROC
      BY <3>1, ConstFacts DEF isbadpid, PidArgs, Procs, NULLPROC
    <3> QED BY <3>1, <3>2, CallerFacts
  <2>2. CASE /\ pstate[pid] = "PRREADY"
             /\ rdyq' = Dequeue(rdyq, pid)
             /\ pstate' = [pstate EXCEPT ![pid] = "PRSUSP"]
             /\ UNCHANGED <<qkey, currpid, preempt>>
    BY <2>1, <2>2, OutOfKernelSettled, UnreadyInOrder DEF States, Runnable
  <2>3. CASE Block("PRSUSP")
    BY <2>1, <2>3, BlockInOrder DEF Block, States, Runnable
  <2> QED BY <1>2, <2>2, <2>3 DEF Suspend
<1>3. CASE Resume(pid)
  <2>1. CASE HandleError
    <3>1. UNCHANGED <<schedVars, pprio, kctx, currpid>>
      BY <2>1 DEF HandleError, schedVars
    <3> QED BY <3>1, UntouchedInOrder DEF Op, ReschedPending
  <2>2. CASE Suspended(pid) /\ Ready(pid) /\ UNCHANGED tabVars
    <3>1. pid \in Procs /\ pstate[pid] \notin Runnable /\ WaitsFirst(pid)
      BY <2>2, ConstFacts
         DEF Suspended, isbadpid, PidArgs, Procs, Runnable, WaitsFirst
    <3> QED BY <2>2, <3>1, ReadyInOrder DEF tabVars
  <2> QED BY <1>3, <2>1, <2>2 DEF Resume
<1> QED BY <1>1, <1>2, <1>3, ChPrioInOrder

(* A call that leaves the scheduler's tables alone, refused or not.        *)
LEMMA QuietCall ==
    ASSUME OrderInv, IInv', Op = "none", UNCHANGED <<schedVars, pprio>>
    PROVE  StepInOrder
BY OutOfKernelSettled, UntouchedInOrder

LEMMA ErrorInOrder ==
    ASSUME OrderInv, IInv', Op = "none", HandleError
    PROVE  StepInOrder
<1>1. UNCHANGED <<schedVars, pprio>>
  BY DEF HandleError, schedVars
<1> QED BY <1>1, QuietCall

(* Where Enter leads.                                                      *)
LEMMA EnterGoesTo ==
    ASSUME OrderInv, NEW op, NEW a, NEW n, Enter(op, a, n), UNCHANGED currpid
    PROVE  Op' = op
<1>1. currpid \in Procs /\ currpid \in DOMAIN kctx
  BY SchedInvParts DEF OrderInv, IInv, TabOK, SchedOKNow, SchedOK
<1> QED BY <1>1 DEF Enter, Op, InKernel

(* The first waiter of a semaphore is let go.                              *)
LEMMA FirstIsFirst ==
    ASSUME OrderInv, NEW s \in Sems, semq[s] # <<>>
    PROVE  /\ Head(semq[s]) \in Procs
           /\ pstate[Head(semq[s])] \notin Runnable
           /\ WaitsFirst(Head(semq[s]))
BY FirstWaiter DEF OrderInv, IInv, WaitsFirst, Runnable

LEMMA WaitInOrder ==
    ASSUME OrderInv, IInv', NEW s \in SemArgs, Wait(s)
    PROVE  StepInOrder
<1>1. Op = "none" /\ currpid # NULLPROC /\ qkey \in [Procs -> Int]
  BY CallerFacts DEF Wait
<1>2. CASE HandleError
  BY <1>1, <1>2, ErrorInOrder
<1>3. CASE Block("PRWAIT") /\ UNCHANGED tabVars
  BY <1>1, <1>3, BlockInOrder DEF Block, States, Runnable, tabVars
<1>4. CASE UNCHANGED schedVars /\ UNCHANGED tabVars
  BY <1>1, <1>4, QuietCall DEF tabVars
<1> QED BY <1>2, <1>3, <1>4 DEF Wait, SemError

LEMMA SignalBodyInOrder ==
    ASSUME OrderInv, IInv', Op = "none", NEW s \in SemArgs, SignalBody(s)
    PROVE  StepInOrder
<1>1. CASE HandleError
  BY <1>1, ErrorInOrder
<1>2. CASE SemUsed(s) /\ semcnt[s] < 0 /\ Ready(Head(semq[s])) /\ UNCHANGED tabVars
  <2>1. SemInv
    BY DEF OrderInv, IInv
  <2>2. s \in Sems /\ sstate[s] = "SUSED"
    BY <1>2, <2>1, ConstFacts DEF SemUsed, isbadsem, SemInv, SemTypeOK, SemArgs, Sems
  <2>3. semq[s] # <<>>
    BY <1>2, <2>1, <2>2, SomebodyWaits DEF SemDrains
  <2> QED BY <1>2, <2>2, <2>3, FirstIsFirst, ReadyInOrder DEF tabVars
<1>3. CASE UNCHANGED schedVars /\ UNCHANGED tabVars
  BY <1>3, QuietCall DEF tabVars
<1> QED BY <1>1, <1>2, <1>3 DEF SignalBody, SemError

LEMMA SignalNBodyInOrder ==
    ASSUME OrderInv, IInv', Op = "none", NEW s, NEW count, SignalNBody(s, count)
    PROVE  StepInOrder
<1>1. CASE HandleError
  BY <1>1, ErrorInOrder
<1>2. CASE UNCHANGED schedVars /\ UNCHANGED tabVars
  BY <1>2, QuietCall DEF tabVars
<1> QED BY <1>1, <1>2 DEF SignalNBody, SemError

LEMMA SemCallInOrder ==
    ASSUME OrderInv, IInv', SemCall
    PROVE  StepInOrder
<1>1. ASSUME NEW s \in SemArgs, SDelete(s) PROVE StepInOrder
  BY <1>1, CallerFacts, QuietCall DEF SDelete, tabVars
<1>2. ASSUME NEW s \in SemArgs, Wait(s) PROVE StepInOrder
  BY <1>2, WaitInOrder
<1>3. ASSUME NEW s \in SemArgs, Signal(s) PROVE StepInOrder
  BY <1>3, CallerFacts, SignalBodyInOrder DEF Signal
<1>4. ASSUME NEW count \in Counts, SCreate(count) PROVE StepInOrder
  <2>1. Op = "none"
    BY <1>4, CallerFacts DEF SCreate
  <2>2. HandleError \/ UNCHANGED procVars
    BY <1>4 DEF SCreate, SCreateBody, SemError
  <2>3. UNCHANGED procVars => UNCHANGED <<schedVars, pprio>>
    BY DEF procVars, schedVars
  <2> QED BY <2>1, <2>2, <2>3, ErrorInOrder, QuietCall
<1>5. ASSUME NEW s \in SemArgs, NEW count \in Counts, SReset(s, count)
      PROVE  StepInOrder
  <2>1. Op = "none"
    BY <1>5, CallerFacts DEF SReset
  <2>2. HandleError \/ UNCHANGED <<schedVars, pprio>>
    BY <1>5 DEF SReset, SemError, tabVars
  <2> QED BY <2>1, <2>2, ErrorInOrder, QuietCall
<1>6. ASSUME NEW s \in SemArgs, NEW count \in Counts, SignalN(s, count)
      PROVE  StepInOrder
  BY <1>6, CallerFacts, SignalNBodyInOrder DEF SignalN
<1> QED BY <1>1, <1>2, <1>3, <1>4, <1>5, <1>6 DEF SemCall

LEMMA TtyInterruptInOrder ==
    ASSUME OrderInv, IInv', TtyInterrupt
    PROVE  StepInOrder
<1>1. PICK s \in TtySems : IOInterrupt(s)
  BY DEF TtyInterrupt
<1>2. s \in SemArgs
  BY ConstFacts DEF TtySems, ISEM, OSEM, SemArgs, Sems
<1>3. Op = "none"
  BY <1>1, OutOfKernelFacts DEF IOInterrupt, OrderInv
<1>4. SignalBody(s) \/ \E count \in Counts : SignalNBody(s, count)
  BY <1>1 DEF IOInterrupt
<1> QED BY <1>2, <1>3, <1>4, SignalBodyInOrder, SignalNBodyInOrder

-----------------------------------------------------------------------------
(* The steps inside the kernel.                                            *)

LEMMA InsideFacts ==
    ASSUME OrderInv, NEW op, At(op)
    PROVE  /\ Op = op /\ currpid \in Procs /\ pstate[currpid] = "PRCURR"
           /\ qkey \in [Procs -> Int] /\ preempt \in -1 .. QUANTUM
           /\ SemInv /\ ClkInv
<1>1. IInv
  BY DEF OrderInv
<1> QED BY <1>1, SectionFacts, SchedTypes DEF IInv

LEMMA SemKernelStepInOrder ==
    ASSUME OrderInv, IInv', SemKernelStep
    PROVE  StepInOrder
<1> DEFINE s == kctx[currpid].arg
<1>1. CASE ReleaseWaiter
  <2>1. PICK op \in {"sdelete", "sreset"} :
          /\ At(op)
          /\ semq[s] # <<>>
          /\ ReadyFirstWaiter(s)
          /\ UNCHANGED <<tabVars, kctx>>
    BY <1>1 DEF ReleaseWaiter
  <2>2. Op = op /\ SemInv
    BY <2>1, InsideFacts
  <2>3. s \in Sems
    BY <2>2 DEF SemInv, SemSection
  <2>4. ReadyNoResched(Head(semq[s])) /\ UNCHANGED currpid
    BY <2>1 DEF ReadyFirstWaiter, ReadyNoResched
  <2>5. ReschedPending'
    BY <2>1, <2>2, <2>4 DEF ReschedPending, Op
  <2> QED BY <2>1, <2>3, <2>4, <2>5, FirstIsFirst, LetGoInOrder DEF tabVars
<1>2. CASE SDeleteEnd \/ SResetEnd \/ SignalNEnd
  <2>1. PICK op : At(op) /\ Yield /\ UNCHANGED tabVars
    BY <1>2 DEF SDeleteEnd, SResetEnd, SignalNEnd
  <2> QED BY <2>1, InsideFacts, YieldInOrder DEF Yield, tabVars
<1>3. CASE SignalNStep
  <2>1. At("signaln") /\ UNCHANGED tabVars
    BY <1>3 DEF SignalNStep
  <2>2. Op = "signaln" /\ SemInv
    BY <2>1, InsideFacts
  <2>3. s \in Sems /\ sstate[s] = "SUSED"
    BY <2>2 DEF SemInv, SemSection
  <2>4. CASE semcnt[s] < 0 /\ ReadyFirstWaiter(s)
    <3>1. semq[s] # <<>>
      BY <2>2, <2>3, <2>4, SomebodyWaits DEF SemDrains
    <3>2. ReadyNoResched(Head(semq[s])) /\ UNCHANGED currpid
      BY <2>4 DEF ReadyFirstWaiter, ReadyNoResched
    <3>3. Op' = "signaln"
      BY <1>3, <3>2, EnterGoesTo DEF SignalNStep
    <3> QED BY <2>1, <2>3, <3>1, <3>2, <3>3, FirstIsFirst, LetGoInOrder
            DEF tabVars, ReschedPending
  <2>5. CASE UNCHANGED schedVars
    <3>1. Op' = "signaln"
      BY <1>3, <2>5, EnterGoesTo DEF SignalNStep, schedVars
    <3> QED BY <2>1, <2>5, <3>1, UntouchedInOrder
            DEF tabVars, ReschedPending, Unsettled
  <2> QED BY <1>3, <2>4, <2>5 DEF SignalNStep
<1> QED BY <1>1, <1>2, <1>3 DEF SemKernelStep

LEMMA MsgInOrder ==
    ASSUME OrderInv, IInv', MsgCall \/ ReceiveEnd
    PROVE  StepInOrder
<1>1. ASSUME NEW pid \in PidArgs, NEW msg \in Msgs, Send(pid, msg)
      PROVE  StepInOrder
  <2>1. Op = "none" /\ ~isbadpid(pid) /\ UNCHANGED tabVars
    BY <1>1, CallerFacts DEF Send
  <2>2. CASE pstate[pid] = "PRRECV" /\ Ready(pid)
    <3>1. pid \in Procs /\ pstate[pid] \notin Runnable /\ WaitsFirst(pid)
      BY <2>1, <2>2, ConstFacts DEF isbadpid, PidArgs, Procs, Runnable, WaitsFirst
    <3> QED BY <2>1, <2>2, <3>1, ReadyInOrder DEF tabVars
  <2>3. CASE UNCHANGED schedVars
    BY <2>1, <2>3, QuietCall DEF tabVars
  <2> QED BY <1>1, <2>2, <2>3 DEF Send
<1>2. CASE Receive
  <2>1. /\ Op = "none" /\ currpid # NULLPROC /\ qkey \in [Procs -> Int]
        /\ UNCHANGED tabVars
    BY <1>2, CallerFacts DEF Receive
  <2>2. CASE Block("PRRECV")
    BY <2>1, <2>2, BlockInOrder DEF Block, States, Runnable, tabVars
  <2>3. CASE UNCHANGED schedVars
    BY <2>1, <2>3, QuietCall DEF tabVars
  <2> QED BY <1>2, <2>2, <2>3 DEF Receive
<1>3. CASE RecvClr
  <2>1. Op = "none" /\ UNCHANGED <<schedVars, pprio>>
    BY <1>3, CallerFacts DEF RecvClr, procVars, schedVars
  <2> QED BY <2>1, QuietCall
<1>4. CASE ReceiveEnd
  <2>1. Op = "receive" /\ UNCHANGED <<schedVars, pprio>>
    BY <1>4, InsideFacts DEF ReceiveEnd, tabVars
  <2> QED BY <2>1, UntouchedInOrder DEF ReschedPending, Unsettled
<1> QED BY <1>1, <1>2, <1>3, <1>4 DEF MsgCall

LEMMA ClkCallInOrder ==
    ASSUME OrderInv, IInv', ClkCall \/ SleepNext \/ StopClkStore
    PROVE  StepInOrder
<1>1. ASSUME NEW n \in Seconds, Sleep(n) PROVE StepInOrder
  <2>1. Op = "none" /\ preempt \in -1 .. QUANTUM /\ UNCHANGED tabVars
    BY <1>1, CallerFacts DEF Sleep
  <2>2. CASE Yield
    BY <2>1, <2>2, YieldInOrder DEF Yield, tabVars
  <2>3. CASE UNCHANGED schedVars
    BY <2>1, <2>3, QuietCall DEF tabVars
  <2> QED BY <1>1, <2>2, <2>3 DEF Sleep
<1>2. CASE StopClkLoad
  BY <1>2, CallerFacts, QuietCall DEF StopClkLoad, tabVars
<1>3. CASE SleepNext \/ StopClkStore
  <2>1. Op = "none" /\ UNCHANGED <<schedVars, pprio>>
    BY <1>3, OutOfKernelFacts DEF OrderInv, SleepNext, StopClkStore, tabVars
  <2> QED BY <2>1, QuietCall
<1>4. CASE StrtClk
  <2>1. /\ Op = "none"
        /\ UNCHANGED <<tabVars, pstate, rdyq, qkey, currpid>>
        /\ \/ UNCHANGED preempt
           \/ Enter("strtclk", 1, clkdiff) \/ Enter("strtclk_tail", 0, 0)
    BY <1>4, CallerFacts DEF StrtClk
  <2>2. UNCHANGED preempt \/ Op' \in Unsettled
    BY <2>1, EnterGoesTo DEF Unsettled
  <2>3. QuietMove
    BY <2>1, <2>2, OutOfKernelSettled DEF QuietMove, tabVars
  <2> QED BY <2>3, QuietInOrder
<1> QED BY <1>1, <1>2, <1>3, <1>4 DEF ClkCall

(* The entries of the sleep queue are not runnable: their keys may change. *)
LEMMA SleeperNotReady ==
    ASSUME OrderInv, NEW i \in 1 .. Len(clockq)
    PROVE  /\ clockq[i] \in Procs /\ pstate[clockq[i]] \notin Runnable
           /\ clockq[i] # currpid
<1>1. IInv /\ pstate[currpid] = "PRCURR"
  BY StagedNow DEF OrderInv, SchedOKNow, SchedOK, CurrentIn
<1> QED BY <1>1, SchedTypes DEF Runnable

LEMMA FirstSleeper ==
    ASSUME OrderInv, clockq # <<>>
    PROVE  Head(clockq) = clockq[1] /\ 1 \in 1 .. Len(clockq)
<1>1. clockq \in Seq(Procs)
  BY SchedTypes DEF OrderInv
<1>2. Len(clockq) \in Nat /\ (Len(clockq) = 0 => clockq = <<>>)
  BY <1>1, LenProperties, EmptySeq
<1> QED BY <1>1, <1>2, HeadTailProperties

LEMMA ClkIntInOrder ==
    ASSUME OrderInv, IInv', ClkInt
    PROVE  StepInOrder
<1>1. /\ Op = "none"
      /\ UNCHANGED <<tabVars, pstate, rdyq, currpid, preempt>>
  BY OutOfKernelFacts DEF ClkInt, OrderInv
<1>2. \A p \in ReadyIn(pstate) : qkey'[p] = qkey[p]
  <2>1. CASE UNCHANGED qkey
    BY <2>1
  <2>2. CASE slnempty /\ qkey' = [qkey EXCEPT ![sltop] = @ - 1]
    <3>1. clockq # <<>> /\ sltop = Head(clockq)
      BY <1>1, <2>2 DEF OrderInv, IInv, ClkInv, SleepTopAgrees
    <3>2. sltop \notin ReadyIn(pstate)
      BY <3>1, FirstSleeper, SleeperNotReady DEF ReadyIn, Runnable
    <3>3. qkey \in [Procs -> Int]
      BY SchedTypes DEF OrderInv
    <3> QED BY <2>2, <3>2, <3>3 DEF ReadyIn
  <2> QED BY <2>1, <2>2 DEF ClkInt
<1>3. QuietMove
  BY <1>1, <1>2, OutOfKernelSettled DEF QuietMove, tabVars
<1> QED BY <1>3, QuietInOrder

LEMMA InsertdEndInOrder ==
    ASSUME OrderInv, InsertdEnd
    PROVE  StepInOrder
<1> DEFINE i == kctx[currpid].arg
           n == kctx[currpid].n
           b == clockq[i]
           k0 == [qkey EXCEPT ![currpid] = n]
           k1 == [k0 EXCEPT ![b] = @ - n]
<1>1. /\ Op = "insertd" /\ currpid \in Procs /\ pstate[currpid] = "PRCURR"
      /\ qkey \in [Procs -> Int] /\ ClkInv /\ UNCHANGED tabVars
  BY InsideFacts DEF InsertdEnd
<1>2. /\ i \in 1 .. Len(clockq) + 1 /\ n \in Int /\ currpid # NULLPROC
      /\ Len(clockq) \in Nat
  <2>1. IInv /\ TabOK
    BY SchedInvParts DEF OrderInv, IInv
  <2> QED BY <1>1, <2>1, SchedTypes, LenProperties DEF ClkInv, ClkSection, TabOK
<1>3. \/ Resched([pstate EXCEPT ![currpid] = "PRSLEEP"], rdyq, k0, pprio, preempt)
      \/ /\ i <= Len(clockq)
         /\ Resched([pstate EXCEPT ![currpid] = "PRSLEEP"], rdyq, k1, pprio, preempt)
  BY DEF InsertdEnd
<1> HIDE DEF i, n, b
<1>4. /\ k0 \in [Procs -> Int] /\ k0[currpid] = n
      /\ \A p \in Procs \ {currpid} : k0[p] = qkey[p]
  BY <1>1, <1>2
<1>5. currpid \notin ReadyIn(pstate) /\ "PRSLEEP" \in States \ Runnable
  BY <1>1 DEF ReadyIn, States, Runnable
<1> HIDE DEF k0
<1>6. CASE Resched([pstate EXCEPT ![currpid] = "PRSLEEP"], rdyq, k0, pprio, preempt)
  <2>1. \A p \in ReadyIn(pstate) : k0[p] = qkey[p]
    BY <1>4, <1>5 DEF ReadyIn
  <2> QED BY <1>1, <1>2, <1>4, <1>5, <1>6, <2>1, BlockInOrder DEF tabVars
<1>7. CASE /\ i <= Len(clockq)
           /\ Resched([pstate EXCEPT ![currpid] = "PRSLEEP"], rdyq, k1, pprio, preempt)
  <2>1. b \in Procs /\ b \notin ReadyIn(pstate) /\ b # currpid
    <3>1. i \in 1 .. Len(clockq)
      BY <1>2, <1>7
    <3> QED BY <3>1, SleeperNotReady DEF b, ReadyIn, Runnable
  <2>2. k1 \in [Procs -> Int]
    BY <1>2, <1>4, <2>1
  <2>3. \A p \in ReadyIn(pstate) : k1[p] = qkey[p]
    BY <1>4, <1>5, <2>1 DEF ReadyIn
  <2> HIDE DEF k1
  <2> QED BY <1>1, <1>2, <1>5, <1>7, <2>2, <2>3, BlockInOrder DEF tabVars
<1> QED BY <1>3, <1>6, <1>7

LEMMA ClkKernelStepInOrder ==
    ASSUME OrderInv, IInv', ClkKernelStep
    PROVE  StepInOrder
<1> DEFINE i == kctx[currpid].arg
<1>1. CASE InsertdWalk
  <2>1. Op = "insertd" /\ UNCHANGED <<schedVars, pprio>>
    BY <1>1, InsideFacts DEF InsertdWalk, tabVars
  <2> QED BY <2>1, UntouchedInOrder DEF ReschedPending, Unsettled
<1>2. CASE WakeupFirst
  <2>1. PICK op \in {"wakeup_clkint", "wakeup_strtclk"} : At(op)
    BY <1>2 DEF WakeupFirst
  <2>2. /\ Op = op /\ clockq # <<>> /\ ReadyNoResched(Head(clockq))
        /\ UNCHANGED <<tabVars, kctx>>
    BY <1>2, <2>1, InsideFacts DEF WakeupFirst
  <2>3. /\ Head(clockq) \in Procs /\ pstate[Head(clockq)] = "PRSLEEP"
    BY <2>2, FirstSleeper, SchedTypes DEF OrderInv
  <2>4. ReschedPending'
    BY <2>2 DEF ReadyNoResched, ReschedPending, Op
  <2> QED BY <2>2, <2>3, <2>4, LetGoInOrder DEF tabVars, WaitsFirst, Runnable
<1>3. CASE WakeupEnd
  <2>1. PICK op : At(op) /\ Yield /\ UNCHANGED tabVars
    BY <1>3 DEF WakeupEnd
  <2> QED BY <2>1, InsideFacts, YieldInOrder DEF Yield, tabVars
<1>4. CASE ClkIntEnd
  <2>1. Op = "clkint" /\ preempt \in -1 .. QUANTUM /\ UNCHANGED tabVars
    BY <1>4, InsideFacts DEF ClkIntEnd
  <2>2. CASE Resched(pstate, rdyq, qkey, pprio, 0)
    BY <2>1, <2>2, ConstFacts, YieldInOrder, 0 \in -1 .. QUANTUM DEF tabVars
  <2>3. CASE /\ PreemptMinus(1) # 0
             /\ preempt' = PreemptMinus(1)
             /\ UNCHANGED <<pstate, rdyq, qkey, currpid>>
    <3>1. preempt > 0 => preempt' > 0
      BY <2>1, <2>3 DEF PreemptMinus
    <3>2. QuietMove
      BY <2>1, <2>3, <3>1 DEF QuietMove, tabVars, ReschedPending, Unsettled
    <3> QED BY <3>2, QuietInOrder
  <2> QED BY <1>4, <2>2, <2>3 DEF ClkIntEnd
<1>5. CASE StrtClkWalk \/ StrtClkWalkDone
  <2>1. Op = "strtclk" /\ UNCHANGED <<tabVars, pstate, rdyq, currpid, preempt>>
    BY <1>5, InsideFacts DEF StrtClkWalk, StrtClkWalkDone
  <2>2. Op' \in Unsettled
    BY <1>5, <2>1, EnterGoesTo DEF StrtClkWalk, StrtClkWalkDone, Unsettled
  <2>3. i \in 1 .. Len(clockq) + 1 /\ Len(clockq) \in Nat /\ qkey \in [Procs -> Int]
    <3>1. IInv /\ ClkInv
      BY DEF OrderInv, IInv
    <3> QED BY <2>1, <3>1, SchedTypes, LenProperties DEF ClkInv, ClkSection
  <2>4. \/ UNCHANGED qkey
        \/ i <= Len(clockq) /\ \E key : qkey' = [qkey EXCEPT ![clockq[i]] = key]
    BY <1>5 DEF StrtClkWalk, StrtClkWalkDone
  <2> HIDE DEF i
  <2>5. ASSUME NEW p \in ReadyIn(pstate) PROVE qkey'[p] = qkey[p]
    <3>1. CASE i <= Len(clockq) /\ \E key : qkey' = [qkey EXCEPT ![clockq[i]] = key]
      <4>1. i \in 1 .. Len(clockq)
        BY <2>3, <3>1
      <4>2. p # clockq[i] /\ p \in Procs
        BY <4>1, SleeperNotReady DEF ReadyIn, Runnable
      <4> QED BY <2>3, <3>1, <4>2
    <3> QED BY <2>4, <3>1
  <2>6. QuietMove
    BY <2>1, <2>2, <2>5 DEF QuietMove, tabVars, ReschedPending
  <2> QED BY <2>6, QuietInOrder
<1>6. CASE StrtClkEnd
  <2>1. Op = "strtclk_tail" /\ preempt \in -1 .. QUANTUM /\ UNCHANGED tabVars
    BY <1>6, InsideFacts DEF StrtClkEnd
  <2>2. CASE Yield
    BY <2>1, <2>2, YieldInOrder DEF Yield, tabVars
  <2>3. CASE preempt > 0 /\ UNCHANGED schedVars
    <3>1. QuietMove
      BY <2>1, <2>3 DEF QuietMove, tabVars, schedVars, ReschedPending
    <3> QED BY <3>1, QuietInOrder
  <2> QED BY <1>6, <2>2, <2>3 DEF StrtClkEnd
<1> QED BY <1>1, <1>2, <1>3, <1>4, <1>5, <1>6, InsertdEndInOrder DEF ClkKernelStep

LEMMA CreateInOrder ==
    ASSUME OrderInv, IInv', NEW ssize, NEW priority, Create(ssize, priority)
    PROVE  StepInOrder
<1>1. Op = "none"
  BY CallerFacts DEF Create
<1>2. CASE HandleError
  BY <1>1, <1>2, ErrorInOrder
<1>3. ASSUME NEW pid \in Procs, NewProcess(pid, ssize, priority)
      PROVE  StepInOrder
  <2>1. /\ pstate[pid] = "PRFREE"
        /\ pstate' = [pstate EXCEPT ![pid] = "PRSUSP"]
        /\ pprio' = [pprio EXCEPT ![pid] = priority]
        /\ UNCHANGED <<rdyq, qkey, currpid, preempt>>
    BY <1>3 DEF NewProcess, IsNewPid
  <2>2. pstate \in [Procs -> States] /\ pprio \in [Procs -> Int]
    BY StagedNow DEF Staged
  <2>3. \A p \in Procs :
            pstate[p] \in Runnable \/ pstate'[p] \in Runnable =>
                pstate'[p] = pstate[p] /\ pprio'[p] = pprio[p]
    BY <2>1, <2>2 DEF Runnable
  <2>4. QuietMove
    BY <1>1, <2>1, <2>3, OutOfKernelSettled DEF QuietMove
  <2> QED BY <2>4, QuietInOrder
<1> QED BY <1>2, <1>3 DEF Create, SemError

LEMMA KillInOrder ==
    ASSUME OrderInv, IInv', NEW pid \in PidArgs, Kill(pid)
    PROVE  StepInOrder
<1>1. /\ Op = "none" /\ currpid # NULLPROC
      /\ qkey \in [Procs -> Int] /\ pstate \in [Procs -> States]
      /\ pid \in Procs /\ pid # NULLPROC /\ UNCHANGED pprio
      /\ ~ReschedPending /\ Op \notin Unsettled
      /\ "PRFREE" \in States /\ "PRFREE" \notin Runnable
  <2>1. IInv /\ Calling("kill") /\ UNCHANGED pprio
    BY DEF Kill, OrderInv
  <2>2. pid \in Procs /\ pid # NULLPROC /\ pstate \in [Procs -> States]
    BY <2>1, KillFacts, SchedTypes
  <2> QED BY <2>1, <2>2, CallerFacts, OutOfKernelSettled DEF States, Runnable
<1>2. CASE KillCurrent(pid)
  BY <1>1, <1>2, BlockInOrder DEF KillCurrent, Block
<1>3. CASE KillReady(pid)
  BY <1>1, <1>3, UnreadyInOrder DEF KillReady
<1>4. CASE KillWaiting(pid) \/ KillSleeping(pid) \/ KillOffQueues(pid)
  <2>1. /\ pstate[pid] \notin Runnable
        /\ pstate' = [pstate EXCEPT ![pid] = "PRFREE"]
        /\ UNCHANGED <<rdyq, currpid, preempt>>
    BY <1>4 DEF KillWaiting, KillSleeping, KillOffQueues, Runnable
  <2>2. ASSUME NEW p \in ReadyIn(pstate) PROVE qkey'[p] = qkey[p]
    <3>1. CASE UNCHANGED qkey
      BY <3>1
    <3>2. CASE qkey' = [o \in Procs |-> IF o \in Successors(pid)
                                        THEN qkey[o] + qkey[pid] ELSE qkey[o]]
      <4>1. ASSUME NEW o \in Successors(pid) PROVE pstate[o] \notin Runnable
        <5>1. PICK j \in 2 .. Len(clockq) : o = clockq[j]
          BY DEF Successors
        <5>2. j \in 1 .. Len(clockq)
          OBVIOUS
        <5> QED BY <5>1, <5>2, SleeperNotReady
      <4>2. p \notin Successors(pid) /\ p \in Procs
        BY <4>1 DEF ReadyIn, Runnable
      <4> QED BY <3>2, <4>2
    <3> QED BY <1>4, <3>1, <3>2 DEF KillWaiting, KillSleeping, KillOffQueues
  <2>3. \A p \in Procs :
            pstate[p] \in Runnable \/ pstate'[p] \in Runnable =>
                pstate'[p] = pstate[p] /\ pprio'[p] = pprio[p]
    BY <1>1, <2>1 DEF Runnable
  <2>4. QuietMove
    BY <1>1, <2>1, <2>2, <2>3 DEF QuietMove
  <2> QED BY <2>4, QuietInOrder
<1> QED BY <1>2, <1>3, <1>4 DEF Kill

LEMMA StutterInOrder ==
    ASSUME OrderInv, IInv', UNCHANGED vars
    PROVE  StepInOrder
<1>1. UNCHANGED <<schedVars, pprio, kctx>>
  BY DEF vars, procVars, schedVars
<1> QED BY <1>1, UntouchedInOrder DEF ReschedPending, Op, schedVars

LEMMA NextInOrder == OrderInv /\ [Next]_vars => StepInOrder /\ IInv'
<1> SUFFICES ASSUME OrderInv, [Next]_vars PROVE StepInOrder /\ IInv'
  OBVIOUS
<1>1. IInv'
  BY IInvKept DEF OrderInv
<1>2. CASE Call
  BY <1>1, <1>2, ProcCallInOrder, SemCallInOrder, MsgInOrder, ClkCallInOrder,
     CreateInOrder, KillInOrder DEF Call
<1>3. CASE KernelStep
  BY <1>1, <1>3, SemKernelStepInOrder, MsgInOrder, ClkKernelStepInOrder
     DEF KernelStep
<1>4. CASE UserStep
  BY <1>1, <1>4, ClkCallInOrder DEF UserStep
<1>5. CASE ClockInterrupt
  BY <1>1, <1>5, ClkIntInOrder DEF ClockInterrupt
<1>6. CASE TtyInterrupt
  BY <1>1, <1>6, TtyInterruptInOrder
<1>7. CASE UNCHANGED vars
  BY <1>1, <1>7, StutterInOrder
<1> QED BY <1>1, <1>2, <1>3, <1>4, <1>5, <1>6, <1>7 DEF Next, Gone

LEMMA InitOrder == Init => OrderInv /\ QuantumInv
<1> SUFFICES ASSUME Init PROVE OrderInv /\ QuantumInv
  OBVIOUS
<1>1. IInv
  BY InitIInv
<1>2. /\ FirstUser \in Procs /\ FirstUser # NULLPROC /\ NULLPROC \in Procs
      /\ rdyq = <<NULLPROC>> /\ currpid = FirstUser /\ preempt = QUANTUM
      /\ pprio = [p \in Procs |-> IF p = FirstUser THEN INITPRIO ELSE 0]
      /\ qkey = [p \in Procs |-> IF p = FirstUser THEN INITPRIO ELSE 0]
  BY ConstFacts DEF Init, ProcInit, FirstUser, Procs, NULLPROC
<1>3. /\ pprio[NULLPROC] = 0 /\ qkey[NULLPROC] = 0 /\ pprio[currpid] = INITPRIO
  BY <1>2
<1>4. ReadyIn(pstate) = {NULLPROC}
  BY <1>2 DEF Init, ProcInit, ReadyIn
<1>5. ReadyListByPriority
  <2>1. Ordered(rdyq, qkey)
    <3>1. DOMAIN <<NULLPROC>> = {1}
      OBVIOUS
    <3> QED BY <1>2, <3>1 DEF Ordered
  <2> QED BY <1>3, <1>4, <2>1 DEF ReadyListByPriority, InState, ReadyIn
<1>6. HighestPriorityRuns /\ QuantumInv
  BY <1>2, <1>3, <1>4, ConstFacts
     DEF HighestPriorityRuns, QuantumInv, InState, ReadyIn
<1> QED BY <1>1, <1>5, <1>6 DEF OrderInv

-----------------------------------------------------------------------------
(* The inductive invariant of the order holds for every value of the       *)
(* constants.                                                              *)
THEOREM OrderInvariant == Spec => []OrderInv
<1>1. OrderInv /\ [Next]_vars => OrderInv'
  BY NextInOrder DEF StepInOrder, OrderKept, OrderInv
<1> QED BY <1>1, InitOrder, PTL DEF Spec

(* The ready list is in the order of priorities whatever chprio, ready and *)
(* resched do to it, and no key is a priority of the past.                 *)
THEOREM ReadyListAlwaysByPriority == Spec => []ReadyListByPriority
<1>1. OrderInv => ReadyListByPriority
  BY DEF OrderInv
<1> QED BY <1>1, OrderInvariant, PTL

(* Outside the loops that end with resched no ready process outranks the   *)
(* running one: no call or interrupt forgets to reschedule.                *)
THEOREM HighestPriorityAlwaysRuns == Spec => []HighestPriorityRuns
<1>1. OrderInv => HighestPriorityRuns
  BY DEF OrderInv
<1> QED BY <1>1, OrderInvariant, PTL

(* Processes of one priority take turns: who becomes ready goes behind its *)
(* equals, and none is overtaken by an equal that became ready later.      *)
THEOREM EqualsAlwaysTakeTurns == Spec => EqualsTakeTurns
<1>1. OrderInv /\ [Next]_vars => [TurnsTaken]_vars
  BY NextInOrder DEF StepInOrder, OrderKept
<1> QED BY <1>1, OrderInvariant, PTL DEF Spec, EqualsTakeTurns, TurnsTaken

(* A semaphore lets its waiters go in the order in which they came.        *)
THEOREM WaitersAlwaysServedInOrder == Spec => WaitersServedInOrder
<1> DEFINE Served == \A s \in Sems : \A a, b \in Procs :
                         /\ Before(semq[s], a, b)
                         /\ pstate'[b] \in {"PRREADY", "PRCURR"}
                         => pstate'[a] # "PRWAIT"
<1>1. OrderInv /\ [Next]_vars => [Served]_vars
  <2> SUFFICES ASSUME OrderInv, [Next]_vars,
                      NEW s \in Sems, NEW a \in Procs, NEW b \in Procs,
                      Before(semq[s], a, b), pstate'[b] \in {"PRREADY", "PRCURR"}
               PROVE  FALSE
    OBVIOUS
  <2>1. WaitsFirst(b)
    BY NextInOrder DEF StepInOrder, OrderKept, FirstServed, Runnable
  <2>2. semq[s] \in Seq(Procs) /\ Holds(semq[s], WaitingOn(s))
    BY DEF OrderInv, IInv, SemInv, SemTypeOK, SemQueuesAgree
  <2>3. b \in WaitingOn(s) /\ b # Head(semq[s])
    BY <2>2, BeforeLast
  <2> QED BY <2>1, <2>3 DEF WaitsFirst, WaitingOn, InState
<1> QED BY <1>1, OrderInvariant, PTL DEF Spec, WaitersServedInOrder

(* As long as nobody changes priorities, a process with a ready equal has  *)
(* ticks left that run out, so that its equals get their turn.             *)
THEOREM QuantumAlwaysRunsOut ==
    ASSUME "chprio" \notin Calls
    PROVE  Spec => []QuantumRunsOut
<1>1. Init => OrderInv /\ QuantumInv
  BY InitOrder
<1>2. OrderInv /\ QuantumInv /\ [Next]_vars => (OrderInv /\ QuantumInv)'
  BY NextInOrder DEF StepInOrder, OrderKept, OrderInv
<1>3. OrderInv /\ QuantumInv => QuantumRunsOut
  <2> SUFFICES ASSUME OrderInv, QuantumInv, Op = "none",
                      NEW p \in ReadyIn(pstate), pprio[p] = pprio[currpid]
               PROVE  preempt \in 1 .. QUANTUM
    BY DEF QuantumRunsOut, InState, ReadyIn
  <2>1. preempt > 0
    BY OutOfKernelSettled DEF QuantumInv
  <2>2. preempt \in -1 .. QUANTUM
    BY SchedTypes DEF OrderInv
  <2> QED BY <2>1, <2>2, ConstFacts
<1> QED BY <1>1, <1>2, <1>3, PTL DEF Spec

-----------------------------------------------------------------------------
(* Messages.  The status "has a message", the state PRRECV and the place   *)
(* inside receive belong to three files; what has to tie them for process  *)
(* p after a step:                                                         *)

RecvTied(p) ==
    /\ kctx'[p].op = "receive" => (phasmsg'[p] <=> pstate'[p] # "PRRECV")
    /\ pstate'[p] = "PRRECV" => kctx'[p].op = "receive"

(* A step that leaves the three of them alone.                             *)
ReceivesOn(p) == kctx'[p].op = "receive" <=> kctx[p].op = "receive"
RecvKept(p) == pstate'[p] = "PRRECV" <=> pstate[p] = "PRRECV"

LEMMA RecvFrame ==
    ASSUME ReceiverFindsMessage, UNCHANGED phasmsg,
           \A p \in Procs : ReceivesOn(p) /\ RecvKept(p)
    PROVE  ReceiverFindsMessage'
BY DEF ReceiverFindsMessage, ReceivesOn, RecvKept

(* A step that touches them for one process only.                          *)
LEMMA RecvFrameBut ==
    ASSUME ReceiverFindsMessage, NEW pid \in Procs, RecvTied(pid),
           \A p \in Procs \ {pid} :
               ReceivesOn(p) /\ RecvKept(p) /\ phasmsg'[p] = phasmsg[p]
    PROVE  ReceiverFindsMessage'
BY DEF ReceiverFindsMessage, ReceivesOn, RecvKept, RecvTied

(* Going on to another point of the kernel, or leaving it, from a point    *)
(* that is not inside receive.                                             *)
LEMMA ElsewhereReceivesOn ==
    ASSUME IInv, Op # "receive",
           Leave \/ \E op \in KernelOps \ {"receive"} : \E a, n : Enter(op, a, n)
    PROVE  \A p \in Procs : ReceivesOn(p)
<1>1. currpid \in Procs /\ currpid \in DOMAIN kctx /\ DOMAIN kctx = Procs
  BY DEF IInv, SchedInv, ProcTypeOK
<1>2. PICK r : r.op # "receive" /\ kctx' = [kctx EXCEPT ![currpid] = r]
  <2>1. CASE Leave
    <3>1. OutOfKernel.op = "none"
      BY DEF OutOfKernel, InKernel
    <3> QED BY <2>1, <3>1 DEF Leave
  <2>2. ASSUME NEW op \in KernelOps \ {"receive"}, NEW a, NEW n, Enter(op, a, n)
        PROVE  \E r : r.op # "receive" /\ kctx' = [kctx EXCEPT ![currpid] = r]
    <3>1. InKernel(op, a, n).op = op
      BY DEF InKernel
    <3> QED BY <2>2, <3>1 DEF Enter
  <2> QED BY <2>1, <2>2
<1> QED BY <1>1, <1>2 DEF Op, ReceivesOn

LEMMA YieldRecv ==
    ASSUME IInv, NEW pr \in [Procs -> Int], NEW left \in -1 .. QUANTUM,
           Resched(pstate, rdyq, qkey, pr, left)
    PROVE  \A p \in Procs : RecvKept(p)
<1>1. \A p \in Procs : Kept(p)
  BY SchedInvParts, YieldStep DEF IInv
<1> QED BY <1>1 DEF Kept, RecvKept, Runnable

LEMMA ReadyRecv ==
    ASSUME IInv, NEW pid \in Procs, pstate[pid] \notin Runnable,
           Ready(pid) \/ ReadyNoResched(pid)
    PROVE  /\ pstate'[pid] \in Runnable
           /\ \A p \in Procs \ {pid} : RecvKept(p)
           /\ pstate[pid] # "PRRECV" => RecvKept(pid)
<1>1. pstate'[pid] \in Runnable /\ \A p \in Procs \ {pid} : Kept(p)
  BY SchedInvParts, PprioInt, ReadyStep, ReadyNoReschedStep DEF IInv, Runnable
<1> QED BY <1>1 DEF Kept, RecvKept, Runnable

LEMMA BlockRecv ==
    ASSUME IInv, currpid # NULLPROC, NEW s \in States, s \notin Runnable,
           NEW k \in [Procs -> Int],
           Resched([pstate EXCEPT ![currpid] = s], rdyq, k, pprio, preempt)
    PROVE  /\ pstate'[currpid] = s
           /\ \A p \in Procs \ {currpid} : RecvKept(p)
           /\ s # "PRRECV" => RecvKept(currpid)
<1>1. SchedOKNow /\ pprio \in [Procs -> Int] /\ pstate[currpid] = "PRCURR"
  BY SchedInvParts, PprioInt DEF IInv, SchedOKNow, SchedOK, CurrentIn
<1>2. /\ pstate'[currpid] = s
      /\ \A p \in Procs \ {currpid} :
            /\ pstate[p] \in Runnable <=> pstate'[p] \in Runnable
            /\ pstate[p] \notin Runnable => pstate'[p] = pstate[p]
  BY <1>1, BlockStep
<1> QED BY <1>1, <1>2 DEF RecvKept, Runnable

LEMMA UntouchedRecv ==
    ASSUME ReceiverFindsMessage, UNCHANGED phasmsg, UNCHANGED pstate,
           \A p \in Procs : ReceivesOn(p)
    PROVE  ReceiverFindsMessage'
BY RecvFrame DEF RecvKept

RecvInv == OrderInv /\ ReceiverFindsMessage

LEMMA ProcCallRecv ==
    ASSUME RecvInv, ProcCall
    PROVE  ReceiverFindsMessage'
<1>1. OrderInv /\ IInv /\ ReceiverFindsMessage /\ UNCHANGED phasmsg
  BY DEF RecvInv, OrderInv, ProcCall, msgVars
<1>2. PICK pid \in PidArgs :
          \/ Suspend(pid)
          \/ Resume(pid)
          \/ \E newprio \in Prios : ChPrio(pid, newprio)
  BY DEF ProcCall
<1>3. UNCHANGED kctx /\ \A p \in Procs : ReceivesOn(p)
  BY <1>2 DEF Suspend, Resume, ChPrio, HandleError, ReceivesOn
<1>4. qkey \in [Procs -> Int] /\ preempt \in -1 .. QUANTUM /\ pstate \in [Procs -> States]
  BY <1>1, SchedTypes
<1>5. CASE Suspend(pid)
  <2>1. currpid # NULLPROC /\ Calling("suspend")
    BY <1>5 DEF Suspend, Calling
  <2>2. CASE pstate[pid] = "PRREADY" /\ pstate' = [pstate EXCEPT ![pid] = "PRSUSP"]
    BY <1>1, <1>3, <1>4, <2>2, RecvFrame DEF RecvKept
  <2>3. CASE Block("PRSUSP")
    BY <1>1, <1>3, <1>4, <2>1, <2>3, BlockRecv, RecvFrame DEF Block, States, Runnable
  <2> QED BY <1>5, <2>2, <2>3 DEF Suspend
<1>6. CASE Resume(pid)
  <2>1. CASE HandleError
    BY <1>1, <1>3, <2>1, UntouchedRecv DEF HandleError
  <2>2. CASE Suspended(pid) /\ Ready(pid)
    <3>1. pid \in Procs /\ pstate[pid] = "PRSUSP"
      BY <2>2, ConstFacts DEF Suspended, isbadpid, PidArgs, Procs
    <3> QED BY <1>1, <1>3, <2>2, <3>1, ReadyRecv, RecvFrame DEF Runnable
  <2> QED BY <1>6, <2>1, <2>2 DEF Resume
<1>7. ASSUME NEW newprio \in Prios, ChPrio(pid, newprio)
      PROVE  ReceiverFindsMessage'
  <2>1. /\ pid \in Procs /\ newprio \in Int /\ pprio \in [Procs -> Int]
        /\ pprio' = [pprio EXCEPT ![pid] = newprio]
    BY <1>1, <1>7, StagedNow, ConstFacts, ProcTabAssumption
       DEF ChPrio, isbadpid, PidArgs, Procs, NULLPROC
  <2>2. pprio' \in [Procs -> Int]
    BY <2>1
  <2> DEFINE rq == Requeue(pid, newprio)
             k  == [qkey EXCEPT ![pid] = newprio]
  <2>3. CASE Resched(pstate, rdyq, qkey, pprio', preempt)
    BY <1>1, <1>3, <1>4, <2>2, <2>3, YieldRecv, RecvFrame
  <2>4. CASE pstate[pid] = "PRREADY" /\ Resched(pstate, rq, k, pprio', preempt)
    <3>1. Staged(pstate, rq, k, pprio')
      BY <1>1, <2>1, <2>4, RequeueStaged
    <3> HIDE DEF rq, k
    <3>2. OthersKept(pstate, k, pstate', qkey')
      BY <1>4, <2>2, <2>4, <3>1, ReschedOK DEF Staged, BeforeResched
    <3>3. \A p \in Procs : RecvKept(p)
      BY <3>2 DEF OthersKept, RecvKept, Runnable
    <3> QED BY <1>1, <1>3, <3>3, RecvFrame
  <2>5. CASE UNCHANGED pstate
    BY <1>1, <1>3, <2>5, UntouchedRecv
  <2> HIDE DEF rq, k
  <2> QED BY <1>7, <2>3, <2>4, <2>5 DEF ChPrio, schedVars, rq, k
<1> QED BY <1>2, <1>5, <1>6, <1>7

(* A step that moves no process into PRRECV or out of it.                  *)
LEMMA SchedRecv ==
    ASSUME RecvInv, UNCHANGED phasmsg, \A p \in Procs : ReceivesOn(p),
           \/ UNCHANGED pstate
           \/ \E left \in {preempt, 0} : Resched(pstate, rdyq, qkey, pprio, left)
           \/ /\ currpid # NULLPROC
              /\ \E s \in States \ {"PRREADY", "PRCURR", "PRRECV"} : Block(s)
           \/ \E pid \in Procs :
                 /\ pstate[pid] \notin {"PRREADY", "PRCURR", "PRRECV"}
                 /\ Ready(pid) \/ ReadyNoResched(pid)
    PROVE  ReceiverFindsMessage'
<1>1. /\ IInv /\ ReceiverFindsMessage /\ pprio \in [Procs -> Int]
      /\ qkey \in [Procs -> Int] /\ preempt \in -1 .. QUANTUM
  BY StagedNow, SchedTypes DEF RecvInv, OrderInv
<1>2. CASE UNCHANGED pstate
  BY <1>1, <1>2, UntouchedRecv
<1>3. ASSUME NEW left \in {preempt, 0}, Resched(pstate, rdyq, qkey, pprio, left)
      PROVE  ReceiverFindsMessage'
  <2>1. left \in -1 .. QUANTUM
    BY <1>1, ConstFacts
  <2> QED BY <1>1, <1>3, <2>1, YieldRecv, RecvFrame
<1>4. ASSUME currpid # NULLPROC,
             NEW s \in States \ {"PRREADY", "PRCURR", "PRRECV"}, Block(s)
      PROVE  ReceiverFindsMessage'
  BY <1>1, <1>4, BlockRecv, RecvFrame DEF Block, Runnable
<1>5. ASSUME NEW pid \in Procs,
             pstate[pid] \notin {"PRREADY", "PRCURR", "PRRECV"},
             Ready(pid) \/ ReadyNoResched(pid)
      PROVE  ReceiverFindsMessage'
  BY <1>1, <1>5, ReadyRecv, RecvFrame DEF Runnable
<1> QED BY <1>2, <1>3, <1>4, <1>5

LEMMA SignalRecv ==
    ASSUME RecvInv, UNCHANGED phasmsg, Op = "none",
           NEW s \in SemArgs, NEW count,
           SignalBody(s) \/ SignalNBody(s, count)
    PROVE  ReceiverFindsMessage'
<1>1. OrderInv /\ IInv /\ SemInv
  BY DEF RecvInv, OrderInv, IInv
<1>2. \A p \in Procs : ReceivesOn(p)
  <2>1. UNCHANGED kctx \/ Enter("signaln", s, count)
    BY DEF SignalBody, SignalNBody, SemError, HandleError
  <2>2. "signaln" \in KernelOps \ {"receive"}
    BY DEF KernelOps
  <2>3. CASE UNCHANGED kctx
    BY <2>3 DEF ReceivesOn
  <2>4. CASE Enter("signaln", s, count)
    BY <1>1, <2>2, <2>4, ElsewhereReceivesOn
  <2> QED BY <2>1, <2>3, <2>4
<1>3. CASE SemUsed(s) /\ semcnt[s] < 0 /\ Ready(Head(semq[s]))
  <2>1. s \in Sems /\ sstate[s] = "SUSED"
    BY <1>1, <1>3, ConstFacts DEF SemUsed, isbadsem, SemInv, SemTypeOK, SemArgs, Sems
  <2>2. semq[s] # <<>>
    BY <1>1, <1>3, <2>1, SomebodyWaits DEF SemDrains
  <2>3. Head(semq[s]) \in Procs /\ pstate[Head(semq[s])] = "PRWAIT"
    BY <1>1, <2>1, <2>2, FirstWaiter
  <2> QED BY <1>2, <1>3, <2>3, SchedRecv
<1>4. CASE UNCHANGED pstate
  BY <1>2, <1>4, SchedRecv
<1> QED BY <1>3, <1>4 DEF SignalBody, SignalNBody, SemError, HandleError, schedVars

LEMMA SemCallRecv ==
    ASSUME RecvInv, SemCall \/ TtyInterrupt
    PROVE  ReceiverFindsMessage'
<1>1. OrderInv /\ IInv /\ UNCHANGED phasmsg
  BY DEF RecvInv, OrderInv, SemCall, TtyInterrupt, msgVars
<1>2. ASSUME NEW s \in SemArgs, SDelete(s) \/ Wait(s) PROVE ReceiverFindsMessage'
  <2>1. Op = "none" /\ currpid # NULLPROC
    BY <1>1, <1>2, CallerFacts DEF SDelete, Wait
  <2>2. \A p \in Procs : ReceivesOn(p)
    <3>1. UNCHANGED kctx \/ Enter("sdelete", s, 0)
      BY <1>2 DEF SDelete, Wait, SemError, HandleError
    <3>2. "sdelete" \in KernelOps \ {"receive"}
      BY DEF KernelOps
    <3> QED BY <1>1, <2>1, <3>1, <3>2, ElsewhereReceivesOn DEF ReceivesOn
  <2>3. UNCHANGED pstate \/ Block("PRWAIT")
    BY <1>2 DEF SDelete, Wait, SemError, HandleError, schedVars
  <2> QED BY <1>1, <2>1, <2>2, <2>3, SchedRecv DEF States
<1>3. ASSUME NEW s \in SemArgs, Signal(s) PROVE ReceiverFindsMessage'
  BY <1>1, <1>3, CallerFacts, SignalRecv DEF Signal
<1>4. ASSUME NEW count \in Counts, SCreate(count) PROVE ReceiverFindsMessage'
  <2>1. UNCHANGED <<pstate, kctx>>
    BY <1>4 DEF SCreate, SCreateBody, SemError, HandleError, procVars
  <2> QED BY <1>1, <2>1, SchedRecv DEF ReceivesOn
<1>5. ASSUME NEW s \in SemArgs, NEW count \in Counts, SReset(s, count)
      PROVE  ReceiverFindsMessage'
  <2>1. Op = "none"
    BY <1>1, <1>5, CallerFacts DEF SReset
  <2>2. /\ UNCHANGED pstate
        /\ UNCHANGED kctx \/ Enter("sreset", s, count)
    BY <1>5 DEF SReset, SemError, HandleError, schedVars
  <2>3. "sreset" \in KernelOps \ {"receive"}
    BY DEF KernelOps
  <2>4. \A p \in Procs : ReceivesOn(p)
    BY <1>1, <2>1, <2>2, <2>3, ElsewhereReceivesOn DEF ReceivesOn
  <2> QED BY <1>1, <2>2, <2>4, SchedRecv
<1>6. ASSUME NEW s \in SemArgs, NEW count \in Counts, SignalN(s, count)
      PROVE  ReceiverFindsMessage'
  BY <1>1, <1>6, CallerFacts, SignalRecv DEF SignalN
<1>7. ASSUME NEW s \in TtySems, IOInterrupt(s) PROVE ReceiverFindsMessage'
  <2>1. s \in SemArgs /\ Op = "none"
    BY <1>1, <1>7, ConstFacts, OutOfKernelFacts
       DEF IOInterrupt, TtySems, ISEM, OSEM, SemArgs, Sems
  <2>2. SignalBody(s) \/ \E count \in Counts : SignalNBody(s, count)
    BY <1>7 DEF IOInterrupt
  <2> QED BY <1>1, <2>1, <2>2, SignalRecv
<1> QED BY <1>2, <1>3, <1>4, <1>5, <1>6, <1>7 DEF SemCall, TtyInterrupt

LEMMA SemKernelStepRecv ==
    ASSUME RecvInv, UNCHANGED phasmsg, SemKernelStep
    PROVE  ReceiverFindsMessage'
<1> DEFINE s == kctx[currpid].arg
<1>1. OrderInv /\ IInv /\ SemInv
  BY DEF RecvInv, OrderInv, IInv
<1>2. PICK op \in {"sdelete", "sreset", "signaln"} : At(op)
  BY DEF SemKernelStep, ReleaseWaiter, SDeleteEnd, SResetEnd, SignalNStep, SignalNEnd
<1>3. Op = op /\ s \in Sems
  BY <1>1, <1>2, InsideFacts DEF SemInv, SemSection
<1>4. \A p \in Procs : ReceivesOn(p)
  <2>1. UNCHANGED kctx \/ Leave \/ \E n : Enter("signaln", s, n)
    BY DEF SemKernelStep, ReleaseWaiter, SDeleteEnd, SResetEnd, SignalNStep, SignalNEnd
  <2>2. "signaln" \in KernelOps \ {"receive"}
    BY DEF KernelOps
  <2> QED BY <1>1, <1>3, <2>1, <2>2, ElsewhereReceivesOn DEF ReceivesOn
<1>5. ASSUME semq[s] # <<>>, ReadyFirstWaiter(s) PROVE ReceiverFindsMessage'
  <2>1. Head(semq[s]) \in Procs /\ pstate[Head(semq[s])] = "PRWAIT"
    BY <1>1, <1>3, <1>5, FirstWaiter
  <2> QED BY <1>4, <1>5, <2>1, SchedRecv DEF ReadyFirstWaiter
<1>6. CASE ReleaseWaiter
  BY <1>5, <1>6 DEF ReleaseWaiter
<1>7. CASE SDeleteEnd \/ SResetEnd \/ SignalNEnd
  BY <1>4, <1>7, SchedRecv DEF SDeleteEnd, SResetEnd, SignalNEnd, Yield
<1>8. CASE SignalNStep
  <2>1. At("signaln")
    BY <1>8 DEF SignalNStep
  <2>2. Op = "signaln" /\ sstate[s] = "SUSED"
    BY <1>1, <2>1, InsideFacts DEF SemInv, SemSection
  <2>3. CASE semcnt[s] < 0 /\ ReadyFirstWaiter(s)
    BY <1>1, <1>3, <1>5, <2>2, <2>3, SomebodyWaits DEF SemDrains
  <2>4. CASE UNCHANGED schedVars
    BY <1>4, <2>4, SchedRecv DEF schedVars
  <2> QED BY <1>8, <2>3, <2>4 DEF SignalNStep
<1> QED BY <1>6, <1>7, <1>8 DEF SemKernelStep
LEMMA SendRecv ==
    ASSUME RecvInv, NEW pid \in PidArgs, NEW msg \in Msgs, Send(pid, msg)
    PROVE  ReceiverFindsMessage'
<1>1. /\ OrderInv /\ IInv /\ ReceiverFindsMessage
      /\ phasmsg \in [Procs -> BOOLEAN]
  BY DEF RecvInv, OrderInv, IInv, MsgTypeOK
<1>2. /\ pid \in Procs /\ UNCHANGED kctx
      /\ phasmsg' = [phasmsg EXCEPT ![pid] = TRUE]
  BY ConstFacts DEF Send, isbadpid, PidArgs, Procs
<1>3. pstate'[pid] # "PRRECV" /\ \A p \in Procs \ {pid} : RecvKept(p)
  <2>1. CASE pstate[pid] = "PRRECV" /\ Ready(pid)
    BY <1>1, <1>2, <2>1, ReadyRecv DEF Runnable
  <2>2. CASE pstate[pid] # "PRRECV" /\ UNCHANGED pstate
    BY <2>2 DEF RecvKept
  <2> QED BY <2>1, <2>2 DEF Send, schedVars
<1>4. RecvTied(pid)
  BY <1>1, <1>2, <1>3 DEF RecvTied
<1>5. \A p \in Procs \ {pid} : ReceivesOn(p) /\ phasmsg'[p] = phasmsg[p]
  BY <1>1, <1>2 DEF ReceivesOn
<1> QED BY <1>1, <1>2, <1>3, <1>4, <1>5, RecvFrameBut

(* The processes that do not run are not moved by the caller's own steps.  *)
LEMMA OthersStayInKernel ==
    ASSUME IInv, NEW r, kctx' = [kctx EXCEPT ![currpid] = r]
    PROVE  /\ kctx'[currpid] = r
           /\ \A p \in Procs \ {currpid} : ReceivesOn(p)
BY DEF IInv, SchedInv, ProcTypeOK, ReceivesOn

LEMMA ReceiveRecv ==
    ASSUME RecvInv, Receive
    PROVE  ReceiverFindsMessage'
<1>1. /\ OrderInv /\ IInv /\ ReceiverFindsMessage /\ UNCHANGED phasmsg
      /\ currpid # NULLPROC /\ currpid \in Procs /\ pstate[currpid] = "PRCURR"
      /\ qkey \in [Procs -> Int] /\ phasmsg \in [Procs -> BOOLEAN]
  BY CallerFacts, StagedNow DEF RecvInv, OrderInv, IInv, Receive, MsgTypeOK, msgVars,
     SchedOKNow, SchedOK, CurrentIn
<1>2. /\ kctx'[currpid].op = "receive"
      /\ \A p \in Procs \ {currpid} : ReceivesOn(p)
  <2>1. kctx' = [kctx EXCEPT ![currpid] = InKernel("receive", 0, 0)]
    BY DEF Receive, Enter
  <2>2. InKernel("receive", 0, 0).op = "receive"
    BY DEF InKernel
  <2> QED BY <1>1, <2>1, <2>2, OthersStayInKernel
<1>3. CASE phasmsg[currpid] /\ UNCHANGED schedVars
  <2>1. RecvTied(currpid) /\ \A p \in Procs : RecvKept(p)
    BY <1>1, <1>2, <1>3 DEF RecvTied, RecvKept, schedVars
  <2> QED BY <1>1, <1>2, <2>1, RecvFrameBut
<1>4. CASE ~phasmsg[currpid] /\ Block("PRRECV")
  <2>1. /\ pstate'[currpid] = "PRRECV"
        /\ \A p \in Procs \ {currpid} : RecvKept(p)
    BY <1>1, <1>4, BlockRecv DEF Block, States, Runnable
  <2>2. RecvTied(currpid)
    BY <1>1, <1>2, <1>4, <2>1 DEF RecvTied
  <2> QED BY <1>1, <1>2, <2>1, <2>2, RecvFrameBut
<1> QED BY <1>3, <1>4 DEF Receive

(* The caller, or the receiver that has found its message, takes it.       *)
LEMMA TakeRecv ==
    ASSUME RecvInv, RecvClr \/ ReceiveEnd
    PROVE  ReceiverFindsMessage'
<1>1. /\ OrderInv /\ IInv /\ ReceiverFindsMessage
      /\ currpid \in Procs /\ pstate[currpid] = "PRCURR"
      /\ phasmsg \in [Procs -> BOOLEAN]
  BY StagedNow DEF RecvInv, OrderInv, IInv, MsgTypeOK, SchedOKNow, SchedOK, CurrentIn
<1>2. /\ phasmsg' = [phasmsg EXCEPT ![currpid] = FALSE]
      /\ UNCHANGED pstate
  BY DEF RecvClr, ReceiveEnd, procVars, schedVars
<1>3. /\ kctx'[currpid].op = "none"
      /\ \A p \in Procs \ {currpid} : ReceivesOn(p)
  <2>1. CASE RecvClr
    BY <1>1, <2>1, CallerFacts DEF RecvClr, procVars, Op, ReceivesOn
  <2>2. CASE ReceiveEnd
    <3>1. OutOfKernel.op = "none"
      BY DEF OutOfKernel, InKernel
    <3> QED BY <1>1, <2>2, <3>1, OthersStayInKernel DEF ReceiveEnd, Leave
  <2> QED BY <2>1, <2>2
<1>4. RecvTied(currpid)
  BY <1>1, <1>2, <1>3 DEF RecvTied
<1> QED BY <1>1, <1>2, <1>3, <1>4, RecvFrameBut DEF RecvKept
LEMMA ClkCallRecv ==
    ASSUME RecvInv, UNCHANGED phasmsg,
           ClkCall \/ SleepNext \/ StopClkStore \/ ClkInt
    PROVE  ReceiverFindsMessage'
<1>1. OrderInv /\ IInv
  BY DEF RecvInv, OrderInv
<1>2. Op = "none"
  <2>1. Interruptible
    BY <1>1, CallerFacts
       DEF ClkCall, Sleep, StopClkLoad, StrtClk, SleepNext, StopClkStore, ClkInt
  <2> QED BY <1>1, <2>1, OutOfKernelFacts
<1>3. \A p \in Procs : ReceivesOn(p)
  <2>1. \/ UNCHANGED kctx
        \/ \E op \in {"insertd", "strtclk", "strtclk_tail", "clkint", "wakeup_clkint"} :
              \E a, n : Enter(op, a, n)
    BY DEF ClkCall, Sleep, StopClkLoad, StrtClk, SleepNext, StopClkStore, ClkInt,
           EnterSleep10
  <2>2. {"insertd", "strtclk", "strtclk_tail", "clkint", "wakeup_clkint"}
            \subseteq KernelOps \ {"receive"}
    BY DEF KernelOps
  <2> QED BY <1>1, <1>2, <2>1, <2>2, ElsewhereReceivesOn DEF ReceivesOn
<1>4. UNCHANGED pstate \/ Yield
  BY DEF ClkCall, Sleep, StopClkLoad, StrtClk, SleepNext, StopClkStore, ClkInt,
         schedVars
<1> QED BY <1>3, <1>4, SchedRecv DEF Yield

LEMMA InsertdEndRecv ==
    ASSUME RecvInv, UNCHANGED phasmsg, InsertdEnd
    PROVE  ReceiverFindsMessage'
<1> DEFINE i == kctx[currpid].arg
           n == kctx[currpid].n
           b == clockq[i]
           k0 == [qkey EXCEPT ![currpid] = n]
           k1 == [k0 EXCEPT ![b] = @ - n]
<1>1. /\ OrderInv /\ IInv /\ ReceiverFindsMessage /\ ClkInv
      /\ Op = "insertd" /\ qkey \in [Procs -> Int] /\ currpid \in Procs
  BY InsideFacts DEF RecvInv, OrderInv, InsertdEnd
<1>2. /\ i \in 1 .. Len(clockq) + 1 /\ n \in Int /\ currpid # NULLPROC
      /\ Len(clockq) \in Nat
  <2>1. TabOK
    BY <1>1, SchedInvParts DEF IInv
  <2> QED BY <1>1, <2>1, SchedTypes, LenProperties DEF ClkInv, ClkSection, TabOK
<1>3. PICK k \in {k0, k1} :
          /\ k = k0 \/ i <= Len(clockq)
          /\ Resched([pstate EXCEPT ![currpid] = "PRSLEEP"], rdyq, k, pprio, preempt)
  BY DEF InsertdEnd
<1>4. k \in [Procs -> Int]
  <2>1. k0 \in [Procs -> Int]
    BY <1>1, <1>2
  <2>2. i <= Len(clockq) => k1 \in [Procs -> Int]
    <3>1. i <= Len(clockq) => i \in 1 .. Len(clockq)
      BY <1>2
    <3>2. i <= Len(clockq) => b \in Procs
      BY <1>1, <3>1, SleeperNotReady
    <3> HIDE DEF i, n, b, k0
    <3> QED BY <1>2, <2>1, <3>2
  <2> QED BY <1>3, <2>1, <2>2
<1>5. \A p \in Procs : RecvKept(p)
  BY <1>1, <1>2, <1>3, <1>4, BlockRecv DEF States, Runnable
<1>6. \A p \in Procs : ReceivesOn(p)
  BY <1>1, ElsewhereReceivesOn DEF InsertdEnd
<1> QED BY <1>1, <1>5, <1>6, RecvFrame

LEMMA ClkKernelStepRecv ==
    ASSUME RecvInv, UNCHANGED phasmsg, ClkKernelStep
    PROVE  ReceiverFindsMessage'
<1>1. OrderInv /\ IInv
  BY DEF RecvInv, OrderInv
<1>2. PICK op \in {"insertd", "wakeup_clkint", "wakeup_strtclk", "clkint",
                   "strtclk", "strtclk_tail"} : At(op)
  BY DEF ClkKernelStep, InsertdWalk, InsertdEnd, WakeupFirst, WakeupEnd, ClkIntEnd,
         StrtClkWalk, StrtClkWalkDone, StrtClkEnd
<1>3. Op = op
  BY <1>1, <1>2, InsideFacts
<1>4. \A p \in Procs : ReceivesOn(p)
  <2>1. \/ UNCHANGED kctx
        \/ Leave
        \/ \E o \in {"insertd", "clkint", "strtclk", "strtclk_tail", "wakeup_strtclk"} :
              \E a, n : Enter(o, a, n)
    BY DEF ClkKernelStep, InsertdWalk, InsertdEnd, WakeupFirst, WakeupEnd, ClkIntEnd,
           StrtClkWalk, StrtClkWalkDone, StrtClkEnd
  <2>2. {"insertd", "clkint", "strtclk", "strtclk_tail", "wakeup_strtclk"}
            \subseteq KernelOps \ {"receive"}
    BY DEF KernelOps
  <2> QED BY <1>1, <1>3, <2>1, <2>2, ElsewhereReceivesOn DEF ReceivesOn
<1>5. CASE WakeupFirst
  <2>1. Head(clockq) \in Procs /\ pstate[Head(clockq)] = "PRSLEEP"
    BY <1>1, <1>5, FirstSleeper, SchedTypes DEF WakeupFirst
  <2> QED BY <1>4, <1>5, <2>1, SchedRecv DEF WakeupFirst
<1>6. CASE \/ InsertdWalk \/ WakeupEnd \/ ClkIntEnd
           \/ StrtClkWalk \/ StrtClkWalkDone \/ StrtClkEnd
  <2>1. UNCHANGED pstate \/ \E left \in {preempt, 0} :
                               Resched(pstate, rdyq, qkey, pprio, left)
    BY <1>6 DEF InsertdWalk, WakeupEnd, ClkIntEnd, StrtClkWalk, StrtClkWalkDone,
                StrtClkEnd, Yield, schedVars
  <2> QED BY <1>4, <2>1, SchedRecv
<1> QED BY <1>5, <1>6, InsertdEndRecv DEF ClkKernelStep

LEMMA CreateRecv ==
    ASSUME RecvInv, NEW ssize, NEW priority, Create(ssize, priority)
    PROVE  ReceiverFindsMessage'
<1>1. /\ OrderInv /\ IInv /\ ReceiverFindsMessage /\ phasmsg \in [Procs -> BOOLEAN]
      /\ pstate \in [Procs -> States] /\ DOMAIN kctx = Procs
  BY SchedTypes DEF RecvInv, OrderInv, IInv, MsgTypeOK, SchedInv, ProcTypeOK
<1>2. CASE HandleError /\ UNCHANGED msgVars
  <2>1. UNCHANGED <<pstate, kctx, phasmsg>>
    BY <1>2 DEF HandleError, msgVars
  <2> QED BY <2>1, SchedRecv DEF ReceivesOn
<1>3. ASSUME NEW pid \in Procs, NewProcess(pid, ssize, priority)
      PROVE  ReceiverFindsMessage'
  <2>1. /\ pstate' = [pstate EXCEPT ![pid] = "PRSUSP"]
        /\ phasmsg' = [phasmsg EXCEPT ![pid] = FALSE]
        /\ kctx' = [kctx EXCEPT ![pid] = OutOfKernel]
    BY <1>3 DEF NewProcess
  <2>2. OutOfKernel.op = "none"
    BY DEF OutOfKernel, InKernel
  <2>3. RecvTied(pid)
    BY <1>1, <2>1, <2>2 DEF RecvTied
  <2>4. \A p \in Procs \ {pid} :
            ReceivesOn(p) /\ RecvKept(p) /\ phasmsg'[p] = phasmsg[p]
    BY <1>1, <2>1 DEF ReceivesOn, RecvKept
  <2> QED BY <1>1, <2>3, <2>4, RecvFrameBut
<1> QED BY <1>2, <1>3 DEF Create, SemError

LEMMA KillRecv ==
    ASSUME RecvInv, NEW pid \in PidArgs, Kill(pid)
    PROVE  ReceiverFindsMessage'
<1>1. /\ OrderInv /\ IInv /\ ReceiverFindsMessage
      /\ currpid # NULLPROC /\ currpid \in Procs /\ pstate[currpid] = "PRCURR"
      /\ pstate \in [Procs -> States] /\ qkey \in [Procs -> Int]
      /\ DOMAIN kctx = Procs /\ pid \in Procs
      /\ \A p \in Procs : pstate[p] = "PRCURR" => p = currpid
  <2>1. OrderInv /\ IInv /\ ReceiverFindsMessage /\ Calling("kill")
    BY DEF RecvInv, OrderInv, Kill
  <2>2. \A p \in Procs : pstate[p] = "PRCURR" => p = currpid
    BY <2>1 DEF IInv, SchedInv, CurrentIsCurrpid, InState
  <2> QED BY <2>1, <2>2, KillFacts, CallerFacts, SchedTypes DEF IInv, SchedInv, ProcTypeOK
<1>2. kctx' = [kctx EXCEPT ![pid] = OutOfKernel] /\ UNCHANGED phasmsg
  BY DEF Kill, msgVars
<1>3. OutOfKernel.op = "none"
  BY DEF OutOfKernel, InKernel
<1>4. pstate'[pid] = "PRFREE" /\ \A p \in Procs \ {pid} : RecvKept(p)
  <2>1. CASE KillCurrent(pid)
    BY <1>1, <2>1, BlockRecv DEF KillCurrent, Block, States, Runnable
  <2>2. CASE pstate' = [pstate EXCEPT ![pid] = "PRFREE"]
    BY <1>1, <2>2 DEF RecvKept
  <2> QED BY <2>1, <2>2 DEF Kill, KillWaiting, KillSleeping, KillReady, KillOffQueues
<1>5. RecvTied(pid)
  BY <1>1, <1>2, <1>3, <1>4 DEF RecvTied
<1>6. \A p \in Procs \ {pid} : ReceivesOn(p) /\ phasmsg'[p] = phasmsg[p]
  BY <1>1, <1>2 DEF ReceivesOn
<1> QED BY <1>1, <1>4, <1>5, <1>6, RecvFrameBut

LEMMA NextRecv == RecvInv /\ [Next]_vars => ReceiverFindsMessage'
<1> SUFFICES ASSUME RecvInv, [Next]_vars PROVE ReceiverFindsMessage'
  OBVIOUS
<1>1. CASE Call
  BY <1>1, ProcCallRecv, SemCallRecv, SendRecv, ReceiveRecv, TakeRecv, ClkCallRecv,
     CreateRecv, KillRecv DEF Call, MsgCall, ClkCall, msgVars
<1>2. CASE KernelStep
  BY <1>2, SemKernelStepRecv, TakeRecv, ClkKernelStepRecv DEF KernelStep, msgVars
<1>3. CASE UserStep
  BY <1>3, ClkCallRecv DEF UserStep, msgVars
<1>4. CASE ClockInterrupt
  BY <1>4, ClkCallRecv DEF ClockInterrupt, msgVars
<1>5. CASE TtyInterrupt
  BY <1>5, SemCallRecv
<1>6. CASE UNCHANGED vars
  <2>1. UNCHANGED <<pstate, kctx, phasmsg>>
    BY <1>6 DEF vars, procVars, msgVars
  <2> QED BY <2>1, SchedRecv DEF ReceivesOn
<1> QED BY <1>1, <1>2, <1>3, <1>4, <1>5, <1>6 DEF Next, Gone

LEMMA InitRecv == Init => ReceiverFindsMessage
<1> SUFFICES ASSUME Init PROVE ReceiverFindsMessage
  OBVIOUS
<1>1. \A p \in Procs : kctx[p].op = "none" /\ pstate[p] # "PRRECV"
  BY DEF Init, ProcInit, OutOfKernel, InKernel
<1> QED BY <1>1 DEF ReceiverFindsMessage

(* receive, send and kill (receive.c, send.c, kill.c) agree in every       *)
(* reachable state: a process that goes on in receive finds its message,   *)
(* and only a process without one waits in PRRECV.                         *)
THEOREM ReceiverAlwaysFindsMessage == Spec => []ReceiverFindsMessage
<1>1. Init => RecvInv
  BY InitOrder, InitRecv DEF RecvInv
<1>2. RecvInv /\ [Next]_vars => RecvInv'
  BY NextInOrder, NextRecv DEF RecvInv, StepInOrder, OrderKept, OrderInv
<1>3. RecvInv => ReceiverFindsMessage
  BY DEF RecvInv
<1> QED BY <1>1, <1>2, <1>3, PTL DEF Spec

(* No step replaces a message that has not been received: send.c refuses   *)
(* when phasmsg is set, and nothing else writes pmsg.                      *)
THEOREM MessagesNeverOverwritten == Spec => MessageNotOverwritten
<1> DEFINE NoneReplaced == \A p \in Procs : phasmsg[p] /\ phasmsg'[p] => pmsg'[p] = pmsg[p]
<1>1. IInv /\ [Next]_vars => NoneReplaced
  <2> SUFFICES ASSUME IInv, [Next]_vars PROVE NoneReplaced
    OBVIOUS
  <2>1. CASE UNCHANGED pmsg
    BY <2>1
  <2>2. ASSUME NEW pid \in PidArgs, NEW msg \in Msgs, Send(pid, msg) PROVE NoneReplaced
    BY <2>2 DEF Send, IInv, MsgTypeOK
  <2>3. UNCHANGED pmsg \/ \E pid \in PidArgs, msg \in Msgs : Send(pid, msg)
    <3>1. CASE Call
      BY <3>1 DEF Call, ProcCall, SemCall, MsgCall, Receive, RecvClr, ClkCall,
                  Create, NewProcess, Kill, msgVars
    <3>2. CASE KernelStep
      BY <3>2 DEF KernelStep, ReceiveEnd, msgVars
    <3>3. CASE UserStep \/ ClockInterrupt \/ TtyInterrupt
      BY <3>3 DEF UserStep, ClockInterrupt, TtyInterrupt, msgVars
    <3>4. CASE UNCHANGED vars
      BY <3>4 DEF vars, msgVars
    <3> QED BY <3>1, <3>2, <3>3, <3>4 DEF Next, Gone
  <2> QED BY <2>1, <2>2, <2>3
<1>2. Spec => []IInv
  BY KernelInvariant
<1> QED BY <1>1, <1>2, PTL DEF Spec, MessageNotOverwritten

=============================================================================
