------------------------- MODULE LinkedQueues_proofs -------------------------
(***************************************************************************)
(* Proofs about LinkedQueues: the array of links implements the sequences  *)
(* of ProcQueues, for any number of processes and semaphores.              *)
(*                                                                         *)
(* The invariant says that behind the head of each queue there is a chain: *)
(* a sequence of processes, linked in both directions from the head to the *)
(* tail of that queue, that holds those whose state puts them there.  An   *)
(* operation changes one chain, and every walk follows one.                *)
(***************************************************************************)
EXTENDS LinkedQueues, QueueOps_proofs, FiniteSetTheorems

(* The n-th entry of the chain s of the queue at h; the tail closes it.    *)
At(h, s, n) == IF n = 0 THEN h ELSE IF n <= Len(s) THEN s[n] ELSE Tail_(h)

Links(h, s) ==
    \A n \in 0 .. Len(s) : /\ q[At(h, s, n)].qnext = At(h, s, n + 1)
                           /\ q[At(h, s, n + 1)].qprev = At(h, s, n)

Chain(h, s) ==
    /\ s \in Seq(Procs)
    /\ Holds(s, {p \in Procs : on[p] = h})
    /\ Links(h, s)

TypeOK ==
    /\ q \in [Entries -> [qkey : Int, qnext : Int, qprev : Int]]
    /\ nextqueue \in NPROC .. NQENT /\ (nextqueue - NPROC) % 2 = 0
    /\ on \in [Procs -> {EMPTY} \cup Built]
    /\ shown \in {EMPTY} \cup Heads \cup Procs
    /\ shown # EMPTY => nextqueue = NQENT

(* The ends of the queues that there are, and the entries of processes.    *)
EndsInv ==
    \A h \in Built : /\ q[h].qkey = MININT
                     /\ q[Tail_(h)].qkey = MAXINT /\ q[Tail_(h)].qnext = EMPTY

EntriesInv ==
    \A p \in Procs : q[p].qkey \in 0 .. MAXINT /\ q[p].qnext \in Procs \cup Tails

LinksInv ==
    /\ TypeOK /\ EndsInv /\ EntriesInv
    /\ \A h \in Built : \E s : Chain(h, s)

-----------------------------------------------------------------------------
(* The entries.                                                            *)

LEMMA EntryFacts ==
    /\ NPROC \in Nat /\ NPROC > 0 /\ NQENT \in Nat /\ NQENT > NPROC
    /\ (NQENT - NPROC) % 2 = 0
    /\ Procs \subseteq Entries
    /\ \A h \in Heads : /\ h \in Entries /\ h \in Nat /\ h >= NPROC
                        /\ (h - NPROC) % 2 = 0
                        /\ Tail_(h) = h + 1 /\ h + 1 \in Entries /\ h + 1 \in Tails
                        /\ h + 1 \notin Heads /\ h \notin Procs /\ h + 1 \notin Procs
    /\ \A p \in Procs : p \in Nat /\ p < NPROC /\ p # EMPTY
    /\ \A p \in Entries : p \in Procs <=> p < NPROC
    /\ \A e \in Tails : e \in Nat /\ e >= NPROC /\ e \notin Procs
<1>1. NPROC \in Nat /\ NPROC > 0 /\ NSEM \in Nat
  BY QueuesAssumption
<1>2. NQENT = NPROC + NSEM + NSEM + 4
  BY DEF NQENT
<1>3. NQENT \in Nat /\ NQENT > NPROC /\ (NQENT - NPROC) % 2 = 0
  BY <1>1, <1>2
<1>4. ASSUME NEW h \in Heads
      PROVE  /\ h \in Entries /\ h \in Nat /\ h >= NPROC
             /\ (h - NPROC) % 2 = 0
             /\ Tail_(h) = h + 1 /\ h + 1 \in Entries /\ h + 1 \in Tails
             /\ h + 1 \notin Heads /\ h \notin Procs /\ h + 1 \notin Procs
  <2>1. h \in 0 .. NQENT - 1 /\ h >= NPROC /\ (h - NPROC) % 2 = 0
    BY DEF Heads, Entries
  <2>2. h + 1 \in 0 .. NQENT - 1 /\ (h + 1 - NPROC) % 2 # 0
    BY <2>1, <1>1, <1>3
  <2>3. h \notin Procs /\ h + 1 \notin Procs
    BY <2>1, <1>1 DEF Procs
  <2> QED BY <2>1, <2>2, <2>3, <1>1, <1>3 DEF Entries, Heads, Tail_, Tails
<1>5. \A p \in Procs : p \in Nat /\ p < NPROC /\ p # EMPTY
  BY <1>1 DEF Procs, EMPTY
<1>6. \A p \in Entries : p \in Procs <=> p < NPROC
  BY <1>1, <1>3 DEF Procs, Entries
<1>7. ASSUME NEW e \in Tails
      PROVE  e \in Nat /\ e >= NPROC /\ e \notin Procs
  <2>1. PICK h \in Heads : e = Tail_(h)
    BY DEF Tails
  <2>2. h \in Nat /\ h >= NPROC /\ e = h + 1 /\ h + 1 \notin Procs
    BY <2>1, <1>4
  <2> QED BY <2>2, <1>1
<1>8. Procs \subseteq Entries
  BY <1>1, <1>3 DEF Procs, Entries
<1> QED BY <1>1, <1>3, <1>4, <1>5, <1>6, <1>7, <1>8

LEMMA BuiltFacts ==
    ASSUME nextqueue \in Int
    PROVE  /\ Built \subseteq Heads
           /\ \A g, h \in Heads : g # Tail_(h) /\ (Tail_(g) = Tail_(h) => g = h)
<1>1. Built \subseteq Heads
  BY DEF Built
<1>2. \A g, h \in Heads : g # Tail_(h) /\ (Tail_(g) = Tail_(h) => g = h)
  BY EntryFacts
<1> QED BY <1>1, <1>2

(* The entries of a chain differ.                                          *)
LEMMA AtFacts ==
    ASSUME NEW h \in Heads, NEW s \in Seq(Procs), IsInjective(s)
    PROVE  /\ Len(s) \in Nat
           /\ At(h, s, 0) = h /\ At(h, s, Len(s) + 1) = Tail_(h)
           /\ \A n \in 1 .. Len(s) : At(h, s, n) = s[n] /\ s[n] \in Procs
           /\ \A n \in 0 .. Len(s) + 1 : At(h, s, n) \in Entries
           /\ \A m, n \in 0 .. Len(s) + 1 : At(h, s, m) = At(h, s, n) => m = n
<1>1. Len(s) \in Nat /\ DOMAIN s = 1 .. Len(s) /\ \A n \in 1 .. Len(s) : s[n] \in Procs
  BY LenProperties, ElementOfSeq
<1>2. /\ At(h, s, 0) = h /\ At(h, s, Len(s) + 1) = Tail_(h)
      /\ \A n \in 1 .. Len(s) : At(h, s, n) = s[n] /\ s[n] \in Procs
  BY <1>1 DEF At
<1>3. /\ h \in Entries /\ Tail_(h) \in Entries /\ h # Tail_(h)
      /\ h \notin Procs /\ Tail_(h) \notin Procs
  BY EntryFacts
<1>4. \A n \in 0 .. Len(s) + 1 : n = 0 \/ n \in 1 .. Len(s) \/ n = Len(s) + 1
  BY <1>1
<1>5. \A n \in 0 .. Len(s) + 1 : At(h, s, n) \in Entries
  BY <1>2, <1>3, <1>4, EntryFacts
<1>6. \A m, n \in 1 .. Len(s) : s[m] = s[n] => m = n
  BY <1>1 DEF IsInjective
<1>7. \A m, n \in 0 .. Len(s) + 1 : At(h, s, m) = At(h, s, n) => m = n
  BY <1>2, <1>3, <1>4, <1>6
<1> QED BY <1>1, <1>2, <1>5, <1>7

LEMMA ChainFacts ==
    ASSUME NEW h, NEW s, Chain(h, s)
    PROVE  /\ s \in Seq(Procs) /\ IsInjective(s) /\ Len(s) \in Nat
           /\ Holds(s, {p \in Procs : on[p] = h})
           /\ \A p \in Procs : on[p] = h <=> \E n \in 1 .. Len(s) : s[n] = p
<1>1. s \in Seq(Procs) /\ Holds(s, {p \in Procs : on[p] = h})
  BY DEF Chain
<1>2. Len(s) \in Nat /\ DOMAIN s = 1 .. Len(s)
  BY <1>1, LenProperties
<1>3. ToSet(s) = {p \in Procs : on[p] = h} /\ IsInjective(s)
  BY <1>1 DEF Holds
<1>4. ToSet(s) = {s[n] : n \in 1 .. Len(s)}
  BY <1>2 DEF ToSet
<1> QED BY <1>1, <1>2, <1>3, <1>4

(* The entries of a chain are those on its queue.                          *)
LEMMA ChainIsOnQueue ==
    ASSUME NEW h, NEW s, Chain(h, s)
    PROVE  \A n \in 1 .. Len(s) : s[n] \in Procs /\ on[s[n]] = h
<1>1. s \in Seq(Procs) /\ Holds(s, {p \in Procs : on[p] = h})
  BY DEF Chain
<1>2. DOMAIN s = 1 .. Len(s)
  BY <1>1, LenProperties
<1>3. ToSet(s) = {p \in Procs : on[p] = h}
  BY <1>1 DEF Holds
<1>4. ToSet(s) = {s[n] : n \in 1 .. Len(s)}
  BY <1>2 DEF ToSet
<1>5. \A n \in 1 .. Len(s) : s[n] \in {s[m] : m \in 1 .. Len(s)}
  OBVIOUS
<1>6. \A n \in 1 .. Len(s) : s[n] \in {p \in Procs : on[p] = h}
  BY <1>3, <1>4, <1>5
<1> QED BY <1>6
-----------------------------------------------------------------------------
(* What an operation does to chains.                                       *)

(* An entry is linked in before the i-th.                                  *)
LEMMA ChainInserts ==
    ASSUME NEW h \in Heads, NEW s, Chain(h, s), NEW i \in 1 .. Len(s) + 1,
           NEW p \in Procs, on[p] # h,
           \A e \in Entries : q'[e].qnext =
               IF e = p THEN At(h, s, i)
               ELSE IF e = At(h, s, i - 1) THEN p ELSE q[e].qnext,
           \A e \in Entries : q'[e].qprev =
               IF e = p THEN At(h, s, i - 1)
               ELSE IF e = At(h, s, i) THEN p ELSE q[e].qprev,
           \A x \in Procs : on'[x] = IF x = p THEN h ELSE on[x]
    PROVE  Chain(h, InsertAt(s, i, p))'
<1> DEFINE r == InsertAt(s, i, p)
           T == {x \in Procs : on[x] = h}
<1>1. /\ s \in Seq(Procs) /\ IsInjective(s) /\ Len(s) \in Nat /\ Holds(s, T)
      /\ p \notin T /\ i \in Nat
  BY ChainFacts
<1>2. /\ r \in Seq(Procs) /\ Len(r) = Len(s) + 1
      /\ \A j \in 1 .. Len(s) + 1 :
             r[j] = IF j < i THEN s[j] ELSE IF j = i THEN p ELSE s[j - 1]
  BY <1>1, InsertAtShape
<1>3. Holds(r, {x \in Procs : on'[x] = h})
  <2>1. Holds(r, T \cup {p})
    BY <1>1, InsertAtHolds
  <2>2. T \cup {p} = {x \in Procs : on'[x] = h}
    OBVIOUS
  <2> QED BY <2>1, <2>2
<1>4. /\ At(h, s, 0) = h /\ At(h, s, Len(s) + 1) = Tail_(h)
      /\ \A n \in 1 .. Len(s) : At(h, s, n) = s[n] /\ s[n] \in Procs
      /\ \A n \in 0 .. Len(s) + 1 : At(h, s, n) \in Entries
      /\ \A m, n \in 0 .. Len(s) + 1 : At(h, s, m) = At(h, s, n) => m = n
  BY <1>1, AtFacts
<1>5. \A n \in 0 .. Len(s) + 1 : At(h, s, n) # p
  <2>1. h # p /\ Tail_(h) # p
    BY EntryFacts
  <2>2. \A n \in 1 .. Len(s) : s[n] # p
    <3>1. \A n \in 1 .. Len(s) : on[s[n]] = h
      BY ChainIsOnQueue
    <3> QED BY <3>1
  <2>3. \A n \in 0 .. Len(s) + 1 : n = 0 \/ n \in 1 .. Len(s) \/ n = Len(s) + 1
    BY <1>1
  <2> QED BY <1>4, <2>1, <2>2, <2>3
<1> HIDE DEF r
<1>6. \A n \in 0 .. Len(s) + 2 : At(h, r, n) =
          IF n < i THEN At(h, s, n) ELSE IF n = i THEN p ELSE At(h, s, n - 1)
  <2> SUFFICES ASSUME NEW n \in 0 .. Len(s) + 2
               PROVE  At(h, r, n) = IF n < i THEN At(h, s, n)
                                    ELSE IF n = i THEN p ELSE At(h, s, n - 1)
    OBVIOUS
  <2>1. CASE n = 0
    BY <2>1, <1>1 DEF At
  <2>2. CASE n = Len(s) + 2
    BY <2>2, <1>1, <1>2 DEF At
  <2>3. CASE n \in 1 .. Len(s) + 1
    <3>1. At(h, r, n) = r[n]
      BY <2>3, <1>1, <1>2 DEF At
    <3>2. n < i => n \in 1 .. Len(s)
      BY <2>3, <1>1
    <3>3. n > i => n - 1 \in 1 .. Len(s)
      BY <2>3, <1>1
    <3> QED BY <2>3, <3>1, <3>2, <3>3, <1>1, <1>2, <1>4
  <2> QED BY <2>1, <2>2, <2>3, <1>1
<1>7. ASSUME NEW n \in 0 .. Len(r)
      PROVE  /\ q'[At(h, r, n)].qnext = At(h, r, n + 1)
             /\ q'[At(h, r, n + 1)].qprev = At(h, r, n)
  <2>0. n \in 0 .. Len(s) + 1 /\ n + 1 \in 0 .. Len(s) + 2 /\ p \in Entries
    BY <1>1, <1>2, EntryFacts
  <2>1. CASE n < i - 1
    <3>1. /\ At(h, r, n) = At(h, s, n) /\ At(h, r, n + 1) = At(h, s, n + 1)
          /\ n \in 0 .. Len(s) /\ i - 1 \in 0 .. Len(s) + 1 /\ n # i - 1 /\ n + 1 # i
      BY <1>1, <1>6, <2>0, <2>1
    <3>2. /\ At(h, s, n) # At(h, s, i - 1) /\ At(h, s, n + 1) # At(h, s, i)
          /\ At(h, s, n) # p /\ At(h, s, n + 1) # p
          /\ At(h, s, n) \in Entries /\ At(h, s, n + 1) \in Entries
      BY <3>1, <2>0, <1>1, <1>4, <1>5
    <3>3. /\ q[At(h, s, n)].qnext = At(h, s, n + 1)
          /\ q[At(h, s, n + 1)].qprev = At(h, s, n)
      BY <3>1 DEF Chain, Links
    <3> QED BY <3>1, <3>2, <3>3
  <2>2. CASE n = i - 1
    <3>1. /\ At(h, r, n) = At(h, s, i - 1) /\ At(h, r, n + 1) = p
          /\ At(h, s, i - 1) \in Entries /\ At(h, s, i - 1) # p
      BY <1>1, <1>4, <1>5, <1>6, <2>0, <2>2
    <3> QED BY <3>1, <2>0
  <2>3. CASE n = i
    <3>1. At(h, r, n) = p /\ At(h, r, n + 1) = At(h, s, i)
      BY <1>1, <1>6, <2>0, <2>3
    <3>2. At(h, s, i) \in Entries /\ At(h, s, i) # p
      BY <1>1, <1>4, <1>5
    <3> QED BY <3>1, <3>2, <2>0
  <2>4. CASE n > i
    <3>1. /\ At(h, r, n) = At(h, s, n - 1) /\ At(h, r, n + 1) = At(h, s, n)
          /\ n - 1 \in 0 .. Len(s) /\ i - 1 \in 0 .. Len(s) + 1
          /\ n - 1 # i - 1 /\ n # i
      BY <1>1, <1>6, <2>0, <2>4
    <3>2. /\ At(h, s, n - 1) # At(h, s, i - 1) /\ At(h, s, n) # At(h, s, i)
          /\ At(h, s, n - 1) # p /\ At(h, s, n) # p
          /\ At(h, s, n - 1) \in Entries /\ At(h, s, n) \in Entries
      BY <3>1, <2>0, <1>1, <1>4, <1>5
    <3>3. /\ q[At(h, s, n - 1)].qnext = At(h, s, n)
          /\ q[At(h, s, n)].qprev = At(h, s, n - 1)
      <4>1. (n - 1) + 1 = n
        BY <2>0
      <4> QED BY <3>1, <4>1 DEF Chain, Links
    <3> QED BY <3>1, <3>2, <3>3
  <2> QED BY <1>1, <2>0, <2>1, <2>2, <2>3, <2>4
<1>8. Chain(h, r)'
  BY <1>2, <1>3, <1>7 DEF Chain, Links, At
<1> QED BY <1>8 DEF r

(* The i-th entry is taken out.                                            *)
LEMMA ChainRemoves ==
    ASSUME NEW h \in Heads, NEW s, Chain(h, s), NEW i \in 1 .. Len(s),
           \A e \in Entries : q'[e].qnext =
               IF e = At(h, s, i - 1) THEN At(h, s, i + 1) ELSE q[e].qnext,
           \A e \in Entries : q'[e].qprev =
               IF e = At(h, s, i + 1) THEN At(h, s, i - 1) ELSE q[e].qprev,
           \A x \in Procs : on'[x] = IF x = s[i] THEN EMPTY ELSE on[x]
    PROVE  Chain(h, RemoveAt(s, i))'
<1> DEFINE r == RemoveAt(s, i)
           T == {x \in Procs : on[x] = h}
<1>1. /\ s \in Seq(Procs) /\ IsInjective(s) /\ Len(s) \in Nat /\ Holds(s, T)
      /\ i \in Nat /\ h # EMPTY
  BY ChainFacts, EntryFacts DEF EMPTY
<1>2. /\ r \in Seq(Procs) /\ Len(r) = Len(s) - 1
      /\ \A j \in 1 .. Len(s) - 1 : r[j] = IF j < i THEN s[j] ELSE s[j + 1]
  BY <1>1, RemoveAtShape
<1>3. Holds(r, {x \in Procs : on'[x] = h})
  <2>1. Holds(r, T \ {s[i]})
    BY <1>1, RemoveAtHolds
  <2>2. T \ {s[i]} = {x \in Procs : on'[x] = h}
    BY <1>1
  <2> QED BY <2>1, <2>2
<1>4. /\ At(h, s, 0) = h /\ At(h, s, Len(s) + 1) = Tail_(h)
      /\ \A n \in 1 .. Len(s) : At(h, s, n) = s[n] /\ s[n] \in Procs
      /\ \A n \in 0 .. Len(s) + 1 : At(h, s, n) \in Entries
      /\ \A m, n \in 0 .. Len(s) + 1 : At(h, s, m) = At(h, s, n) => m = n
  BY <1>1, AtFacts
<1> HIDE DEF r
<1>6. \A n \in 0 .. Len(s) : At(h, r, n) =
          IF n < i THEN At(h, s, n) ELSE At(h, s, n + 1)
  <2> SUFFICES ASSUME NEW n \in 0 .. Len(s)
               PROVE  At(h, r, n) = IF n < i THEN At(h, s, n) ELSE At(h, s, n + 1)
    OBVIOUS
  <2>1. CASE n = 0
    BY <2>1, <1>1 DEF At
  <2>2. CASE n = Len(s)
    BY <2>2, <1>1, <1>2 DEF At
  <2>3. CASE n \in 1 .. Len(s) - 1
    <3>1. At(h, r, n) = r[n]
      BY <2>3, <1>1, <1>2 DEF At
    <3>2. n \in 1 .. Len(s) /\ n + 1 \in 1 .. Len(s)
      BY <2>3, <1>1
    <3> QED BY <2>3, <3>1, <3>2, <1>1, <1>2, <1>4
  <2> QED BY <2>1, <2>2, <2>3, <1>1
<1>7. ASSUME NEW n \in 0 .. Len(r)
      PROVE  /\ q'[At(h, r, n)].qnext = At(h, r, n + 1)
             /\ q'[At(h, r, n + 1)].qprev = At(h, r, n)
  <2>0. n \in 0 .. Len(s) - 1 /\ n + 1 \in 0 .. Len(s)
    BY <1>1, <1>2
  <2>1. CASE n < i - 1
    <3>1. /\ At(h, r, n) = At(h, s, n) /\ At(h, r, n + 1) = At(h, s, n + 1)
          /\ n \in 0 .. Len(s) /\ i - 1 \in 0 .. Len(s) + 1 /\ i + 1 \in 0 .. Len(s) + 1
          /\ n # i - 1 /\ n + 1 # i + 1
      BY <1>1, <1>6, <2>0, <2>1
    <3>2. /\ At(h, s, n) # At(h, s, i - 1) /\ At(h, s, n + 1) # At(h, s, i + 1)
          /\ At(h, s, n) \in Entries /\ At(h, s, n + 1) \in Entries
      BY <3>1, <2>0, <1>1, <1>4
    <3>3. /\ q[At(h, s, n)].qnext = At(h, s, n + 1)
          /\ q[At(h, s, n + 1)].qprev = At(h, s, n)
      BY <3>1 DEF Chain, Links
    <3> QED BY <3>1, <3>2, <3>3
  <2>2. CASE n = i - 1
    <3>1. /\ At(h, r, n) = At(h, s, i - 1) /\ At(h, r, n + 1) = At(h, s, i + 1)
          /\ At(h, s, i - 1) \in Entries /\ At(h, s, i + 1) \in Entries
      BY <1>1, <1>4, <1>6, <2>0, <2>2
    <3> QED BY <3>1
  <2>3. CASE n > i - 1
    <3>1. /\ At(h, r, n) = At(h, s, n + 1) /\ At(h, r, n + 1) = At(h, s, n + 2)
          /\ n + 1 \in 0 .. Len(s) /\ n + 2 \in 0 .. Len(s) + 1
          /\ i - 1 \in 0 .. Len(s) + 1 /\ i + 1 \in 0 .. Len(s) + 1
          /\ n + 1 # i - 1 /\ n + 2 # i + 1
      BY <1>1, <1>6, <2>0, <2>3
    <3>2. /\ At(h, s, n + 1) # At(h, s, i - 1) /\ At(h, s, n + 2) # At(h, s, i + 1)
          /\ At(h, s, n + 1) \in Entries /\ At(h, s, n + 2) \in Entries
      BY <3>1, <1>4
    <3>3. /\ q[At(h, s, n + 1)].qnext = At(h, s, n + 2)
          /\ q[At(h, s, n + 2)].qprev = At(h, s, n + 1)
      <4>1. (n + 1) + 1 = n + 2
        BY <2>0
      <4> QED BY <3>1, <4>1 DEF Chain, Links
    <3> QED BY <3>1, <3>2, <3>3
  <2> QED BY <1>1, <2>0, <2>1, <2>2, <2>3
<1>8. Chain(h, r)'
  BY <1>2, <1>3, <1>7 DEF Chain, Links, At
<1> QED BY <1>8 DEF r

(* Another queue's chain stays.                                            *)
LEMMA ChainStays ==
    ASSUME NEW h \in Heads, NEW s, Chain(h, s),
           \A e \in Entries : e = h \/ (e \in Procs /\ on[e] = h) =>
               q'[e].qnext = q[e].qnext,
           \A e \in Entries : e = Tail_(h) \/ (e \in Procs /\ on[e] = h) =>
               q'[e].qprev = q[e].qprev,
           \A x \in Procs : on'[x] = h <=> on[x] = h
    PROVE  Chain(h, s)'
<1>1. /\ s \in Seq(Procs) /\ IsInjective(s) /\ Len(s) \in Nat
      /\ \A n \in 1 .. Len(s) : s[n] \in Procs /\ on[s[n]] = h
  <2>1. s \in Seq(Procs) /\ IsInjective(s) /\ Len(s) \in Nat
    BY ChainFacts
  <2>2. \A n \in 1 .. Len(s) : s[n] \in Procs /\ on[s[n]] = h
    BY ChainIsOnQueue
  <2> QED BY <2>1, <2>2
<1>2. /\ At(h, s, 0) = h /\ At(h, s, Len(s) + 1) = Tail_(h)
      /\ \A n \in 1 .. Len(s) : At(h, s, n) = s[n] /\ s[n] \in Procs
      /\ \A n \in 0 .. Len(s) + 1 : At(h, s, n) \in Entries
  BY <1>1, AtFacts
<1>3. ASSUME NEW n \in 0 .. Len(s)
      PROVE  /\ q'[At(h, s, n)].qnext = At(h, s, n + 1)
             /\ q'[At(h, s, n + 1)].qprev = At(h, s, n)
  <2>1. /\ q[At(h, s, n)].qnext = At(h, s, n + 1)
        /\ q[At(h, s, n + 1)].qprev = At(h, s, n)
    BY DEF Chain, Links
  <2>2. /\ n = 0 \/ n \in 1 .. Len(s)
        /\ n + 1 = Len(s) + 1 \/ n + 1 \in 1 .. Len(s)
        /\ n \in 0 .. Len(s) + 1 /\ n + 1 \in 0 .. Len(s) + 1
    BY <1>1
  <2>3. q'[At(h, s, n)].qnext = q[At(h, s, n)].qnext
    BY <1>1, <1>2, <2>2
  <2>4. q'[At(h, s, n + 1)].qprev = q[At(h, s, n + 1)].qprev
    BY <1>1, <1>2, <2>2
  <2> QED BY <2>1, <2>3, <2>4
<1>4. {x \in Procs : on'[x] = h} = {x \in Procs : on[x] = h}
  OBVIOUS
<1> QED BY <1>1, <1>3, <1>4 DEF Chain, Links, At
-----------------------------------------------------------------------------
(* What the walks find.                                                    *)

(* A chain has room for every process once.                                *)
LEMMA ChainShort ==
    ASSUME NEW h, NEW s, Chain(h, s)
    PROVE  Len(s) <= NPROC
<1>1. s \in Seq(Procs) /\ IsInjective(s) /\ Len(s) \in Nat
  BY ChainFacts
<1>2. s \in [1 .. Len(s) -> Procs] /\ DOMAIN s = 1 .. Len(s)
  BY <1>1, LenProperties
<1>3. s \in Injection(1 .. Len(s), Procs)
  BY <1>1, <1>2 DEF Injection, IsInjective
<1>4. /\ IsFiniteSet(Procs) /\ Cardinality(Procs) = NPROC
      /\ Cardinality(1 .. Len(s)) = Len(s)
  <2>1. 0 \in Int /\ NPROC - 1 \in Int /\ ~(0 > NPROC - 1) /\ NPROC - 1 - 0 + 1 = NPROC
    BY EntryFacts
  <2>2. IsFiniteSet(Procs) /\ Cardinality(Procs) = NPROC
    BY <2>1, FS_Interval DEF Procs
  <2>3. 1 \in Int /\ Len(s) \in Int /\ (IF 1 > Len(s) THEN 0 ELSE Len(s) - 1 + 1) = Len(s)
    BY <1>1
  <2>4. Cardinality(1 .. Len(s)) = Len(s)
    BY <2>3, FS_Interval
  <2> QED BY <2>2, <2>4
<1>5. Cardinality(1 .. Len(s)) <= Cardinality(Procs)
  BY <1>3, <1>4, FS_Injection
<1> QED BY <1>4, <1>5

LEMMA WalkFollows ==
    ASSUME TypeOK, EndsInv, NEW h \in Built, NEW s, Chain(h, s)
    PROVE  \A n \in 0 .. NPROC + 1 : Walk(h)[n] = At(h, s, n)
<1> DEFINE next == [e \in Entries |-> IF q[e].qnext = EMPTY THEN e ELSE q[e].qnext]
           w == Walk(h)
           g == [n \in 0 .. NPROC + 1 |-> At(h, s, n)]
<1>1. /\ h \in Heads /\ NPROC \in Nat
      /\ s \in Seq(Procs) /\ IsInjective(s) /\ Len(s) \in Nat
  BY ChainFacts, EntryFacts DEF Built
<1>2. /\ At(h, s, 0) = h
      /\ \A n \in 0 .. Len(s) + 1 : At(h, s, n) \in Entries
  BY <1>1, AtFacts
<1>3. \A n \in Nat : n > Len(s) => At(h, s, n) = Tail_(h)
  BY <1>1 DEF At
<1>4. Tail_(h) \in Entries /\ q[Tail_(h)].qnext = EMPTY
  BY <1>1, EntryFacts DEF EndsInv
<1>5. ASSUME NEW n \in 0 .. NPROC
      PROVE  next[At(h, s, n)] = At(h, s, n + 1)
  <2>1. CASE n <= Len(s)
    <3>1. n \in 0 .. Len(s) /\ n \in 0 .. Len(s) + 1 /\ n + 1 \in 0 .. Len(s) + 1
      BY <2>1, <1>1
    <3>2. q[At(h, s, n)].qnext = At(h, s, n + 1)
      BY <3>1 DEF Chain, Links
    <3>3. At(h, s, n) \in Entries /\ At(h, s, n + 1) \in Entries
      BY <3>1, <1>2
    <3>4. At(h, s, n + 1) # EMPTY
      BY <3>3 DEF Entries, EMPTY
    <3> QED BY <3>2, <3>3, <3>4
  <2>2. CASE n > Len(s)
    <3>1. At(h, s, n) = Tail_(h) /\ At(h, s, n + 1) = Tail_(h)
      BY <2>2, <1>1, <1>3
    <3> QED BY <3>1, <1>4
  <2> QED BY <2>1, <2>2, <1>1
<1> HIDE DEF next
<1>6. g = [n \in 0 .. NPROC + 1 |-> IF n = 0 THEN h ELSE next[g[n - 1]]]
  <2>1. ASSUME NEW n \in 0 .. NPROC + 1
        PROVE  g[n] = IF n = 0 THEN h ELSE next[g[n - 1]]
    <3>1. CASE n = 0
      BY <3>1, <1>2
    <3>2. CASE n # 0
      <4>1. n - 1 \in 0 .. NPROC /\ n - 1 \in 0 .. NPROC + 1 /\ (n - 1) + 1 = n
        BY <3>2, <1>1
      <4> QED BY <4>1, <3>2, <1>5
    <3> QED BY <3>1, <3>2
  <2> QED BY <2>1
<1> HIDE DEF g
<1>7. w = [n \in 0 .. NPROC + 1 |-> IF n = 0 THEN h ELSE next[w[n - 1]]]
  BY <1>6 DEF Walk, next
<1> HIDE DEF w
<1> DEFINE T == {n \in 0 .. NPROC + 1 : w[n] = At(h, s, n)}
<1>8. 0 \in T
  BY <1>1, <1>2, <1>7
<1>9. ASSUME NEW n \in 0 .. (NPROC + 1) - 1, n \in T
      PROVE  n + 1 \in T
  <2>1. n \in 0 .. NPROC /\ n + 1 \in 0 .. NPROC + 1 /\ n + 1 # 0 /\ (n + 1) - 1 = n
    BY <1>1
  <2>2. w[n + 1] = next[w[n]]
    BY <2>1, <1>7
  <2>3. w[n] = At(h, s, n)
    BY <1>9
  <2> QED BY <2>1, <2>2, <2>3, <1>5
<1>10. 0 .. NPROC + 1 \subseteq T
  <2> HIDE DEF T
  <2> QED BY <1>1, <1>8, <1>9, Induct
<1> QED BY <1>10 DEF w

(* Members finds the chain, so there is one only.                          *)
LEMMA MembersAre ==
    ASSUME TypeOK, EndsInv, NEW h \in Built, NEW s, Chain(h, s)
    PROVE  Members(h) = s
<1> DEFINE w == Walk(h)
           M == {m \in 0 .. NPROC + 1 : \A i \in 1 .. m : w[i] < NPROC}
<1>1. /\ h \in Heads /\ NPROC \in Nat
      /\ s \in Seq(Procs) /\ IsInjective(s) /\ Len(s) \in Nat /\ Len(s) <= NPROC
  BY ChainFacts, ChainShort, EntryFacts DEF Built
<1>2. \A n \in 0 .. NPROC + 1 : w[n] = At(h, s, n)
  BY WalkFollows
<1> HIDE DEF w
<1>3. \A n \in 1 .. Len(s) : w[n] = s[n] /\ w[n] < NPROC
  <2>1. \A n \in 1 .. Len(s) : n \in 0 .. NPROC + 1 /\ At(h, s, n) = s[n] /\ s[n] \in Procs
    BY <1>1, AtFacts
  <2> QED BY <2>1, <1>2, EntryFacts
<1>4. ~(w[Len(s) + 1] < NPROC)
  <2>1. Len(s) + 1 \in 0 .. NPROC + 1 /\ At(h, s, Len(s) + 1) = Tail_(h)
    BY <1>1, AtFacts
  <2>2. Tail_(h) \in Nat /\ Tail_(h) >= NPROC
    BY <1>1, EntryFacts
  <2> QED BY <2>1, <2>2, <1>1, <1>2
<1>5. Max(M) = Len(s)
  <2>1. Len(s) \in M
    BY <1>1, <1>3
  <2>2. \A m \in M : m <= Len(s)
    <3> SUFFICES ASSUME NEW m \in M, m > Len(s) PROVE FALSE
      BY <1>1
    <3>1. Len(s) + 1 \in 1 .. m
      BY <1>1
    <3> QED BY <3>1, <1>4
  <2>3. M \subseteq 0 .. NPROC + 1 /\ NPROC + 1 \in Nat
    BY <1>1
  <2> HIDE DEF M
  <2>4. Max(M) \in M /\ \A y \in M : Max(M) >= y
    BY <2>1, <2>3, MaxOfBounded
  <2> DEFINE x == Max(M)
  <2> HIDE DEF x
  <2>5. x \in M /\ x >= Len(s)
    BY <2>1, <2>4 DEF x
  <2>6. x \in 0 .. NPROC + 1 /\ x <= Len(s)
    BY <2>2, <2>3, <2>5
  <2>7. x = Len(s)
    BY <2>5, <2>6, <1>1
  <2> QED BY <2>7 DEF x
<1>6. Members(h) = [m \in 1 .. Len(s) |-> w[m]]
  BY <1>5 DEF Members, w
<1>7. s = [m \in 1 .. Len(s) |-> s[m]]
  BY <1>1, LenProperties
<1> QED BY <1>3, <1>6, <1>7
-----------------------------------------------------------------------------
(* Steps that link an entry in or take one out keep the invariant.         *)

Entry == [qkey : Int, qnext : Int, qprev : Int]

Inserted(h, s, i, p) ==
    /\ q' \in [Entries -> Entry]
    /\ \A e \in Entries : q'[e].qnext =
           IF e = p THEN At(h, s, i)
           ELSE IF e = At(h, s, i - 1) THEN p ELSE q[e].qnext
    /\ \A e \in Entries : q'[e].qprev =
           IF e = p THEN At(h, s, i - 1)
           ELSE IF e = At(h, s, i) THEN p ELSE q[e].qprev
    /\ \A e \in Entries \ Procs : q'[e].qkey = q[e].qkey
    /\ \A x \in Procs : q'[x].qkey \in 0 .. MAXINT
    /\ on' = [on EXCEPT ![p] = h]
    /\ UNCHANGED <<nextqueue, shown>>

Removed(h, s, i) ==
    /\ q' \in [Entries -> Entry]
    /\ \A e \in Entries : q'[e].qnext =
           IF e = At(h, s, i - 1) THEN At(h, s, i + 1) ELSE q[e].qnext
    /\ \A e \in Entries : q'[e].qprev =
           IF e = At(h, s, i + 1) THEN At(h, s, i - 1) ELSE q[e].qprev
    /\ \A e \in Entries : q'[e].qkey = q[e].qkey
    /\ on' = [on EXCEPT ![s[i]] = EMPTY]
    /\ UNCHANGED <<nextqueue, shown>>

(* What the entries of a chain are.                                        *)
LEMMA AtKinds ==
    ASSUME NEW h \in Heads, NEW s, Chain(h, s)
    PROVE  /\ \A n \in 0 .. Len(s) : At(h, s, n) = h \/ At(h, s, n) \in Procs
           /\ \A n \in 1 .. Len(s) + 1 : At(h, s, n) \in Procs \cup Tails
           /\ \A n \in 0 .. Len(s) + 1 : At(h, s, n) \in Procs => on[At(h, s, n)] = h
           /\ \A n \in 1 .. Len(s) + 1 : At(h, s, n) = Tail_(h) \/ At(h, s, n) \in Procs
           /\ \A n \in 0 .. Len(s) + 1 : At(h, s, n) \in Entries
<1>1. s \in Seq(Procs) /\ IsInjective(s) /\ Len(s) \in Nat
  BY ChainFacts
<1>2. /\ At(h, s, 0) = h /\ At(h, s, Len(s) + 1) = Tail_(h)
      /\ \A n \in 1 .. Len(s) : At(h, s, n) = s[n] /\ s[n] \in Procs
      /\ \A n \in 0 .. Len(s) + 1 : At(h, s, n) \in Entries
  BY <1>1, AtFacts
<1>3. \A n \in 1 .. Len(s) : on[s[n]] = h
  BY ChainFacts, ElementOfSeq
<1>4. h \notin Procs /\ Tail_(h) \notin Procs /\ Tail_(h) \in Tails
  BY EntryFacts
<1>5. \A n \in 0 .. Len(s) + 1 : n = 0 \/ n \in 1 .. Len(s) \/ n = Len(s) + 1
  BY <1>1
<1>6. /\ \A n \in 0 .. Len(s) : n = 0 \/ n \in 1 .. Len(s)
      /\ \A n \in 1 .. Len(s) + 1 : n \in 1 .. Len(s) \/ n = Len(s) + 1
  BY <1>1
<1> QED BY <1>2, <1>3, <1>4, <1>5, <1>6

LEMMA InsertedKeeps ==
    ASSUME LinksInv, nextqueue = NQENT, NEW h \in Heads, NEW s, Chain(h, s),
           NEW i \in 1 .. Len(s) + 1, NEW p \in Procs, on[p] = EMPTY,
           Inserted(h, s, i, p)
    PROVE  /\ LinksInv' /\ Chain(h, InsertAt(s, i, p))'
           /\ \A g \in Heads : \A t : g # h /\ Chain(g, t) => Chain(g, t)'
<1>0. /\ Built = Heads /\ Built' = Heads /\ on \in [Procs -> {EMPTY} \cup Heads]
      /\ TypeOK /\ EndsInv /\ EntriesInv /\ \A g \in Heads : \E t : Chain(g, t)
  <2>1. Built = Heads
    BY DEF Built, Heads, Entries, NQENT
  <2>2. Built' = Built
    BY DEF Built, Inserted
  <2> QED BY <2>1, <2>2 DEF LinksInv, TypeOK
<1>1. /\ s \in Seq(Procs) /\ IsInjective(s) /\ Len(s) \in Nat /\ i \in Nat
      /\ i - 1 \in 0 .. Len(s) /\ i - 1 \in 0 .. Len(s) + 1 /\ i \in 0 .. Len(s) + 1
  <2>1. s \in Seq(Procs) /\ IsInjective(s) /\ Len(s) \in Nat
    BY ChainFacts
  <2> QED BY <2>1
<1>2. /\ At(h, s, i - 1) = h \/ At(h, s, i - 1) \in Procs
      /\ At(h, s, i) \in Procs \cup Tails
      /\ At(h, s, i) = Tail_(h) \/ At(h, s, i) \in Procs
      /\ At(h, s, i - 1) \in Procs => on[At(h, s, i - 1)] = h
      /\ At(h, s, i) \in Procs => on[At(h, s, i)] = h
  BY <1>1, AtKinds
<1>3. h # EMPTY /\ p \in Entries /\ p # EMPTY /\ h \notin Procs
  BY EntryFacts DEF EMPTY
<1>4. Chain(h, InsertAt(s, i, p))'
  <2>1. \A x \in Procs : on'[x] = IF x = p THEN h ELSE on[x]
    BY <1>0 DEF Inserted
  <2>2. on[p] # h
    BY <1>3
  <2>3. \A e \in Entries : q'[e].qnext =
               IF e = p THEN At(h, s, i)
               ELSE IF e = At(h, s, i - 1) THEN p ELSE q[e].qnext
    BY DEF Inserted
  <2>4. \A e \in Entries : q'[e].qprev =
               IF e = p THEN At(h, s, i - 1)
               ELSE IF e = At(h, s, i) THEN p ELSE q[e].qprev
    BY DEF Inserted
  <2> QED BY <2>1, <2>2, <2>3, <2>4, ChainInserts
<1>5. ASSUME NEW g \in Heads, NEW t, g # h, Chain(g, t)
      PROVE  Chain(g, t)'
  <2>1. g # EMPTY /\ g \notin Procs /\ Tail_(g) # Tail_(h) /\ Tail_(g) \notin Procs
        /\ nextqueue \in Int
    BY <1>0, <1>5, EntryFacts, BuiltFacts DEF EMPTY, TypeOK
  <2>2. \A e \in Entries : e = g \/ (e \in Procs /\ on[e] = g) =>
            e # p /\ e # At(h, s, i - 1)
    BY <1>2, <1>3, <1>5, <2>1
  <2>3. \A e \in Entries : e = Tail_(g) \/ (e \in Procs /\ on[e] = g) =>
            e # p /\ e # At(h, s, i)
    BY <1>2, <1>3, <1>5, <2>1
  <2>4. \A x \in Procs : on'[x] = g <=> on[x] = g
    BY <1>0, <1>3, <1>5, <2>1 DEF Inserted
  <2>5. \A e \in Entries : e = g \/ (e \in Procs /\ on[e] = g) =>
            q'[e].qnext = q[e].qnext
    BY <2>2 DEF Inserted
  <2>6. \A e \in Entries : e = Tail_(g) \/ (e \in Procs /\ on[e] = g) =>
            q'[e].qprev = q[e].qprev
    BY <2>3 DEF Inserted
  <2> QED BY <1>5, <2>4, <2>5, <2>6, ChainStays
<1>6. TypeOK'
  BY <1>0, <1>3 DEF TypeOK, Inserted, Entry
<1>7. EndsInv'
  <2>1. ASSUME NEW g \in Heads
        PROVE  /\ q'[g].qkey = MININT
               /\ q'[Tail_(g)].qkey = MAXINT /\ q'[Tail_(g)].qnext = EMPTY
    <3>1. /\ g \in Entries \ Procs /\ Tail_(g) \in Entries \ Procs
          /\ Tail_(g) # h /\ nextqueue \in Int
      BY <1>0, EntryFacts, BuiltFacts DEF TypeOK
    <3>2. Tail_(g) # p /\ Tail_(g) # At(h, s, i - 1)
      BY <3>1, <1>2
    <3> QED BY <1>0, <3>1, <3>2 DEF EndsInv, Inserted
  <2> QED BY <2>1, <1>0 DEF EndsInv
<1>8. EntriesInv'
  <2>1. ASSUME NEW x \in Procs
        PROVE  q'[x].qkey \in 0 .. MAXINT /\ q'[x].qnext \in Procs \cup Tails
    <3>1. x \in Entries /\ q[x].qnext \in Procs \cup Tails
      BY <1>0, EntryFacts DEF EntriesInv
    <3> QED BY <3>1, <1>2 DEF Inserted
  <2> QED BY <2>1 DEF EntriesInv
<1>9. \A g \in Heads : \E t : Chain(g, t)'
  BY <1>0, <1>4, <1>5
<1> QED BY <1>0, <1>4, <1>5, <1>6, <1>7, <1>8, <1>9 DEF LinksInv

LEMMA RemovedKeeps ==
    ASSUME LinksInv, nextqueue = NQENT, NEW h \in Heads, NEW s, Chain(h, s),
           NEW i \in 1 .. Len(s), Removed(h, s, i)
    PROVE  /\ LinksInv' /\ Chain(h, RemoveAt(s, i))'
           /\ \A g \in Heads : \A t : g # h /\ Chain(g, t) => Chain(g, t)'
<1>0. /\ Built = Heads /\ Built' = Heads /\ on \in [Procs -> {EMPTY} \cup Heads]
      /\ TypeOK /\ EndsInv /\ EntriesInv /\ \A g \in Heads : \E t : Chain(g, t)
  <2>1. Built = Heads
    BY DEF Built, Heads, Entries, NQENT
  <2>2. Built' = Built
    BY DEF Built, Removed
  <2> QED BY <2>1, <2>2 DEF LinksInv, TypeOK
<1>1. /\ s \in Seq(Procs) /\ IsInjective(s) /\ Len(s) \in Nat /\ i \in Nat
      /\ i - 1 \in 0 .. Len(s) /\ i - 1 \in 0 .. Len(s) + 1
      /\ i + 1 \in 1 .. Len(s) + 1 /\ i + 1 \in 0 .. Len(s) + 1
      /\ s[i] \in Procs
  <2>1. s \in Seq(Procs) /\ IsInjective(s) /\ Len(s) \in Nat
    BY ChainFacts
  <2>2. s[i] \in Procs
    BY <2>1, ElementOfSeq
  <2> QED BY <2>1, <2>2
<1>2. /\ At(h, s, i - 1) = h \/ At(h, s, i - 1) \in Procs
      /\ At(h, s, i + 1) \in Procs \cup Tails
      /\ At(h, s, i + 1) = Tail_(h) \/ At(h, s, i + 1) \in Procs
      /\ At(h, s, i - 1) \in Procs => on[At(h, s, i - 1)] = h
      /\ At(h, s, i + 1) \in Procs => on[At(h, s, i + 1)] = h
      /\ on[s[i]] = h
  BY <1>1, AtKinds, AtFacts
<1>3. h # EMPTY /\ h \notin Procs
  BY EntryFacts DEF EMPTY
<1>4. Chain(h, RemoveAt(s, i))'
  <2>1. \A x \in Procs : on'[x] = IF x = s[i] THEN EMPTY ELSE on[x]
    BY <1>0 DEF Removed
  <2>3. \A e \in Entries : q'[e].qnext =
               IF e = At(h, s, i - 1) THEN At(h, s, i + 1) ELSE q[e].qnext
    BY DEF Removed
  <2>4. \A e \in Entries : q'[e].qprev =
               IF e = At(h, s, i + 1) THEN At(h, s, i - 1) ELSE q[e].qprev
    BY DEF Removed
  <2> QED BY <2>1, <2>3, <2>4, ChainRemoves
<1>5. ASSUME NEW g \in Heads, NEW t, g # h, Chain(g, t)
      PROVE  Chain(g, t)'
  <2>1. g # EMPTY /\ g \notin Procs /\ Tail_(g) # Tail_(h) /\ Tail_(g) \notin Procs
        /\ nextqueue \in Int
    BY <1>0, <1>5, EntryFacts, BuiltFacts DEF EMPTY, TypeOK
  <2>2. \A e \in Entries : e = g \/ (e \in Procs /\ on[e] = g) => e # At(h, s, i - 1)
    BY <1>2, <1>3, <1>5, <2>1
  <2>3. \A e \in Entries : e = Tail_(g) \/ (e \in Procs /\ on[e] = g) =>
            e # At(h, s, i + 1)
    BY <1>2, <1>3, <1>5, <2>1
  <2>4. \A x \in Procs : on'[x] = g <=> on[x] = g
    BY <1>0, <1>2, <1>5, <2>1 DEF Removed
  <2>5. \A e \in Entries : e = g \/ (e \in Procs /\ on[e] = g) =>
            q'[e].qnext = q[e].qnext
    BY <2>2 DEF Removed
  <2>6. \A e \in Entries : e = Tail_(g) \/ (e \in Procs /\ on[e] = g) =>
            q'[e].qprev = q[e].qprev
    BY <2>3 DEF Removed
  <2> QED BY <1>5, <2>4, <2>5, <2>6, ChainStays
<1>6. TypeOK'
  BY <1>0, <1>1 DEF TypeOK, Removed, Entry
<1>7. EndsInv'
  <2>1. ASSUME NEW g \in Heads
        PROVE  /\ q'[g].qkey = MININT
               /\ q'[Tail_(g)].qkey = MAXINT /\ q'[Tail_(g)].qnext = EMPTY
    <3>1. /\ g \in Entries \ Procs /\ Tail_(g) \in Entries \ Procs
          /\ Tail_(g) # h /\ nextqueue \in Int
      BY <1>0, EntryFacts, BuiltFacts DEF TypeOK
    <3>2. Tail_(g) # At(h, s, i - 1)
      BY <3>1, <1>2
    <3> QED BY <1>0, <3>1, <3>2 DEF EndsInv, Removed
  <2> QED BY <2>1, <1>0 DEF EndsInv
<1>8. EntriesInv'
  <2>1. ASSUME NEW x \in Procs
        PROVE  q'[x].qkey \in 0 .. MAXINT /\ q'[x].qnext \in Procs \cup Tails
    <3>1. /\ x \in Entries /\ q[x].qkey \in 0 .. MAXINT
          /\ q[x].qnext \in Procs \cup Tails
      BY <1>0, EntryFacts DEF EntriesInv
    <3> QED BY <3>1, <1>2 DEF Removed
  <2> QED BY <2>1 DEF EntriesInv
<1>9. \A g \in Heads : \E t : Chain(g, t)'
  BY <1>0, <1>4, <1>5
<1> QED BY <1>0, <1>4, <1>5, <1>6, <1>7, <1>8, <1>9 DEF LinksInv
-----------------------------------------------------------------------------
(* No queues at first; newqueue adds one that is empty.                    *)

LEMMA InitLinks == Init => LinksInv
<1> SUFFICES ASSUME Init PROVE LinksInv
  OBVIOUS
<1>1. NPROC \in Nat /\ NPROC > 0 /\ NQENT \in Nat /\ NQENT > NPROC /\ 0 \in Procs
  BY EntryFacts DEF Procs
<1>2. Built = {}
  BY <1>1, EntryFacts DEF Init, Built
<1>3. TypeOK
  <2>1. q \in [Entries -> [qkey : Int, qnext : Int, qprev : Int]]
    BY DEF Init
  <2>2. nextqueue \in NPROC .. NQENT /\ (nextqueue - NPROC) % 2 = 0
    BY <1>1 DEF Init
  <2> QED BY <2>1, <2>2 DEF TypeOK, Init
<1>4. EntriesInv
  <2>1. \A p \in Procs : q[p] = [qkey |-> 0, qnext |-> 0, qprev |-> 0]
    BY EntryFacts DEF Init
  <2>2. 0 \in 0 .. MAXINT
    BY DEF MAXINT
  <2> QED BY <1>1, <2>1, <2>2 DEF EntriesInv
<1> QED BY <1>2, <1>3, <1>4 DEF LinksInv, EndsInv

LEMMA NewQueueKeeps ==
    ASSUME LinksInv, newqueue, NEW h, h = nextqueue
    PROVE  /\ LinksInv' /\ Chain(h, <<>>)'
           /\ \A g \in Built : \A t : Chain(g, t) => Chain(g, t)'
<1>1. /\ TypeOK /\ EndsInv /\ EntriesInv /\ \A g \in Built : \E t : Chain(g, t)
      /\ h \in Heads /\ h \in Nat /\ h >= NPROC /\ h \in Entries /\ Tail_(h) = h + 1
      /\ h + 1 \in Entries /\ h \notin Procs /\ h + 1 \notin Procs /\ h # EMPTY
      /\ h # h + 1
  BY EntryFacts DEF LinksInv, newqueue, EMPTY
<1>2. /\ q' \in [Entries -> [qkey : Int, qnext : Int, qprev : Int]]
      /\ q'[h] = [qkey |-> MININT, qnext |-> h + 1, qprev |-> EMPTY]
      /\ q'[h + 1] = [qkey |-> MAXINT, qnext |-> EMPTY, qprev |-> h]
      /\ \A e \in Entries : e # h /\ e # h + 1 => q'[e] = q[e]
      /\ nextqueue' = h + 2 /\ on' = on /\ shown' = shown
  BY <1>1 DEF newqueue, TypeOK, MININT, MAXINT, EMPTY
<1>3. Built' = Built \cup {h}
  <2>1. \A g \in Heads : g < h + 2 <=> g < h \/ g = h
    <3>1. \A g \in Heads : g \in Nat /\ g # h + 1
      BY <1>1, EntryFacts
    <3> QED BY <3>1, <1>1
  <2> QED BY <1>1, <1>2, <2>1 DEF Built
<1>4. h \notin Built /\ \A p \in Procs : on[p] # h
  <2>1. h \notin Built
    BY <1>1 DEF Built
  <2> QED BY <2>1, <1>1 DEF TypeOK
<1>5. Chain(h, <<>>)'
  <2>1. <<>> \in Seq(Procs) /\ Len(<<>>) = 0
    OBVIOUS
  <2>2. Holds(<<>>, {p \in Procs : on'[p] = h})
    <3>1. {p \in Procs : on'[p] = h} = {}
      BY <1>2, <1>4
    <3>2. ToSet(<<>>) = {} /\ IsInjective(<<>>)
      BY DEF ToSet, IsInjective
    <3> QED BY <3>1, <3>2 DEF Holds
  <2>3. ASSUME NEW n \in 0 .. 0
        PROVE  /\ q'[At(h, <<>>, n)].qnext = At(h, <<>>, n + 1)
               /\ q'[At(h, <<>>, n + 1)].qprev = At(h, <<>>, n)
    <3>1. At(h, <<>>, n) = h /\ At(h, <<>>, n + 1) = h + 1
      BY <1>1, <2>1 DEF At
    <3> QED BY <3>1, <1>2
  <2> QED BY <2>1, <2>2, <2>3 DEF Chain, Links, At
<1>6. ASSUME NEW g \in Built, NEW t, Chain(g, t)
      PROVE  Chain(g, t)'
  <2>1. g \in Heads /\ g # h /\ Tail_(g) # h + 1 /\ g # h + 1 /\ Tail_(g) # h
        /\ Tail_(g) \in Entries
    BY <1>1, <1>4, EntryFacts, BuiltFacts DEF Built, TypeOK
  <2>2. \A e \in Entries : e = g \/ e = Tail_(g) \/ (e \in Procs /\ on[e] = g) =>
            q'[e] = q[e]
    BY <1>1, <1>2, <2>1
  <2> QED BY <1>2, <1>6, <2>1, <2>2, ChainStays
<1>7. TypeOK'
  <2>1. nextqueue' \in NPROC .. NQENT /\ (nextqueue' - NPROC) % 2 = 0
    <3>1. h \in NPROC .. NQENT /\ (h - NPROC) % 2 = 0 /\ h \in Nat
          /\ NPROC \in Nat /\ NQENT \in Nat /\ (NQENT - NPROC) % 2 = 0
          /\ h + 1 <= NQENT - 1
      BY <1>1, EntryFacts DEF TypeOK, Entries
    <3> QED BY <3>1, <1>2
  <2>2. on' \in [Procs -> {EMPTY} \cup Built'] /\ shown' \in {EMPTY} \cup Heads \cup Procs
    BY <1>1, <1>2, <1>3 DEF TypeOK
  <2>3. shown = EMPTY
    BY <1>1, EntryFacts DEF TypeOK, Heads, Entries
  <2> QED BY <1>2, <2>1, <2>2, <2>3 DEF TypeOK
<1>8. EndsInv'
  <2>1. ASSUME NEW g \in Built
        PROVE  /\ q'[g].qkey = MININT
               /\ q'[Tail_(g)].qkey = MAXINT /\ q'[Tail_(g)].qnext = EMPTY
    <3>1. g \in Heads /\ g # h /\ Tail_(g) # h + 1 /\ g # h + 1 /\ Tail_(g) # h
          /\ g \in Entries /\ Tail_(g) \in Entries
      BY <1>1, <1>4, EntryFacts, BuiltFacts DEF Built, TypeOK
    <3> QED BY <3>1, <1>1, <1>2 DEF EndsInv
  <2> QED BY <2>1, <1>1, <1>2, <1>3 DEF EndsInv
<1>9. EntriesInv'
  <2>1. \A p \in Procs : q'[p] = q[p]
    BY <1>1, <1>2, EntryFacts
  <2> QED BY <2>1, <1>1 DEF EntriesInv
<1> QED BY <1>1, <1>3, <1>5, <1>6, <1>7, <1>8, <1>9 DEF LinksInv
-----------------------------------------------------------------------------
(* The operations of queue.c and getitem.c.                                *)

(* One assignment to a field of an entry.                                  *)
LEMMA SetsNext ==
    ASSUME NEW r \in [Entries -> Entry], NEW a \in Entries, NEW v \in Int
    PROVE  /\ [r EXCEPT ![a].qnext = v] \in [Entries -> Entry]
           /\ \A e \in Entries :
                 /\ [r EXCEPT ![a].qnext = v][e].qnext = IF e = a THEN v ELSE r[e].qnext
                 /\ [r EXCEPT ![a].qnext = v][e].qprev = r[e].qprev
                 /\ [r EXCEPT ![a].qnext = v][e].qkey = r[e].qkey
<1>1. r[a] \in Entry
  OBVIOUS
<1>2. [r EXCEPT ![a].qnext = v] = [r EXCEPT ![a] = [r[a] EXCEPT !.qnext = v]]
  OBVIOUS
<1>3. /\ [r[a] EXCEPT !.qnext = v] \in Entry
      /\ [r[a] EXCEPT !.qnext = v].qnext = v
      /\ [r[a] EXCEPT !.qnext = v].qprev = r[a].qprev
      /\ [r[a] EXCEPT !.qnext = v].qkey = r[a].qkey
  BY <1>1 DEF Entry
<1> QED BY <1>2, <1>3

LEMMA SetsPrev ==
    ASSUME NEW r \in [Entries -> Entry], NEW a \in Entries, NEW v \in Int
    PROVE  /\ [r EXCEPT ![a].qprev = v] \in [Entries -> Entry]
           /\ \A e \in Entries :
                 /\ [r EXCEPT ![a].qprev = v][e].qprev = IF e = a THEN v ELSE r[e].qprev
                 /\ [r EXCEPT ![a].qprev = v][e].qnext = r[e].qnext
                 /\ [r EXCEPT ![a].qprev = v][e].qkey = r[e].qkey
<1>1. r[a] \in Entry
  OBVIOUS
<1>2. [r EXCEPT ![a].qprev = v] = [r EXCEPT ![a] = [r[a] EXCEPT !.qprev = v]]
  OBVIOUS
<1>3. /\ [r[a] EXCEPT !.qprev = v] \in Entry
      /\ [r[a] EXCEPT !.qprev = v].qprev = v
      /\ [r[a] EXCEPT !.qprev = v].qnext = r[a].qnext
      /\ [r[a] EXCEPT !.qprev = v].qkey = r[a].qkey
  BY <1>1 DEF Entry
<1> QED BY <1>2, <1>3

LEMMA SetsKey ==
    ASSUME NEW r \in [Entries -> Entry], NEW a \in Entries, NEW v \in Int
    PROVE  /\ [r EXCEPT ![a].qkey = v] \in [Entries -> Entry]
           /\ \A e \in Entries :
                 /\ [r EXCEPT ![a].qkey = v][e].qkey = IF e = a THEN v ELSE r[e].qkey
                 /\ [r EXCEPT ![a].qkey = v][e].qnext = r[e].qnext
                 /\ [r EXCEPT ![a].qkey = v][e].qprev = r[e].qprev
<1>1. r[a] \in Entry
  OBVIOUS
<1>2. [r EXCEPT ![a].qkey = v] = [r EXCEPT ![a] = [r[a] EXCEPT !.qkey = v]]
  OBVIOUS
<1>3. /\ [r[a] EXCEPT !.qkey = v] \in Entry
      /\ [r[a] EXCEPT !.qkey = v].qkey = v
      /\ [r[a] EXCEPT !.qkey = v].qnext = r[a].qnext
      /\ [r[a] EXCEPT !.qkey = v].qprev = r[a].qprev
  BY <1>1 DEF Entry
<1> QED BY <1>2, <1>3

LEMMA DequeueRemoves ==
    ASSUME LinksInv, nextqueue = NQENT, NEW p \in Procs, on[p] # EMPTY,
           dequeue(p), UNCHANGED <<nextqueue, shown>>
    PROVE  \E h \in Heads : \E s : \E i \in 1 .. Len(s) :
               Chain(h, s) /\ s[i] = p /\ Removed(h, s, i)
<1> DEFINE h == on[p]
<1>1. /\ h \in Heads /\ TypeOK /\ \E s : Chain(h, s)
  BY DEF LinksInv, TypeOK, Built
<1>2. PICK s : Chain(h, s)
  BY <1>1
<1>3. /\ s \in Seq(Procs) /\ IsInjective(s) /\ Len(s) \in Nat
      /\ \E n \in 1 .. Len(s) : s[n] = p
  <2>1. s \in Seq(Procs) /\ IsInjective(s) /\ Len(s) \in Nat
    BY <1>2, ChainFacts
  <2> HIDE DEF h
  <2>2. p \in ToSet(s)
    BY <1>2 DEF Chain, Holds, h
  <2>3. \E n \in 1 .. Len(s) : s[n] = p
    BY <2>1, <2>2, LenProperties DEF ToSet
  <2> QED BY <2>1, <2>3
<1>4. PICK i \in 1 .. Len(s) : s[i] = p
  BY <1>3
<1> HIDE DEF h
<1> DEFINE a == At(h, s, i - 1)
           b == At(h, s, i + 1)
<1>5. /\ i - 1 \in 0 .. Len(s) /\ i \in 0 .. Len(s) /\ (i - 1) + 1 = i
      /\ i - 1 \in 0 .. Len(s) + 1 /\ i + 1 \in 0 .. Len(s) + 1 /\ i - 1 # i + 1
  BY <1>3
<1>6. /\ At(h, s, i) = p /\ a \in Entries /\ b \in Entries /\ a # b
      /\ a \in Int /\ b \in Int
  BY <1>1, <1>3, <1>4, <1>5, AtFacts DEF Entries
<1>7. q[p].qprev = a /\ q[p].qnext = b
  BY <1>2, <1>5, <1>6 DEF Chain, Links
<1> HIDE DEF a, b
<1>8. Removed(h, s, i)
  <2>1. q' = [q EXCEPT ![a].qnext = b, ![b].qprev = a]
    BY <1>7 DEF dequeue
  <2>2. q \in [Entries -> Entry]
    BY <1>1 DEF TypeOK, Entry
  <2>3. /\ q' \in [Entries -> Entry]
        /\ \A e \in Entries : q'[e].qnext = IF e = a THEN b ELSE q[e].qnext
        /\ \A e \in Entries : q'[e].qprev = IF e = b THEN a ELSE q[e].qprev
        /\ \A e \in Entries : q'[e].qkey = q[e].qkey
    <3> DEFINE r == [q EXCEPT ![a].qnext = b]
    <3>1. q' = [r EXCEPT ![b].qprev = a]
      BY <2>1
    <3>2. /\ r \in [Entries -> Entry]
          /\ \A e \in Entries : /\ r[e].qnext = IF e = a THEN b ELSE q[e].qnext
                                /\ r[e].qprev = q[e].qprev /\ r[e].qkey = q[e].qkey
      BY <1>6, <2>2, SetsNext
    <3> HIDE DEF r
    <3>3. /\ q' \in [Entries -> Entry]
          /\ \A e \in Entries : /\ q'[e].qprev = IF e = b THEN a ELSE r[e].qprev
                                /\ q'[e].qnext = r[e].qnext /\ q'[e].qkey = r[e].qkey
      BY <1>6, <3>1, <3>2, SetsPrev
    <3> QED BY <3>2, <3>3
  <2>4. on' = [on EXCEPT ![s[i]] = EMPTY]
    BY <1>4 DEF dequeue
  <2> QED BY <2>3, <2>4 DEF Removed, a, b
<1> QED BY <1>1, <1>2, <1>4, <1>8

(* getfirst and getlast take an entry that is on the queue.                *)
LEMMA EndsAreMembers ==
    ASSUME LinksInv, NEW h \in Built
    PROVE  /\ q[h].qnext < NPROC => q[h].qnext \in Procs /\ on[q[h].qnext] = h
           /\ q[Tail_(h)].qprev < NPROC =>
                  q[Tail_(h)].qprev \in Procs /\ on[q[Tail_(h)].qprev] = h
<1>1. PICK s : Chain(h, s)
  BY DEF LinksInv
<1>2. h \in Heads /\ s \in Seq(Procs) /\ IsInjective(s) /\ Len(s) \in Nat
  BY <1>1, ChainFacts DEF Built
<1>3. /\ 0 \in 0 .. Len(s) /\ Len(s) \in 0 .. Len(s) /\ 1 \in 0 .. Len(s) + 1
      /\ Len(s) \in 0 .. Len(s) + 1 /\ 0 + 1 = 1 /\ 1 \in 1 .. Len(s) + 1
  BY <1>2
<1>4. q[h].qnext = At(h, s, 1) /\ q[Tail_(h)].qprev = At(h, s, Len(s))
  <2>1. q[At(h, s, 0)].qnext = At(h, s, 1)
    BY <1>1, <1>3 DEF Chain, Links
  <2>2. q[At(h, s, Len(s) + 1)].qprev = At(h, s, Len(s))
    BY <1>1, <1>3 DEF Chain, Links
  <2> QED BY <2>1, <2>2, <1>2, AtFacts
<1>5. /\ At(h, s, 1) \in Procs \cup Tails
      /\ At(h, s, Len(s)) = h \/ At(h, s, Len(s)) \in Procs
      /\ At(h, s, 1) \in Procs => on[At(h, s, 1)] = h
      /\ At(h, s, Len(s)) \in Procs => on[At(h, s, Len(s))] = h
  BY <1>1, <1>2, <1>3, AtKinds
<1>6. \A e \in Tails \cup {h} : e \in Nat /\ ~(e < NPROC)
  BY <1>2, EntryFacts
<1> QED BY <1>4, <1>5, <1>6

(* An entry that is linked in between two neighbours of a chain.           *)
LEMMA Splices ==
    ASSUME TypeOK, NEW h \in Heads, NEW s, Chain(h, s), NEW i \in 1 .. Len(s) + 1,
           NEW p \in Procs, on[p] = EMPTY
    PROVE  /\ At(h, s, i - 1) \in Entries /\ At(h, s, i) \in Entries
           /\ At(h, s, i - 1) # At(h, s, i)
           /\ p # At(h, s, i - 1) /\ p # At(h, s, i) /\ p \in Entries
           /\ At(h, s, i - 1) \in Int /\ At(h, s, i) \in Int /\ p \in Int
           /\ q[At(h, s, i - 1)].qnext = At(h, s, i)
           /\ q[At(h, s, i)].qprev = At(h, s, i - 1)
           /\ i <= Len(s) => At(h, s, i) = s[i] /\ s[i] \in Procs
           /\ i = Len(s) + 1 => At(h, s, i) = Tail_(h)
           /\ At(h, s, i) < NPROC <=> i <= Len(s)
<1>1. s \in Seq(Procs) /\ IsInjective(s) /\ Len(s) \in Nat
  BY ChainFacts
<1>2. /\ i - 1 \in 0 .. Len(s) /\ (i - 1) + 1 = i /\ i \in Nat
      /\ i - 1 \in 0 .. Len(s) + 1 /\ i \in 0 .. Len(s) + 1 /\ i - 1 # i
      /\ i \in 1 .. Len(s) \/ i = Len(s) + 1
  BY <1>1
<1>3. /\ At(h, s, i - 1) \in Entries /\ At(h, s, i) \in Entries
      /\ At(h, s, i - 1) # At(h, s, i)
      /\ i \in 1 .. Len(s) => At(h, s, i) = s[i] /\ s[i] \in Procs
      /\ i = Len(s) + 1 => At(h, s, i) = Tail_(h)
  BY <1>1, <1>2, AtFacts
<1>4. p # At(h, s, i - 1) /\ p # At(h, s, i)
  <2>1. h # EMPTY
    BY EntryFacts DEF EMPTY
  <2> QED BY <2>1, <1>2, AtKinds
<1>5. /\ q[At(h, s, i - 1)].qnext = At(h, s, i)
      /\ q[At(h, s, i)].qprev = At(h, s, i - 1)
  BY <1>2 DEF Chain, Links
<1>6. p \in Entries
  BY EntryFacts
<1>7. At(h, s, i) < NPROC <=> i <= Len(s)
  <2>1. Tail_(h) \in Nat /\ ~(Tail_(h) < NPROC)
    BY EntryFacts
  <2>2. \A x \in Procs : x < NPROC
    BY EntryFacts
  <2> QED BY <1>1, <1>2, <1>3, <2>1, <2>2
<1>8. At(h, s, i - 1) \in Int /\ At(h, s, i) \in Int /\ p \in Int
  BY <1>3, <1>6 DEF Entries
<1> QED BY <1>1, <1>2, <1>3, <1>4, <1>5, <1>6, <1>7, <1>8

LEMMA EnqueueInserts ==
    ASSUME LinksInv, nextqueue = NQENT, NEW h \in Heads, NEW s, Chain(h, s),
           NEW p \in Procs, on[p] = EMPTY,
           enqueue(p, Tail_(h)), UNCHANGED <<nextqueue, shown>>
    PROVE  /\ Len(s) + 1 \in 1 .. Len(s) + 1 /\ Inserted(h, s, Len(s) + 1, p)
           /\ \A x \in Procs : q'[x].qkey = q[x].qkey
<1> DEFINE i == Len(s) + 1
           a == At(h, s, i - 1)
           b == Tail_(h)
<1>1. TypeOK /\ EntriesInv /\ i \in 1 .. Len(s) + 1
  BY ChainFacts DEF LinksInv
<1>2. /\ a \in Entries /\ b \in Entries /\ a # b /\ p # a /\ p # b /\ p \in Entries
      /\ a \in Int /\ b \in Int /\ p \in Int
      /\ q[b].qprev = a /\ At(h, s, i) = b
  <2> HIDE DEF i
  <2> QED BY <1>1, Splices DEF i
<1> HIDE DEF a, b
<1>3. q' = [q EXCEPT ![p].qnext = b, ![p].qprev = a, ![a].qnext = p, ![b].qprev = p]
  BY <1>2 DEF enqueue, b
<1>4. q \in [Entries -> Entry]
  BY <1>1 DEF TypeOK, Entry
<1>5. /\ q' \in [Entries -> Entry]
      /\ \A e \in Entries :
            q'[e].qnext = IF e = p THEN b ELSE IF e = a THEN p ELSE q[e].qnext
      /\ \A e \in Entries :
            q'[e].qprev = IF e = p THEN a ELSE IF e = b THEN p ELSE q[e].qprev
      /\ \A e \in Entries : q'[e].qkey = q[e].qkey
  <2> DEFINE r1 == [q EXCEPT ![p].qnext = b]
             r2 == [r1 EXCEPT ![p].qprev = a]
             r3 == [r2 EXCEPT ![a].qnext = p]
  <2>1. q' = [r3 EXCEPT ![b].qprev = p]
    BY <1>3
  <2>2. /\ r1 \in [Entries -> Entry]
        /\ \A e \in Entries : /\ r1[e].qnext = IF e = p THEN b ELSE q[e].qnext
                              /\ r1[e].qprev = q[e].qprev /\ r1[e].qkey = q[e].qkey
    BY <1>2, <1>4, SetsNext
  <2> HIDE DEF r1
  <2>3. /\ r2 \in [Entries -> Entry]
        /\ \A e \in Entries : /\ r2[e].qprev = IF e = p THEN a ELSE r1[e].qprev
                              /\ r2[e].qnext = r1[e].qnext /\ r2[e].qkey = r1[e].qkey
    BY <1>2, <2>2, SetsPrev
  <2> HIDE DEF r2
  <2>4. /\ r3 \in [Entries -> Entry]
        /\ \A e \in Entries : /\ r3[e].qnext = IF e = a THEN p ELSE r2[e].qnext
                              /\ r3[e].qprev = r2[e].qprev /\ r3[e].qkey = r2[e].qkey
    BY <1>2, <2>3, SetsNext
  <2> HIDE DEF r3
  <2>5. /\ q' \in [Entries -> Entry]
        /\ \A e \in Entries : /\ q'[e].qprev = IF e = b THEN p ELSE r3[e].qprev
                              /\ q'[e].qnext = r3[e].qnext /\ q'[e].qkey = r3[e].qkey
    BY <1>2, <2>1, <2>4, SetsPrev
  <2>6. \A e \in Entries :
            q'[e].qnext = IF e = p THEN b ELSE IF e = a THEN p ELSE q[e].qnext
    BY <1>2, <2>2, <2>3, <2>4, <2>5
  <2>7. \A e \in Entries :
            q'[e].qprev = IF e = p THEN a ELSE IF e = b THEN p ELSE q[e].qprev
    BY <1>2, <2>2, <2>3, <2>4, <2>5
  <2> QED BY <2>2, <2>3, <2>4, <2>5, <2>6, <2>7
<1>6. \A x \in Procs : x \in Entries /\ q[x].qkey \in 0 .. MAXINT
  BY <1>1, EntryFacts DEF EntriesInv
<1>7. on' = [on EXCEPT ![p] = h]
  <2>1. Tail_(h) - 1 = h
    BY EntryFacts DEF Tail_
  <2> QED BY <2>1 DEF enqueue
<1>8. Inserted(h, s, i, p)
  <2> HIDE DEF i
  <2> QED BY <1>2, <1>5, <1>6, <1>7 DEF Inserted, a, b
<1> QED BY <1>1, <1>5, <1>6, <1>8
-----------------------------------------------------------------------------
(* insert.c: the walk stops where Insert puts the entry.                   *)

(* The keys of the processes, as ProcQueues has them.                      *)
PKey == [p \in Procs |-> q[p].qkey]

LEMMA PKeyIs ==
    ASSUME EntriesInv
    PROVE  /\ PKey \in [Procs -> 0 .. MAXINT] /\ PKey \in [Procs -> Int]
           /\ \A p \in Procs : PKey[p] = q[p].qkey
BY DEF PKey, EntriesInv

(* What the walks see: the keys of the chain, then that of the tail.       *)
LEMMA WalkSees ==
    ASSUME LinksInv, nextqueue = NQENT, NEW h \in Heads, NEW s, Chain(h, s)
    PROVE  /\ h \in Built /\ Len(s) \in Nat /\ Len(s) <= NPROC /\ NPROC \in Nat
           /\ \A n \in 0 .. NPROC + 1 : Walk(h)[n] = At(h, s, n)
           /\ \A n \in 1 .. Len(s) :
                 /\ n \in 1 .. NPROC + 1 /\ Walk(h)[n] = s[n] /\ s[n] \in Procs
                 /\ q[Walk(h)[n]].qkey = PKey[s[n]] /\ PKey[s[n]] \in 0 .. MAXINT
           /\ \A n \in 1 .. NPROC + 1 : n > Len(s) =>
                 Walk(h)[n] = Tail_(h) /\ q[Walk(h)[n]].qkey = MAXINT
           /\ Len(s) + 1 \in 1 .. NPROC + 1
<1>1. TypeOK /\ EndsInv /\ EntriesInv /\ h \in Built /\ NPROC \in Nat
  <2>1. h \in Built
    BY DEF Built, Heads, Entries, NQENT
  <2> QED BY <2>1, EntryFacts DEF LinksInv
<1>2. s \in Seq(Procs) /\ IsInjective(s) /\ Len(s) \in Nat /\ Len(s) <= NPROC
  BY ChainFacts, ChainShort
<1>3. \A n \in 0 .. NPROC + 1 : Walk(h)[n] = At(h, s, n)
  BY <1>1, WalkFollows
<1>4. \A n \in 1 .. Len(s) : At(h, s, n) = s[n] /\ s[n] \in Procs
  BY <1>2, AtFacts
<1>5. /\ \A n \in 1 .. Len(s) : n \in 1 .. NPROC + 1 /\ n \in 0 .. NPROC + 1
      /\ \A n \in 1 .. NPROC + 1 : n \in 0 .. NPROC + 1
      /\ Len(s) + 1 \in 1 .. NPROC + 1
  BY <1>1, <1>2
<1>6. \A n \in 1 .. NPROC + 1 : n > Len(s) => At(h, s, n) = Tail_(h)
  BY <1>1, <1>2 DEF At
<1>7. q[Tail_(h)].qkey = MAXINT
  BY <1>1 DEF EndsInv
<1>8. \A n \in 1 .. Len(s) :
          q[s[n]].qkey = PKey[s[n]] /\ PKey[s[n]] \in 0 .. MAXINT
  BY <1>1, <1>4, PKeyIs
<1> QED BY <1>1, <1>2, <1>3, <1>4, <1>5, <1>6, <1>7, <1>8

(* The links that insert and insertd set.                                  *)
Spliced(h, s, i, p, k) ==
    [q EXCEPT ![p] = [qkey |-> k, qnext |-> At(h, s, i), qprev |-> At(h, s, i - 1)],
              ![At(h, s, i - 1)].qnext = p,
              ![At(h, s, i)].qprev = p]

LEMMA LinksIn ==
    ASSUME TypeOK, NEW h \in Heads, NEW s, Chain(h, s), NEW i \in 1 .. Len(s) + 1,
           NEW p \in Procs, on[p] = EMPTY, NEW k \in Int,
           NEW r, r = Spliced(h, s, i, p, k)
    PROVE  /\ r \in [Entries -> Entry]
           /\ \A e \in Entries : r[e].qnext =
                  IF e = p THEN At(h, s, i)
                  ELSE IF e = At(h, s, i - 1) THEN p ELSE q[e].qnext
           /\ \A e \in Entries : r[e].qprev =
                  IF e = p THEN At(h, s, i - 1)
                  ELSE IF e = At(h, s, i) THEN p ELSE q[e].qprev
           /\ \A e \in Entries : r[e].qkey = IF e = p THEN k ELSE q[e].qkey
<1> DEFINE a == At(h, s, i - 1)
           b == At(h, s, i)
<1>1. /\ a \in Entries /\ b \in Entries /\ a # b /\ p # a /\ p # b /\ p \in Entries
      /\ a \in Int /\ b \in Int /\ p \in Int
  BY Splices
<1> HIDE DEF a, b
<1> DEFINE v == [qkey |-> k, qnext |-> b, qprev |-> a]
           r1 == [q EXCEPT ![p] = v]
           r2 == [r1 EXCEPT ![a].qnext = p]
           r3 == [r2 EXCEPT ![b].qprev = p]
<1>2. r = r3
  BY DEF a, b, Spliced
<1>3. q \in [Entries -> Entry]
  BY DEF TypeOK, Entry
<1>4. v \in Entry /\ v.qkey = k /\ v.qnext = b /\ v.qprev = a
  BY <1>1 DEF Entry
<1> HIDE DEF v
<1>5. r1 \in [Entries -> Entry] /\ \A e \in Entries : r1[e] = IF e = p THEN v ELSE q[e]
  BY <1>1, <1>3, <1>4
<1> HIDE DEF r1
<1>6. /\ r2 \in [Entries -> Entry]
      /\ \A e \in Entries : /\ r2[e].qnext = IF e = a THEN p ELSE r1[e].qnext
                            /\ r2[e].qprev = r1[e].qprev /\ r2[e].qkey = r1[e].qkey
  BY <1>1, <1>5, SetsNext
<1> HIDE DEF r2
<1>7. /\ r3 \in [Entries -> Entry]
      /\ \A e \in Entries : /\ r3[e].qprev = IF e = b THEN p ELSE r2[e].qprev
                            /\ r3[e].qnext = r2[e].qnext /\ r3[e].qkey = r2[e].qkey
  BY <1>1, <1>6, SetsPrev
<1> HIDE DEF r3
<1>8. ASSUME NEW e \in Entries
      PROVE  /\ r[e].qnext = IF e = p THEN b ELSE IF e = a THEN p ELSE q[e].qnext
             /\ r[e].qprev = IF e = p THEN a ELSE IF e = b THEN p ELSE q[e].qprev
             /\ r[e].qkey = IF e = p THEN k ELSE q[e].qkey
  BY <1>1, <1>2, <1>4, <1>5, <1>6, <1>7
<1> QED BY <1>2, <1>7, <1>8 DEF a, b

LEMMA InsertInserts ==
    ASSUME LinksInv, nextqueue = NQENT, NEW h \in Heads, NEW s, Chain(h, s),
           NEW p \in Procs, on[p] = EMPTY, NEW k \in 0 .. MAXINT,
           insert(p, h, k), UNCHANGED <<nextqueue, shown>>,
           NEW i, i = Min(KeyPlaces(s, k, PKey))
    PROVE  /\ i \in 1 .. Len(s) + 1 /\ Inserted(h, s, i, p)
           /\ \A x \in Procs : q'[x].qkey = IF x = p THEN k ELSE q[x].qkey
<1> DEFINE w == Walk(h)
           T == {n \in 1 .. NPROC + 1 : q[w[n]].qkey >= k}
<1>1. TypeOK /\ EntriesInv /\ k \in Int /\ k <= MAXINT /\ MAXINT \in Int
  BY DEF LinksInv, MAXINT
<1>2. /\ Len(s) \in Nat /\ Len(s) <= NPROC /\ NPROC \in Nat
      /\ \A n \in 0 .. NPROC + 1 : w[n] = At(h, s, n)
      /\ \A n \in 1 .. Len(s) :
             n \in 1 .. NPROC + 1 /\ q[w[n]].qkey = PKey[s[n]]
      /\ \A n \in 1 .. NPROC + 1 : n > Len(s) => q[w[n]].qkey = MAXINT
      /\ Len(s) + 1 \in 1 .. NPROC + 1
  BY WalkSees
<1>3. s \in Seq(Procs)
  BY ChainFacts
<1>4. /\ i \in 1 .. Len(s) + 1
      /\ i <= Len(s) => PKey[s[i]] >= k
      /\ \A j \in 1 .. Len(s) : j < i => PKey[s[j]] < k
  BY <1>1, <1>3, PKeyIs, InsertPlace
<1> HIDE DEF w
<1>5. \A n \in 1 .. Len(s) : PKey[s[n]] \in Int
  BY <1>1, <1>3, PKeyIs, ElementOfSeq
<1>6. Min(T) = i
  <2>1. i \in T
    <3>1. i \in 1 .. NPROC + 1 /\ (i \in 1 .. Len(s) \/ i > Len(s))
      BY <1>2, <1>4
    <3> QED BY <3>1, <1>1, <1>2, <1>4
  <2>2. \A n \in T : i <= n
    <3> SUFFICES ASSUME NEW n \in T, n < i PROVE FALSE
      BY <1>2, <1>4
    <3>1. n \in 1 .. Len(s)
      BY <1>2, <1>4
    <3> QED BY <3>1, <1>1, <1>2, <1>4, <1>5
  <2>3. T \subseteq Nat
    BY <1>2
  <2> HIDE DEF T
  <2>4. Min(T) \in T /\ \A y \in T : Min(T) <= y
    BY <2>1, <2>3, MinOfNats
  <2> DEFINE m == Min(T)
  <2> HIDE DEF m
  <2>5. m \in Nat /\ i \in Nat /\ m <= i /\ i <= m
    BY <2>1, <2>2, <2>3, <2>4, <1>2, <1>4 DEF m
  <2> QED BY <2>5 DEF m
<1>7. w[i] = At(h, s, i) /\ q[At(h, s, i)].qprev = At(h, s, i - 1)
  <2>1. i \in 0 .. NPROC + 1
    BY <1>2, <1>4
  <2> QED BY <2>1, <1>1, <1>2, <1>4, Splices
<1>8. /\ LinkIn(p, q[w[i]].qprev, w[i], k)
      /\ on' = [on EXCEPT ![p] = h]
  BY <1>6 DEF insert, w
<1>9. q' = Spliced(h, s, i, p, k)
  BY <1>7, <1>8 DEF LinkIn, Spliced
<1> HIDE DEF T
<1>10. /\ q' \in [Entries -> Entry]
       /\ \A e \in Entries : q'[e].qnext =
              IF e = p THEN At(h, s, i)
              ELSE IF e = At(h, s, i - 1) THEN p ELSE q[e].qnext
       /\ \A e \in Entries : q'[e].qprev =
              IF e = p THEN At(h, s, i - 1)
              ELSE IF e = At(h, s, i) THEN p ELSE q[e].qprev
       /\ \A e \in Entries : q'[e].qkey = IF e = p THEN k ELSE q[e].qkey
  BY <1>1, <1>4, <1>9, LinksIn
<1>11. \A x \in Procs : x \in Entries /\ q[x].qkey \in 0 .. MAXINT
  BY <1>1, EntryFacts DEF EntriesInv
<1> QED BY <1>4, <1>8, <1>10, <1>11 DEF Inserted
-----------------------------------------------------------------------------
(* insertd.c: what is left of the key is the key less the sum of the keys  *)
(* before.                                                                 *)

(* Left and Due, with the sums s that they count.                          *)
LEMMA LeftIs ==
    ASSUME NEW w, NEW key \in Int, NPROC \in Nat,
           NEW t \in [0 .. NPROC + 1 -> Nat], t[0] = 0,
           \A n \in 1 .. NPROC + 1 : t[n] = t[n - 1] + q[w[n]].qkey,
           \A n \in 1 .. NPROC + 1 : q[w[n]].qkey \in Int
    PROVE  \A n \in 1 .. NPROC + 1 : Left(w, key)[n] = key - t[n - 1]
<1> DEFINE k == Left(w, key)
           f == [n \in 1 .. NPROC + 1 |-> key - t[n - 1]]
<1>1. \A n \in 1 .. NPROC + 1 : n - 1 \in 0 .. NPROC + 1 /\ t[n - 1] \in Nat
  OBVIOUS
<1>2. f = [n \in 1 .. NPROC + 1 |-> IF n = 1 THEN key ELSE f[n - 1] - q[w[n - 1]].qkey]
  <2>1. ASSUME NEW n \in 1 .. NPROC + 1
        PROVE  key - t[n - 1] = IF n = 1 THEN key ELSE f[n - 1] - q[w[n - 1]].qkey
    <3>1. CASE n = 1
      BY <3>1
    <3>2. CASE n # 1
      <4>1. n - 1 \in 1 .. NPROC + 1
        BY <3>2
      <4>2. f[n - 1] = key - t[(n - 1) - 1]
        BY <4>1
      <4>3. t[n - 1] = t[(n - 1) - 1] + q[w[n - 1]].qkey
        BY <4>1
      <4>4. t[n - 1] \in Int /\ t[(n - 1) - 1] \in Int /\ q[w[n - 1]].qkey \in Int
        BY <1>1, <4>1
      <4> HIDE DEF f
      <4> QED BY <3>2, <4>2, <4>3, <4>4
    <3> QED BY <3>1, <3>2
  <2> QED BY <2>1
<1> HIDE DEF f
<1>3. k = [n \in 1 .. NPROC + 1 |-> IF n = 1 THEN key ELSE k[n - 1] - q[w[n - 1]].qkey]
  BY <1>2 DEF Left
<1> HIDE DEF k
<1> DEFINE T == {n \in 0 .. NPROC : k[n + 1] = key - t[n]}
<1>4. 0 \in T
  <2>1. 1 \in 1 .. NPROC + 1 /\ 0 \in 0 .. NPROC /\ 0 + 1 = 1 /\ key - t[0] = key
    OBVIOUS
  <2> QED BY <2>1, <1>3
<1>5. ASSUME NEW n \in 0 .. NPROC - 1, n \in T
      PROVE  n + 1 \in T
  <2>1. /\ n + 1 \in 0 .. NPROC /\ n + 1 \in 1 .. NPROC + 1 /\ (n + 1) - 1 = n
        /\ (n + 1) + 1 \in 1 .. NPROC + 1 /\ (n + 1) + 1 # 1
        /\ ((n + 1) + 1) - 1 = n + 1 /\ n \in 0 .. NPROC + 1 /\ n + 1 \in 0 .. NPROC + 1
    OBVIOUS
  <2>2. k[(n + 1) + 1] = k[n + 1] - q[w[n + 1]].qkey
    BY <1>3, <2>1
  <2>3. k[n + 1] = key - t[n]
    BY <1>5
  <2>4. t[n + 1] = t[n] + q[w[n + 1]].qkey
    BY <2>1
  <2>5. t[n + 1] \in Int /\ t[n] \in Int /\ q[w[n + 1]].qkey \in Int
    BY <2>1
  <2>6. k[(n + 1) + 1] = key - t[n + 1]
    BY <2>2, <2>3, <2>4, <2>5
  <2> QED BY <2>1, <2>6
<1>6. 0 .. NPROC \subseteq T
  <2> HIDE DEF T
  <2> QED BY <1>4, <1>5, Induct
<1>7. \A n \in 1 .. NPROC + 1 : n - 1 \in 0 .. NPROC /\ (n - 1) + 1 = n
  OBVIOUS
<1> QED BY <1>6, <1>7 DEF k

LEMMA DueIs ==
    ASSUME NEW s, Len(s) \in Nat, NEW t, t[0] = 0,
           \A n \in 0 .. Len(s) : t[n] \in Nat,
           \A n \in 1 .. Len(s) : t[n] = t[n - 1] + PKey[s[n]]
    PROVE  \A n \in 0 .. Len(s) : Abstract!Due(s)[n] = t[n]
<1> DEFINE d == Abstract!Due(s)
           f == [n \in 0 .. Len(s) |-> t[n]]
<1>1. \A n \in 1 .. Len(s) : n - 1 \in 0 .. Len(s) /\ n \in 0 .. Len(s) /\ n # 0
  OBVIOUS
<1>2. f = [n \in 0 .. Len(s) |-> IF n = 0 THEN 0 ELSE f[n - 1] + PKey[s[n]]]
  <2>1. ASSUME NEW n \in 0 .. Len(s)
        PROVE  t[n] = IF n = 0 THEN 0 ELSE f[n - 1] + PKey[s[n]]
    <3>1. n # 0 => n \in 1 .. Len(s)
      OBVIOUS
    <3> QED BY <3>1, <1>1
  <2> QED BY <2>1
<1> HIDE DEF f
<1>3. d = [n \in 0 .. Len(s) |-> IF n = 0 THEN 0 ELSE d[n - 1] + PKey[s[n]]]
  BY <1>2 DEF Abstract!Due, PKey
<1> HIDE DEF d
<1> DEFINE T == {n \in 0 .. Len(s) : d[n] = t[n]}
<1>4. 0 \in T
  BY <1>3
<1>5. ASSUME NEW n \in 0 .. Len(s) - 1, n \in T
      PROVE  n + 1 \in T
  <2>1. n + 1 \in 1 .. Len(s) /\ (n + 1) - 1 = n
    OBVIOUS
  <2> QED BY <2>1, <1>1, <1>3, <1>5
<1>6. 0 .. Len(s) \subseteq T
  <2> HIDE DEF T
  <2> QED BY <1>4, <1>5, Induct
<1> QED BY <1>6 DEF d

(* Where InsertByTime puts an entry.                                       *)
DuePlaces(s, k) ==
    {n \in 1 .. Len(s) + 1 : n <= Len(s) => Abstract!Due(s)[n] >= k}

LEMMA InsertdInserts ==
    ASSUME LinksInv, nextqueue = NQENT, NEW h \in Heads, NEW s, Chain(h, s),
           NEW p \in Procs, on[p] = EMPTY, NEW k \in 0 .. MAXINT,
           insertd(p, h, k), UNCHANGED <<nextqueue, shown>>,
           NEW i, i = Min(DuePlaces(s, k))
    PROVE  /\ i \in 1 .. Len(s) + 1 /\ Inserted(h, s, i, p)
           /\ \A x \in Procs : q'[x].qkey =
                  IF x = p THEN k - Abstract!Due(s)[i - 1]
                  ELSE IF i <= Len(s) /\ x = s[i] THEN Abstract!Due(s)[i] - k
                  ELSE q[x].qkey
<1> DEFINE w == Walk(h)
           T == {n \in 1 .. NPROC + 1 : q[w[n]].qkey >= Left(w, k)[n]}
           d == Abstract!Due(s)
<1>1. TypeOK /\ EntriesInv /\ k \in Nat /\ k \in Int /\ k <= MAXINT /\ MAXINT \in Nat
  BY DEF LinksInv, MAXINT
<1>2. /\ Len(s) \in Nat /\ Len(s) <= NPROC /\ NPROC \in Nat
      /\ \A n \in 0 .. NPROC + 1 : w[n] = At(h, s, n)
      /\ \A n \in 1 .. Len(s) :
             /\ n \in 1 .. NPROC + 1 /\ q[w[n]].qkey = PKey[s[n]] /\ s[n] \in Procs
             /\ PKey[s[n]] \in 0 .. MAXINT
      /\ \A n \in 1 .. NPROC + 1 : n > Len(s) => q[w[n]].qkey = MAXINT
      /\ Len(s) + 1 \in 1 .. NPROC + 1
  BY WalkSees
<1>3. \A n \in 1 .. NPROC + 1 : q[w[n]].qkey \in Nat
  <2> HIDE DEF w
  <2>1. \A n \in 1 .. NPROC + 1 : n > Len(s) \/ n \in 1 .. Len(s)
    BY <1>2
  <2> QED BY <1>1, <1>2, <2>1
<1>4. PICK t \in [0 .. NPROC + 1 -> Nat] :
          t[0] = 0 /\ \A n \in 1 .. NPROC + 1 : t[n] = t[n - 1] + q[w[n]].qkey
  <2> DEFINE f == [n \in 1 .. NPROC + 1 |-> q[w[n]].qkey]
  <2>1. \A n \in 1 .. NPROC + 1 : f[n] = q[w[n]].qkey /\ f[n] \in Nat
    BY <1>3
  <2> HIDE DEF f, w
  <2>2. NPROC + 1 \in Nat
    BY <1>2
  <2>3. PICK t \in [0 .. NPROC + 1 -> Nat] :
            t[0] = 0 /\ \A n \in 1 .. NPROC + 1 : t[n] = t[n - 1] + f[n]
    BY <2>1, <2>2, SumsExist
  <2> QED BY <2>1, <2>3
<1>5. \A n \in 1 .. NPROC + 1 : Left(w, k)[n] = k - t[n - 1]
  <2> HIDE DEF w
  <2>1. \A n \in 1 .. NPROC + 1 : q[w[n]].qkey \in Int
    BY <1>3
  <2>2. NPROC \in Nat /\ k \in Int
    BY <1>1, <1>2
  <2> QED BY <1>4, <2>1, <2>2, LeftIs
<1>6. /\ \A n \in 0 .. Len(s) : d[n] = t[n] /\ t[n] \in Nat
      /\ \A n \in 1 .. Len(s) : t[n] = t[n - 1] + PKey[s[n]]
  <2> HIDE DEF w
  <2>1. \A n \in 0 .. Len(s) : n \in 0 .. NPROC + 1 /\ t[n] \in Nat
    BY <1>2, <1>4
  <2>2. \A n \in 1 .. Len(s) : t[n] = t[n - 1] + PKey[s[n]]
    BY <1>2, <1>4
  <2>3. \A n \in 0 .. Len(s) : d[n] = t[n]
    <3>1. Len(s) \in Nat /\ t[0] = 0 /\ \A n \in 0 .. Len(s) : t[n] \in Nat
      BY <1>2, <1>4, <2>1
    <3> QED BY <3>1, <2>2, DueIs
  <2> QED BY <2>1, <2>2, <2>3
<1> HIDE DEF w, d
<1>7. /\ i \in 1 .. Len(s) + 1
      /\ i <= Len(s) => t[i] >= k
      /\ \A j \in 1 .. Len(s) : j < i => t[j] < k
  <2> DEFINE D == DuePlaces(s, k)
  <2>1. D \subseteq Nat /\ Len(s) + 1 \in D
    BY <1>2 DEF DuePlaces
  <2>2. \A n \in D : n \in 1 .. Len(s) + 1 /\ (n <= Len(s) => d[n] >= k)
    BY DEF DuePlaces, d
  <2>3. \A n \in 1 .. Len(s) + 1 : (n <= Len(s) => d[n] >= k) => n \in D
    BY DEF DuePlaces, d
  <2> HIDE DEF D
  <2>4. i \in D /\ \A y \in D : i <= y
    <3>1. D # {}
      BY <2>1
    <3> QED BY <2>1, <3>1, MinOfNats DEF D
  <2>5. i \in 1 .. Len(s) + 1 /\ (i <= Len(s) => d[i] >= k)
    BY <2>2, <2>4
  <2>6. \A j \in 1 .. Len(s) : j < i => ~(d[j] >= k)
    <3> SUFFICES ASSUME NEW j \in 1 .. Len(s), j < i, d[j] >= k PROVE FALSE
      OBVIOUS
    <3>1. j \in 1 .. Len(s) + 1
      BY <1>2
    <3>2. i <= j
      BY <2>3, <2>4, <3>1
    <3> QED BY <2>5, <3>2, <1>2
  <2>7. \A n \in 1 .. Len(s) : n \in 0 .. Len(s)
    BY <1>2
  <2>8. i <= Len(s) => i \in 1 .. Len(s)
    BY <1>2, <2>5
  <2>9. i <= Len(s) => t[i] >= k
    BY <1>6, <2>5, <2>7, <2>8
  <2>10. \A j \in 1 .. Len(s) : j < i => t[j] < k
    <3> SUFFICES ASSUME NEW j \in 1 .. Len(s), j < i PROVE t[j] < k
      OBVIOUS
    <3>1. ~(d[j] >= k) /\ d[j] = t[j] /\ t[j] \in Nat
      BY <1>6, <2>6, <2>7
    <3> QED BY <3>1, <1>1
  <2> QED BY <2>5, <2>9, <2>10
<1>8. Min(T) = i
  <2>1. \A n \in 1 .. Len(s) : n \in T <=> t[n] >= k
    <3> SUFFICES ASSUME NEW n \in 1 .. Len(s) PROVE n \in T <=> t[n] >= k
      OBVIOUS
    <3>1. n \in 1 .. NPROC + 1 /\ q[w[n]].qkey = PKey[s[n]] /\ PKey[s[n]] \in Int
      BY <1>2
    <3>2. t[n] = t[n - 1] + PKey[s[n]] /\ t[n] \in Int /\ t[n - 1] \in Int
      BY <1>6
    <3>3. Left(w, k)[n] = k - t[n - 1]
      BY <1>5, <3>1
    <3>4. n \in T <=> q[w[n]].qkey >= Left(w, k)[n]
      BY <3>1
    <3> HIDE DEF T
    <3>5. PKey[s[n]] >= k - t[n - 1] <=> t[n] >= k
      BY <3>1, <3>2, <1>1
    <3> QED BY <3>1, <3>3, <3>4, <3>5
  <2>2. Len(s) + 1 \in T
    <3>1. Left(w, k)[Len(s) + 1] = k - t[Len(s)] /\ t[Len(s)] \in Nat
      <4>1. (Len(s) + 1) - 1 = Len(s) /\ Len(s) \in 0 .. Len(s)
        BY <1>2
      <4> QED BY <4>1, <1>2, <1>5, <1>6
    <3>2. q[w[Len(s) + 1]].qkey = MAXINT
      BY <1>2
    <3> QED BY <3>1, <3>2, <1>1, <1>2
  <2>3. T \subseteq Nat
    BY <1>2
  <2> HIDE DEF T
  <2>4. Min(T) \in T /\ \A y \in T : Min(T) <= y
    BY <2>2, <2>3, MinOfNats
  <2>5. i \in T
    <3>1. i \in 1 .. Len(s) \/ i = Len(s) + 1
      BY <1>2, <1>7
    <3> QED BY <3>1, <2>1, <2>2, <1>7
  <2>6. \A n \in T : i <= n
    <3> SUFFICES ASSUME NEW n \in T, n < i PROVE FALSE
      BY <2>3, <1>2, <1>7
    <3>1. n \in 1 .. Len(s) /\ n \in 0 .. Len(s)
      BY <1>2, <1>7, <2>3 DEF T
    <3>2. t[n] >= k /\ t[n] < k /\ t[n] \in Nat
      BY <3>1, <2>1, <1>6, <1>7
    <3> QED BY <3>2, <1>1
  <2> DEFINE m == Min(T)
  <2> HIDE DEF m
  <2>7. m \in Nat /\ i \in Nat /\ m <= i /\ i <= m
    BY <2>3, <2>4, <2>5, <2>6 DEF m
  <2> QED BY <2>7 DEF m
<1> DEFINE kk == k - t[i - 1]
           a == At(h, s, i)
           r == Spliced(h, s, i, p, kk)
<1>9. /\ i \in Nat /\ i \in 0 .. NPROC + 1 /\ i \in 1 .. NPROC + 1
      /\ i - 1 \in 0 .. NPROC + 1 /\ i - 1 \in 0 .. Len(s)
      /\ i <= Len(s) => i \in 1 .. Len(s) /\ i \in 0 .. Len(s)
  BY <1>2, <1>7
<1>10. kk \in 0 .. MAXINT /\ kk \in Int
  <2>1. t[i - 1] \in Nat
    BY <1>6, <1>9
  <2>2. CASE i = 1
    BY <2>2, <1>1, <1>4
  <2>3. CASE i # 1
    <3>1. i - 1 \in 1 .. Len(s) /\ i - 1 < i
      BY <2>3, <1>2, <1>7
    <3>2. t[i - 1] < k
      BY <3>1, <1>7
    <3> QED BY <3>2, <2>1, <1>1
  <2> QED BY <2>2, <2>3
<1>11. i <= Len(s) => /\ PKey[s[i]] - kk = t[i] - k
                      /\ PKey[s[i]] - kk \in 0 .. MAXINT
  <2> SUFFICES ASSUME i <= Len(s)
               PROVE  PKey[s[i]] - kk = t[i] - k /\ PKey[s[i]] - kk \in 0 .. MAXINT
    OBVIOUS
  <2>1. /\ t[i] = t[i - 1] + PKey[s[i]] /\ t[i] \in Nat /\ t[i - 1] \in Nat
        /\ PKey[s[i]] \in 0 .. MAXINT /\ t[i] >= k
    BY <1>2, <1>6, <1>7, <1>9
  <2> QED BY <2>1, <1>1, <1>10, SMTT(30)
<1>12. /\ At(h, s, i - 1) \in Entries /\ a \in Entries /\ a # p /\ p \in Entries
       /\ i <= Len(s) => a = s[i] /\ s[i] \in Procs
       /\ a < NPROC <=> i <= Len(s)
  BY <1>1, <1>7, Splices
<1>13. /\ r \in [Entries -> Entry]
       /\ \A e \in Entries : r[e].qnext =
              IF e = p THEN At(h, s, i)
              ELSE IF e = At(h, s, i - 1) THEN p ELSE q[e].qnext
       /\ \A e \in Entries : r[e].qprev =
              IF e = p THEN At(h, s, i - 1)
              ELSE IF e = At(h, s, i) THEN p ELSE q[e].qprev
       /\ \A e \in Entries : r[e].qkey = IF e = p THEN kk ELSE q[e].qkey
  BY <1>1, <1>7, <1>10, LinksIn
<1>14. /\ w[i] = a /\ w[i - 1] = At(h, s, i - 1) /\ Left(w, k)[i] = kk
  BY <1>2, <1>5, <1>9
<1> DEFINE v == IF a < NPROC THEN q[a].qkey - kk ELSE q[a].qkey
<1>15. /\ q' = [r EXCEPT ![a].qkey = v]
       /\ on' = [on EXCEPT ![p] = h]
  <2> DEFINE F(x, y, z) ==
                 [q EXCEPT ![p] = [qkey |-> z, qnext |-> x, qprev |-> y],
                           ![y].qnext = p,
                           ![x].qprev = p,
                           ![x].qkey = IF x < NPROC THEN @ - z ELSE @]
  <2>1. q' = F(w[i], w[i - 1], Left(w, k)[i]) /\ on' = [on EXCEPT ![p] = h]
    BY <1>8 DEF insertd, w
  <2> HIDE DEF T, kk, F, w
  <2>2. q' = F(a, At(h, s, i - 1), kk)
    BY <1>14, <2>1
  <2>3. F(a, At(h, s, i - 1), kk) = [r EXCEPT ![a].qkey = v]
    BY DEF F, Spliced
  <2> QED BY <2>1, <2>2, <2>3
<1> HIDE DEF kk, a, r, T
<1>17. /\ r[a].qkey = q[a].qkey /\ v \in Int
       /\ i <= Len(s) => v = t[i] - k /\ v \in 0 .. MAXINT
       /\ ~(i <= Len(s)) => v = q[a].qkey
  <2>1. r[a].qkey = q[a].qkey
    BY <1>12, <1>13
  <2>2. q[a].qkey \in Int
    BY <1>1, <1>12 DEF TypeOK
  <2>3. i <= Len(s) => q[a].qkey = PKey[s[i]]
    BY <1>1, <1>12, PKeyIs
  <2> QED BY <2>1, <2>2, <2>3, <1>10, <1>11, <1>12
<1> HIDE DEF v
<1>18. /\ q' \in [Entries -> Entry]
       /\ \A e \in Entries : /\ q'[e].qkey = IF e = a THEN v ELSE r[e].qkey
                             /\ q'[e].qnext = r[e].qnext
                             /\ q'[e].qprev = r[e].qprev
  BY <1>12, <1>13, <1>15, <1>17, SetsKey
<1>19. \A x \in Procs :
          /\ x \in Entries /\ q[x].qkey \in 0 .. MAXINT
          /\ q'[x].qkey = IF x = p THEN kk
                          ELSE IF i <= Len(s) /\ x = s[i] THEN t[i] - k
                          ELSE q[x].qkey
          /\ q'[x].qkey \in 0 .. MAXINT
  <2> SUFFICES ASSUME NEW x \in Procs
               PROVE  /\ x \in Entries /\ q[x].qkey \in 0 .. MAXINT
                      /\ q'[x].qkey = IF x = p THEN kk
                                      ELSE IF i <= Len(s) /\ x = s[i] THEN t[i] - k
                                      ELSE q[x].qkey
                      /\ q'[x].qkey \in 0 .. MAXINT
    OBVIOUS
  <2>1. x \in Entries /\ q[x].qkey \in 0 .. MAXINT
    BY <1>1, EntryFacts DEF EntriesInv
  <2> QED BY <2>1, <1>10, <1>12, <1>13, <1>17, <1>18
<1>20. \A e \in Entries \ Procs : q'[e].qkey = q[e].qkey
  <2>1. i <= Len(s) => a \in Procs
    BY <1>12
  <2> QED BY <2>1, <1>12, <1>13, <1>17, <1>18
<1>21. Inserted(h, s, i, p)
  BY <1>13, <1>15, <1>18, <1>19, <1>20 DEF Inserted, a
<1>22. /\ d[i - 1] = t[i - 1]
       /\ i <= Len(s) => d[i] = t[i]
  BY <1>6, <1>9
<1> QED BY <1>7, <1>19, <1>21, <1>22 DEF kk, d
-----------------------------------------------------------------------------
(* The invariant of the specification.                                     *)

(* Where a walk along qnext goes on, from a head or from a process.        *)
LEMMA NextInside ==
    ASSUME LinksInv, nextqueue = NQENT, NEW e \in Heads \cup Procs
    PROVE  q[e].qnext \in Procs \cup Tails
<1>1. CASE e \in Procs
  BY <1>1 DEF LinksInv, EntriesInv
<1>2. CASE e \in Heads
  <2>1. e \in Built
    BY <1>2 DEF Built, Heads, Entries, NQENT
  <2>2. PICK s : Chain(e, s)
    BY <2>1 DEF LinksInv
  <2>3. Len(s) \in Nat
    BY <2>2, ChainFacts
  <2>4. 0 \in 0 .. Len(s) /\ 1 \in 1 .. Len(s) + 1 /\ 0 + 1 = 1
    BY <2>3
  <2>5. q[e].qnext = At(e, s, 1)
    <3>1. q[At(e, s, 0)].qnext = At(e, s, 1)
      BY <2>2, <2>4 DEF Chain, Links
    <3> QED BY <3>1 DEF At
  <2> QED BY <1>2, <2>2, <2>4, <2>5, AtKinds
<1> QED BY <1>1, <1>2

LEMMA ShowKeeps ==
    ASSUME LinksInv, nextqueue = NQENT, NEW h \in Heads, Show(h)
    PROVE  LinksInv'
<1>1. TypeOK /\ EndsInv /\ EntriesInv /\ \A g \in Built : \E s : Chain(g, s)
  BY DEF LinksInv
<1>2. q' = q /\ nextqueue' = nextqueue /\ on' = on
  BY DEF Show
<1>3. shown' \in {EMPTY} \cup Heads \cup Procs
  <2>1. CASE ShowStart(h)
    BY <2>1 DEF ShowStart
  <2>2. CASE ShowNext
    <3>1. shown \in Heads \cup Procs
      BY <1>1, <2>2 DEF TypeOK, ShowNext
    <3>2. q[shown].qnext \in Procs \cup Tails
      BY <3>1, NextInside
    <3>3. q[shown].qnext < NPROC => q[shown].qnext \in Procs
      BY <3>2, EntryFacts
    <3> QED BY <2>2, <3>3 DEF ShowNext
  <2> QED BY <2>1, <2>2 DEF Show
<1>4. TypeOK'
  BY <1>1, <1>2, <1>3 DEF TypeOK, Built
<1>5. EndsInv' /\ EntriesInv'
  BY <1>1, <1>2 DEF EndsInv, EntriesInv, Built
<1>6. \A g \in Built' : \E s : Chain(g, s)'
  <2> SUFFICES ASSUME NEW g \in Built' PROVE \E s : Chain(g, s)'
    OBVIOUS
  <2>1. g \in Built
    BY <1>2 DEF Built
  <2>2. PICK s : Chain(g, s)
    BY <1>1, <2>1
  <2>3. Chain(g, s)'
    BY <1>2, <2>2 DEF Chain, Links, At
  <2> QED BY <2>3
<1> QED BY <1>4, <1>5, <1>6 DEF LinksInv

(* What a queue operation is: it takes an entry out of one chain, or links *)
(* one into a chain, at the place that QueueOps gives for the operation.   *)
TakesOut ==
    \E g \in Heads : \E s : \E i \in 1 .. Len(s) : Chain(g, s) /\ Removed(g, s, i)

Placed(s, i, p) ==
    \/ /\ i = Len(s) + 1
       /\ \A x \in Procs : q'[x].qkey = q[x].qkey
    \/ \E k \in Keys :
          /\ i = Min(KeyPlaces(s, k, PKey))
          /\ \A x \in Procs : q'[x].qkey = IF x = p THEN k ELSE q[x].qkey
    \/ \E k \in Keys :
          /\ i = Min(DuePlaces(s, k))
          /\ \A x \in Procs : q'[x].qkey =
                IF x = p THEN k - Abstract!Due(s)[i - 1]
                ELSE IF i <= Len(s) /\ x = s[i] THEN Abstract!Due(s)[i] - k
                ELSE q[x].qkey

PutsIn(h) ==
    \E s : \E p \in Procs : \E i \in 1 .. Len(s) + 1 :
       /\ Chain(h, s) /\ on[p] = EMPTY /\ Inserted(h, s, i, p)
       /\ Placed(s, i, p)

LEMMA OperationShape ==
    ASSUME LinksInv, nextqueue = NQENT, NEW h \in Heads, QueueOp(h)
    PROVE  TakesOut \/ PutsIn(h)
<1>1. UNCHANGED <<nextqueue, shown>>
  BY DEF QueueOp
<1>2. h \in Built
  BY DEF Built, Heads, Entries, NQENT
<1>3. PICK s : Chain(h, s)
  BY <1>2 DEF LinksInv
<1>4. ASSUME NEW p \in Procs, on[p] # EMPTY, dequeue(p)
      PROVE  TakesOut
  BY <1>1, <1>4, DequeueRemoves DEF TakesOut
<1>5. h # EMPTY
  BY EntryFacts DEF EMPTY
<1>6. CASE getfirst(h)
  <2>1. q[h].qnext \in Procs /\ on[q[h].qnext] = h
    BY <1>2, <1>6, EndsAreMembers DEF getfirst
  <2> QED BY <1>4, <1>5, <1>6, <2>1 DEF getfirst
<1>7. CASE getlast(Tail_(h))
  <2>1. q[Tail_(h)].qprev \in Procs /\ on[q[Tail_(h)].qprev] = h
    BY <1>2, <1>7, EndsAreMembers DEF getlast
  <2> QED BY <1>4, <1>5, <1>7, <2>1 DEF getlast
<1>8. CASE \E p \in Procs : on[p] # EMPTY /\ dequeue(p)
  BY <1>4, <1>8
<1>9. ASSUME NEW p \in Procs, on[p] = EMPTY, enqueue(p, Tail_(h))
      PROVE  PutsIn(h)
  <2>1. /\ Len(s) + 1 \in 1 .. Len(s) + 1 /\ Inserted(h, s, Len(s) + 1, p)
        /\ \A x \in Procs : q'[x].qkey = q[x].qkey
    BY <1>1, <1>3, <1>9, EnqueueInserts
  <2> QED BY <1>3, <1>9, <2>1 DEF PutsIn, Placed
<1>10. ASSUME NEW p \in Procs, on[p] = EMPTY, NEW k \in Keys, insert(p, h, k)
       PROVE  PutsIn(h)
  <2> DEFINE i == Min(KeyPlaces(s, k, PKey))
  <2>1. k \in 0 .. MAXINT
    BY QueuesAssumption
  <2>2. /\ i \in 1 .. Len(s) + 1 /\ Inserted(h, s, i, p)
        /\ \A x \in Procs : q'[x].qkey = IF x = p THEN k ELSE q[x].qkey
    BY <1>1, <1>3, <1>10, <2>1, InsertInserts
  <2> QED BY <1>3, <1>10, <2>2 DEF PutsIn, Placed
<1>11. ASSUME NEW p \in Procs, on[p] = EMPTY, NEW k \in Keys, insertd(p, h, k)
       PROVE  PutsIn(h)
  <2> DEFINE i == Min(DuePlaces(s, k))
  <2>1. k \in 0 .. MAXINT
    BY QueuesAssumption
  <2>2. /\ i \in 1 .. Len(s) + 1 /\ Inserted(h, s, i, p)
        /\ \A x \in Procs : q'[x].qkey =
              IF x = p THEN k - Abstract!Due(s)[i - 1]
              ELSE IF i <= Len(s) /\ x = s[i] THEN Abstract!Due(s)[i] - k
              ELSE q[x].qkey
    BY <1>1, <1>3, <1>11, <2>1, InsertdInserts
  <2> QED BY <1>3, <1>11, <2>2 DEF PutsIn, Placed
<1> QED BY <1>6, <1>7, <1>8, <1>9, <1>10, <1>11 DEF QueueOp

LEMMA OperationKeeps ==
    ASSUME LinksInv, nextqueue = NQENT, NEW h \in Heads, QueueOp(h)
    PROVE  LinksInv'
<1>1. CASE TakesOut
  BY <1>1, RemovedKeeps DEF TakesOut
<1>2. CASE PutsIn(h)
  BY <1>2, InsertedKeeps DEF PutsIn
<1> QED BY <1>1, <1>2, OperationShape

LEMMA LinksStep == LinksInv /\ [Next]_qVars => LinksInv'
<1> SUFFICES ASSUME LinksInv, [Next]_qVars PROVE LinksInv'
  OBVIOUS
<1>1. CASE newqueue
  BY <1>1, NewQueueKeeps
<1>2. ASSUME nextqueue = NQENT, NEW h \in Heads, QueueOp(h) \/ Show(h)
      PROVE  LinksInv'
  BY <1>2, OperationKeeps, ShowKeeps
<1>3. CASE UNCHANGED qVars
  BY <1>3 DEF qVars, LinksInv, TypeOK, EndsInv, EntriesInv, Chain, Links, At, Built
<1> QED BY <1>1, <1>2, <1>3 DEF Next

(* Behind each head there is a chain, whatever was called.                 *)
THEOREM LinksInvariant == Spec => []LinksInv
BY InitLinks, LinksStep, PTL DEF Spec

(* Both directions of the links agree, from each head to its own tail, and *)
(* a process is on the queue that its state tells (queue.c, insert.c,      *)
(* insertd.c, newqueue.c), for any number of processes and semaphores.     *)
THEOREM LinksAlwaysAgree == Spec => []LinksAgree
<1>1. LinksInv => LinksAgree
  <2> SUFFICES ASSUME LinksInv, NEW h \in Built
               PROVE  LET w == Walk(h)
                          n == Len(Members(h)) + 1
                      IN  /\ w[n] = Tail_(h)
                          /\ \A m \in 1 .. n : q[w[m]].qprev = w[m - 1]
                          /\ Holds(Members(h), {p \in Procs : on[p] = h})
    BY DEF LinksAgree
  <2>1. PICK s : Chain(h, s)
    BY DEF LinksInv
  <2>2. TypeOK /\ EndsInv /\ h \in Heads
    BY DEF LinksInv, Built
  <2>3. Members(h) = s
    BY <2>1, <2>2, MembersAre
  <2>4. /\ s \in Seq(Procs) /\ IsInjective(s) /\ Len(s) \in Nat
        /\ Holds(s, {p \in Procs : on[p] = h}) /\ Len(s) <= NPROC /\ NPROC \in Nat
    BY <2>1, ChainFacts, ChainShort, EntryFacts
  <2>5. \A n \in 0 .. NPROC + 1 : Walk(h)[n] = At(h, s, n)
    BY <2>1, <2>2, WalkFollows
  <2>6. Walk(h)[Len(s) + 1] = Tail_(h)
    <3>1. Len(s) + 1 \in 0 .. NPROC + 1 /\ At(h, s, Len(s) + 1) = Tail_(h)
      BY <2>2, <2>4, AtFacts
    <3> QED BY <3>1, <2>5
  <2>7. ASSUME NEW m \in 1 .. Len(s) + 1
        PROVE  q[Walk(h)[m]].qprev = Walk(h)[m - 1]
    <3>1. /\ m \in 0 .. NPROC + 1 /\ m - 1 \in 0 .. NPROC + 1
          /\ m - 1 \in 0 .. Len(s) /\ (m - 1) + 1 = m
      BY <2>4
    <3>2. q[At(h, s, m)].qprev = At(h, s, m - 1)
      BY <2>1, <3>1 DEF Chain, Links
    <3> QED BY <3>1, <3>2, <2>5
  <2> QED BY <2>3, <2>4, <2>6, <2>7
<1> QED BY <1>1, LinksInvariant, PTL

(* The keys at both ends of each queue are those that the walks and        *)
(* resched count on (q.h, newqueue.c).                                     *)
THEOREM EndsAlwaysReadable == Spec => []EndsReadable
<1>1. LinksInv => EndsReadable
  <2> SUFFICES ASSUME LinksInv, NEW h \in Built
               PROVE  /\ isempty(h) = (Members(h) = <<>>)
                      /\ firstkey(h) = FirstKey(Members(h), PKey)
                      /\ lastkey(Tail_(h)) = LastKey(Members(h), PKey)
    BY DEF EndsReadable, PKey
  <2>1. PICK s : Chain(h, s)
    BY DEF LinksInv
  <2>2. TypeOK /\ EndsInv /\ EntriesInv /\ h \in Heads
    BY DEF LinksInv, Built
  <2>3. Members(h) = s
    BY <2>1, <2>2, MembersAre
  <2>4. s \in Seq(Procs) /\ IsInjective(s) /\ Len(s) \in Nat
    BY <2>1, ChainFacts
  <2>5. /\ At(h, s, 0) = h /\ At(h, s, Len(s) + 1) = Tail_(h)
        /\ \A n \in 1 .. Len(s) : At(h, s, n) = s[n] /\ s[n] \in Procs
    BY <2>2, <2>4, AtFacts
  <2>6. q[h].qnext = At(h, s, 1) /\ q[Tail_(h)].qprev = At(h, s, Len(s))
    <3>1. 0 \in 0 .. Len(s) /\ Len(s) \in 0 .. Len(s) /\ 0 + 1 = 1
      BY <2>4
    <3>2. q[At(h, s, 0)].qnext = At(h, s, 1)
      BY <2>1, <3>1 DEF Chain, Links
    <3>3. q[At(h, s, Len(s) + 1)].qprev = At(h, s, Len(s))
      BY <2>1, <3>1 DEF Chain, Links
    <3> QED BY <3>2, <3>3, <2>5
  <2>7. \A p \in Procs : PKey[p] = q[p].qkey /\ p \in Nat /\ ~(p >= NPROC)
    <3>1. \A p \in Procs : PKey[p] = q[p].qkey
      BY <2>2, PKeyIs
    <3>2. \A p \in Procs : p \in Nat /\ ~(p >= NPROC)
      BY EntryFacts
    <3> QED BY <3>1, <3>2
  <2>8. CASE s = <<>>
    <3>1. Len(s) = 0 /\ At(h, s, 1) = Tail_(h)
      BY <2>5, <2>8
    <3>2. Tail_(h) >= NPROC
      BY <2>2, EntryFacts
    <3>3. q[h].qkey = MININT /\ q[Tail_(h)].qkey = MAXINT
      BY <2>2 DEF EndsInv
    <3> QED BY <2>3, <2>5, <2>6, <2>8, <3>1, <3>2, <3>3
            DEF isempty, firstkey, lastkey, FirstKey, LastKey
  <2>9. CASE s # <<>>
    <3>1. 1 \in 1 .. Len(s) /\ Len(s) \in 1 .. Len(s) /\ Head(s) = s[1]
      <4>1. Len(s) # 0
        BY <2>4, <2>9, EmptySeq
      <4> QED BY <4>1, <2>4
    <3>2. /\ At(h, s, 1) = s[1] /\ s[1] \in Procs
          /\ At(h, s, Len(s)) = s[Len(s)] /\ s[Len(s)] \in Procs
      BY <3>1, <2>5
    <3>3. /\ isempty(h) = FALSE
          /\ firstkey(h) = PKey[s[1]] /\ lastkey(Tail_(h)) = PKey[s[Len(s)]]
      BY <3>2, <2>6, <2>7 DEF isempty, firstkey, lastkey
    <3> QED BY <2>3, <2>9, <3>1, <3>3 DEF FirstKey, LastKey, Last
  <2> QED BY <2>8, <2>9
<1> QED BY <1>1, LinksInvariant, PTL

(* show_ready_Q and show_sleep_Q (CLI_funcs.c), which run with signals     *)
(* enabled, never come to an entry that leads outside the lists.           *)
THEOREM ShowAlwaysInside == Spec => []ShowStaysInside
<1>1. LinksInv => ShowStaysInside
  <2> SUFFICES ASSUME LinksInv, shown # EMPTY
               PROVE  q[shown].qnext \in Procs \cup Tails
    BY DEF ShowStaysInside
  <2>1. nextqueue = NQENT /\ shown \in Heads \cup Procs
    BY DEF LinksInv, TypeOK
  <2> QED BY <2>1, NextInside
<1> QED BY <1>1, LinksInvariant, PTL
-----------------------------------------------------------------------------
(* The lists implement the sequences of ProcQueues.                        *)

LEMMA MembersNow ==
    LinksInv => \A h \in Built : \A s : Chain(h, s) => Members(h) = s
BY MembersAre DEF LinksInv

LEMMA MembersNext ==
    (LinksInv => \A h \in Built : \A s : Chain(h, s) => Members(h) = s)'
BY MembersNow, PTL

(* The sequences, in the order of newqueue.                                *)
Count == (nextqueue - NPROC) \div 2
Lists == [l \in 1 .. Count |-> Members(HeadOf(l))]

LEMMA HeadsInOrder ==
    ASSUME TypeOK
    PROVE  /\ Count \in Nat /\ nextqueue = HeadOf(Count + 1)
           /\ \A l \in 1 .. Count : HeadOf(l) \in Built
           /\ \A h \in Built : \E l \in 1 .. Count : HeadOf(l) = h
           /\ \A l, m \in Nat : HeadOf(l) = HeadOf(m) => l = m
<1>1. /\ NPROC \in Nat /\ NQENT \in Nat /\ nextqueue \in NPROC .. NQENT
      /\ (nextqueue - NPROC) % 2 = 0 /\ (NQENT - NPROC) % 2 = 0
  BY EntryFacts DEF TypeOK
<1>2. Count \in Nat /\ nextqueue = NPROC + 2 * Count
  BY <1>1 DEF Count
<1>3. \A l \in Nat : HeadOf(l) = NPROC + 2 * l - 2
  BY <1>1 DEF HeadOf
<1>4. ASSUME NEW l \in 1 .. Count
      PROVE  HeadOf(l) \in Built
  <2>1. HeadOf(l) = NPROC + 2 * l - 2 /\ l \in Nat
    BY <1>2, <1>3
  <2>2. HeadOf(l) \in 0 .. NQENT - 1 /\ HeadOf(l) >= NPROC /\ HeadOf(l) < nextqueue
    BY <1>1, <1>2, <2>1
  <2>3. (HeadOf(l) - NPROC) % 2 = 0
    <3>1. HeadOf(l) - NPROC = 2 * (l - 1)
      BY <1>1, <2>1
    <3> QED BY <3>1
  <2> QED BY <2>2, <2>3 DEF Built, Heads, Entries
<1>5. ASSUME NEW h \in Built
      PROVE  \E l \in 1 .. Count : HeadOf(l) = h
  <2>1. h \in Nat /\ h >= NPROC /\ (h - NPROC) % 2 = 0 /\ h < nextqueue
    BY EntryFacts DEF Built
  <2> DEFINE l == (h - NPROC) \div 2 + 1
  <2>2. l \in Nat /\ h = NPROC + 2 * l - 2
    BY <1>1, <2>1
  <2>3. l \in 1 .. Count
    BY <1>1, <1>2, <2>1, <2>2
  <2> HIDE DEF l
  <2>4. HeadOf(l) = h
    BY <1>3, <2>2
  <2> QED BY <2>3, <2>4
<1>6. \A l, m \in Nat : HeadOf(l) = HeadOf(m) => l = m
  BY <1>1, <1>3
<1>7. nextqueue = HeadOf(Count + 1)
  <2>1. HeadOf(Count + 1) = NPROC + 2 * (Count + 1) - 2
    BY <1>2, <1>3
  <2> QED BY <1>1, <1>2, <2>1
<1> QED BY <1>2, <1>4, <1>5, <1>6, <1>7

(* One chain changes: the lists change at its place only.                  *)
LEMMA OneListChanges ==
    ASSUME LinksInv, LinksInv', nextqueue = NQENT, nextqueue' = nextqueue,
           NEW h \in Heads, NEW s, Chain(h, s), NEW r, Chain(h, r)',
           \A g \in Heads : \A t : g # h /\ Chain(g, t) => Chain(g, t)'
    PROVE  \E l \in 1 .. Count :
              Lists[l] = s /\ Lists' = [Lists EXCEPT ![l] = r]
<1>1. TypeOK /\ Built = Heads /\ Built' = Heads /\ Count' = Count
  BY DEF LinksInv, Built, Heads, Entries, NQENT, Count
<1>2. PICK l \in 1 .. Count : HeadOf(l) = h
  BY <1>1, HeadsInOrder
<1>3. Members(h) = s
  BY <1>1, MembersNow
<1>4. Members(h)' = r
  BY <1>1, MembersNext
<1>5. Lists[l] = s
  BY <1>2, <1>3 DEF Lists
<1>6. ASSUME NEW m \in 1 .. Count, m # l
      PROVE  Members(HeadOf(m))' = Members(HeadOf(m))
  <2>1. HeadOf(m) \in Built /\ HeadOf(m) # h
    <3>1. l \in Nat /\ m \in Nat
      BY <1>1, HeadsInOrder
    <3> QED BY <1>1, <1>2, <1>6, <3>1, HeadsInOrder
  <2>2. PICK t : Chain(HeadOf(m), t)
    BY <2>1 DEF LinksInv
  <2> DEFINE g == HeadOf(m)
  <2>3. g \in Heads /\ Chain(g, t) /\ g # h /\ g \in Built
    BY <1>1, <2>1, <2>2
  <2> HIDE DEF g
  <2>4. Chain(g, t)'
    BY <2>3
  <2>5. Members(g) = t
    BY <2>3, MembersNow
  <2>6. Members(g)' = t
    BY <1>1, <2>3, <2>4, MembersNext
  <2> QED BY <2>5, <2>6 DEF g
<1>7. Lists' = [m \in 1 .. Count |-> IF m = l THEN r ELSE Lists[m]]
  <2>1. Lists' = [m \in 1 .. Count |-> Members(HeadOf(m))']
    BY <1>1 DEF Lists
  <2>2. \A m \in 1 .. Count : Members(HeadOf(m))' = IF m = l THEN r ELSE Lists[m]
    BY <1>2, <1>4, <1>6 DEF Lists
  <2> QED BY <2>1, <2>2
<1>8. [Lists EXCEPT ![l] = r] = [m \in 1 .. Count |-> IF m = l THEN r ELSE Lists[m]]
  BY DEF Lists
<1> QED BY <1>5, <1>7, <1>8

(* The operators of QueueOps are those that ProcQueues extends.            *)
LEMMA SameOperators ==
    /\ \A s : Abstract!ToSet(s) = ToSet(s)
    /\ \A T : Abstract!Min(T) = Min(T)
    /\ \A s, i, p : Abstract!InsertAt(s, i, p) = InsertAt(s, i, p)
    /\ \A s, p : Abstract!Dequeue(s, p) = Dequeue(s, p)
    /\ \A s, p, k, f : Abstract!Insert(s, p, k, f) = Insert(s, p, k, f)
<1>1. /\ \A s : Abstract!ToSet(s) = ToSet(s)
      /\ \A T : Abstract!Min(T) = Min(T)
  BY DEF ToSet, Abstract!ToSet, Min, Abstract!Min
<1>2. \A s, i, p : Abstract!InsertAt(s, i, p) = InsertAt(s, i, p)
  BY DEF InsertAt, Abstract!InsertAt
<1>3. \A s, p : Abstract!Dequeue(s, p) = Dequeue(s, p)
  BY DEF Dequeue, Abstract!Dequeue, RemoveAt, Abstract!RemoveAt
<1>4. \A s, p, k, f : Abstract!Insert(s, p, k, f) = Insert(s, p, k, f)
  BY <1>1, <1>2 DEF Insert, Abstract!Insert, KeyPlaces, Abstract!KeyPlaces
<1> QED BY <1>1, <1>2, <1>3, <1>4

LEMMA AbstractInit == Init => Abstract!QueuesInit
<1> SUFFICES ASSUME Init PROVE Abstract!QueuesInit
  OBVIOUS
<1>1. NPROC \in Nat /\ nextqueue = NPROC
  BY EntryFacts DEF Init
<1>2. (nextqueue - NPROC) \div 2 = 0
  BY <1>1
<1>3. PKey = [p \in Procs |-> 0]
  <2>1. \A p \in Procs : q[p].qkey = 0
    BY EntryFacts DEF Init
  <2> QED BY <2>1 DEF PKey
<1>4. Lists = <<>>
  <2>1. Count = 0
    BY <1>2 DEF Count
  <2>2. Lists = [l \in 1 .. 0 |-> Members(HeadOf(l))]
    BY <2>1 DEF Lists
  <2> QED BY <2>2
<1> QED BY <1>3, <1>4 DEF Abstract!QueuesInit, Lists, Count, PKey

LEMMA AbstractNew ==
    ASSUME LinksInv, newqueue
    PROVE  Abstract!New
<1>1. PICK h : h = nextqueue
  OBVIOUS
<1>2. /\ LinksInv' /\ Chain(h, <<>>)'
      /\ \A g \in Built : \A t : Chain(g, t) => Chain(g, t)'
  BY <1>1, NewQueueKeeps
<1>3. TypeOK /\ Count \in Nat /\ h = HeadOf(Count + 1)
  BY <1>1, HeadsInOrder DEF LinksInv
<1>4. Count' = Count + 1
  <2>1. /\ NPROC \in Nat /\ nextqueue \in NPROC .. NQENT /\ NQENT \in Nat
        /\ nextqueue' = nextqueue + 2
    BY <1>3, EntryFacts DEF TypeOK, newqueue
  <2> QED BY <2>1 DEF Count
<1>5. h \in Built' /\ \A g \in Built : g \in Built'
  BY <1>1, EntryFacts DEF newqueue, Built
<1>6. Members(h)' = <<>>
  BY <1>2, <1>5, MembersNext
<1>7. ASSUME NEW l \in 1 .. Count
      PROVE  Members(HeadOf(l))' = Members(HeadOf(l))
  <2> DEFINE g == HeadOf(l)
  <2>1. g \in Built
    BY <1>3, HeadsInOrder
  <2> HIDE DEF g
  <2>2. PICK t : Chain(g, t)
    BY <2>1 DEF LinksInv
  <2>3. Chain(g, t)'
    BY <1>2, <2>1, <2>2
  <2>4. Members(g) = t /\ Members(g)' = t
    BY <1>2, <1>5, <2>1, <2>2, <2>3, MembersNow, MembersNext
  <2> QED BY <2>4 DEF g
<1>8. Lists' = [l \in 1 .. Count + 1 |-> IF l = Count + 1 THEN <<>> ELSE Lists[l]]
  <2>1. Lists' = [l \in 1 .. Count + 1 |-> Members(HeadOf(l))']
    BY <1>4 DEF Lists
  <2>2. ASSUME NEW l \in 1 .. Count + 1
        PROVE  Members(HeadOf(l))' = IF l = Count + 1 THEN <<>> ELSE Lists[l]
    <3>1. CASE l = Count + 1
      BY <3>1, <1>3, <1>6
    <3>2. CASE l # Count + 1
      <4>1. l \in 1 .. Count
        BY <3>2, <1>3
      <4> QED BY <4>1, <3>2, <1>7 DEF Lists
    <3> QED BY <3>1, <3>2
  <2> QED BY <2>1, <2>2
<1>9. Append(Lists, <<>>) =
          [l \in 1 .. Count + 1 |-> IF l = Count + 1 THEN <<>> ELSE Lists[l]]
  <2>1. Lists = [l \in 1 .. Count |-> Lists[l]]
    BY DEF Lists
  <2> DEFINE S == {Lists[l] : l \in 1 .. Count} \cup {<<>>}
             a == Append(Lists, <<>>)
  <2> HIDE DEF Lists
  <2>2. Lists \in Seq(S) /\ Len(Lists) = Count /\ <<>> \in S
    BY <1>3, <2>1
  <2> HIDE DEF S
  <2>3. /\ a \in Seq(S) /\ Len(a) = Count + 1
        /\ \A l \in 1 .. Count : a[l] = Lists[l]
        /\ a[Count + 1] = <<>>
    BY <2>2, AppendProperties
  <2>4. a = [l \in 1 .. Count + 1 |-> a[l]]
    BY <2>3, LenProperties
  <2>5. \A l \in 1 .. Count + 1 : a[l] = IF l = Count + 1 THEN <<>> ELSE Lists[l]
    <3>1. \A l \in 1 .. Count + 1 : l = Count + 1 \/ l \in 1 .. Count
      BY <1>3
    <3> QED BY <2>3, <3>1
  <2> HIDE DEF a
  <2>6. a = [l \in 1 .. Count + 1 |-> IF l = Count + 1 THEN <<>> ELSE Lists[l]]
    BY <2>4, <2>5
  <2> QED BY <2>6 DEF a
<1>10. PKey' = PKey
  <2>1. \A p \in Procs : q'[p] = q[p]
    BY <1>3, EntryFacts DEF newqueue, TypeOK
  <2> QED BY <2>1 DEF PKey
<1> QED BY <1>8, <1>9, <1>10 DEF Abstract!New, Lists, Count, PKey

LEMMA AbstractLeave ==
    ASSUME LinksInv, nextqueue = NQENT, TakesOut
    PROVE  \E p \in Procs : Abstract!Leave(p)
<1>1. PICK h \in Heads : \E s : \E i \in 1 .. Len(s) : Chain(h, s) /\ Removed(h, s, i)
  BY DEF TakesOut
<1>2. PICK s : \E i \in 1 .. Len(s) : Chain(h, s) /\ Removed(h, s, i)
  BY <1>1
<1>3. PICK i \in 1 .. Len(s) : Chain(h, s) /\ Removed(h, s, i)
  BY <1>2
<1>4. /\ s \in Seq(Procs) /\ IsInjective(s) /\ Len(s) \in Nat
      /\ DOMAIN s = 1 .. Len(s) /\ s[i] \in Procs
  <2>1. s \in Seq(Procs) /\ IsInjective(s)
    BY <1>3, ChainFacts
  <2> QED BY <2>1, LenProperties, ElementOfSeq
<1>5. /\ LinksInv' /\ Chain(h, RemoveAt(s, i))'
      /\ \A g \in Heads : \A t : g # h /\ Chain(g, t) => Chain(g, t)'
  BY <1>3, RemovedKeeps
<1>6. nextqueue' = nextqueue
  BY <1>3 DEF Removed
<1> DEFINE r == RemoveAt(s, i)
<1>7. PICK l \in 1 .. Count : Lists[l] = s /\ Lists' = [Lists EXCEPT ![l] = r]
  <2> HIDE DEF r
  <2>1. Chain(h, r)'
    BY <1>5 DEF r
  <2> QED BY <1>3, <1>5, <1>6, <2>1, OneListChanges
<1>8. Dequeue(s, s[i]) = r
  <2>1. \A j \in DOMAIN s : s[j] = s[i] => j = i
    BY <1>4 DEF IsInjective
  <2>2. i = CHOOSE j \in DOMAIN s : s[j] = s[i]
    BY <1>4, <2>1
  <2> QED BY <2>2 DEF Dequeue
<1>9. s[i] \in ToSet(s)
  BY <1>4 DEF ToSet
<1>10. PKey' = PKey
  <2>1. \A p \in Procs : q'[p].qkey = q[p].qkey
    BY <1>3, EntryFacts DEF Removed
  <2> QED BY <2>1 DEF PKey
<1> HIDE DEF r
<1>11. /\ l \in DOMAIN Lists /\ s[i] \in ToSet(Lists[l])
       /\ Lists' = [Lists EXCEPT ![l] = Dequeue(@, s[i])]
  <2>1. l \in DOMAIN Lists
    BY DEF Lists
  <2> QED BY <2>1, <1>7, <1>8, <1>9
<1>12. Abstract!Leave(s[i])
  BY <1>10, <1>11, SameOperators DEF Abstract!Leave, Lists, Count, PKey
<1> QED BY <1>4, <1>12

(* enqueue is Append.                                                      *)
LEMMA InsertAtEnd ==
    ASSUME NEW S, NEW s \in Seq(S), NEW e \in S
    PROVE  InsertAt(s, Len(s) + 1, e) = Append(s, e)
<1> DEFINE n == Len(s) + 1
           a == InsertAt(s, n, e)
           b == Append(s, e)
<1>1. Len(s) \in Nat /\ n \in 1 .. Len(s) + 1 /\ n = Len(s) + 1
  BY LenProperties
<1> HIDE DEF n
<1>2. /\ a \in Seq(S) /\ Len(a) = Len(s) + 1
      /\ \A j \in 1 .. Len(s) + 1 : a[j] =
             IF j < n THEN s[j] ELSE IF j = n THEN e ELSE s[j - 1]
  BY <1>1, InsertAtShape
<1>3. /\ b \in Seq(S) /\ Len(b) = Len(s) + 1
      /\ \A j \in 1 .. Len(s) : b[j] = s[j]
      /\ b[Len(s) + 1] = e
  BY AppendProperties
<1> HIDE DEF a, b
<1>4. \A j \in 1 .. Len(s) + 1 : a[j] = b[j]
  <2>1. \A j \in 1 .. Len(s) + 1 : j = Len(s) + 1 \/ (j \in 1 .. Len(s) /\ j < Len(s) + 1)
    BY <1>1
  <2> QED BY <1>1, <1>2, <1>3, <2>1
<1>5. a = [j \in 1 .. Len(s) + 1 |-> a[j]] /\ b = [j \in 1 .. Len(s) + 1 |-> b[j]]
  BY <1>2, <1>3, LenProperties
<1>6. a = b
  BY <1>4, <1>5
<1> QED BY <1>1, <1>6 DEF a, b

LEMMA AbstractJoin ==
    ASSUME LinksInv, nextqueue = NQENT, NEW h \in Heads, PutsIn(h)
    PROVE  \E p \in Procs : Abstract!Join(p)
<1>1. PICK s : \E p \in Procs : \E i \in 1 .. Len(s) + 1 :
          /\ Chain(h, s) /\ on[p] = EMPTY /\ Inserted(h, s, i, p)
          /\ Placed(s, i, p)
  BY DEF PutsIn
<1>2. PICK p \in Procs, i \in 1 .. Len(s) + 1 :
          /\ Chain(h, s) /\ on[p] = EMPTY /\ Inserted(h, s, i, p)
          /\ Placed(s, i, p)
  BY <1>1
<1>3. s \in Seq(Procs) /\ Len(s) \in Nat
  BY <1>2, ChainFacts
<1>4. /\ LinksInv' /\ Chain(h, InsertAt(s, i, p))'
      /\ \A g \in Heads : \A t : g # h /\ Chain(g, t) => Chain(g, t)'
  BY <1>2, InsertedKeeps
<1>5. nextqueue' = nextqueue
  BY <1>2 DEF Inserted
<1> DEFINE r == InsertAt(s, i, p)
<1>6. PICK l \in 1 .. Count : Lists[l] = s /\ Lists' = [Lists EXCEPT ![l] = r]
  <2> HIDE DEF r
  <2>1. Chain(h, r)'
    BY <1>4 DEF r
  <2> QED BY <1>2, <1>4, <1>5, <2>1, OneListChanges
<1>7. l \in DOMAIN Lists
  BY DEF Lists
<1>8. Abstract!OnNone(p)
  <2>1. ASSUME NEW m \in 1 .. Count
        PROVE  p \notin ToSet(Lists[m])
    <3> DEFINE g == HeadOf(m)
    <3>1. g \in Built
      BY HeadsInOrder DEF LinksInv
    <3> HIDE DEF g
    <3>0. g # EMPTY
      <4>1. g \in Heads
        BY <3>1 DEF Built
      <4> QED BY <4>1, EntryFacts DEF EMPTY
    <3>2. PICK t : Chain(g, t)
      BY <3>1 DEF LinksInv
    <3>3. Members(g) = t
      BY <3>1, <3>2, MembersNow
    <3>4. p \notin ToSet(t)
      BY <1>2, <3>0, <3>2 DEF Chain, Holds
    <3> QED BY <3>3, <3>4 DEF Lists, g
  <2> QED BY <2>1, SameOperators DEF Abstract!OnNone, Lists, Count
<1>9. PKey \in [Procs -> Int] /\ PKey' = [x \in Procs |-> q'[x].qkey]
      /\ \A x \in Procs : PKey[x] = q[x].qkey
  <2>1. EntriesInv
    BY DEF LinksInv
  <2> QED BY <2>1, PKeyIs DEF PKey
<1> HIDE DEF r
<1>10. ASSUME i = Len(s) + 1, \A x \in Procs : q'[x].qkey = q[x].qkey
       PROVE  Abstract!Enqueue(p, l)
  <2>1. r = Append(s, p)
    BY <1>3, <1>10, InsertAtEnd DEF r
  <2>2. PKey' = PKey
    BY <1>10 DEF PKey
  <2>3. Lists' = [Lists EXCEPT ![l] = Append(@, p)]
    BY <1>6, <2>1
  <2> QED BY <2>2, <2>3 DEF Abstract!Enqueue, Lists, Count, PKey
<1>11. ASSUME NEW k \in Keys, i = Min(KeyPlaces(s, k, PKey)),
              \A x \in Procs : q'[x].qkey = IF x = p THEN k ELSE q[x].qkey
       PROVE  Abstract!InsertByKey(p, l, k)
  <2>1. r = Insert(s, p, k, PKey)
    BY <1>11 DEF r, Insert
  <2>2. PKey' = [PKey EXCEPT ![p] = k]
    BY <1>9, <1>11
  <2>3. Lists' = [Lists EXCEPT ![l] = Insert(@, p, k, PKey)]
    BY <1>6, <2>1
  <2> QED BY <2>2, <2>3, SameOperators DEF Abstract!InsertByKey, Lists, Count, PKey
<1>12. ASSUME NEW k \in Keys, i = Min(DuePlaces(s, k)),
              \A x \in Procs : q'[x].qkey =
                 IF x = p THEN k - Abstract!Due(s)[i - 1]
                 ELSE IF i <= Len(s) /\ x = s[i] THEN Abstract!Due(s)[i] - k
                 ELSE q[x].qkey
       PROVE  Abstract!InsertByTime(p, l, k)
  <2> DEFINE j == Abstract!Min({n \in 1 .. Len(Lists[l]) + 1 :
                          n <= Len(Lists[l]) => Abstract!Due(Lists[l])[n] >= k})
  <2>1. i = j
    BY <1>6, <1>12, SameOperators DEF DuePlaces
  <2> HIDE DEF j
  <2>2. s[i] # p \/ ~(i <= Len(s))
    <3>1. h # EMPTY /\ (i <= Len(s) => i \in 1 .. Len(s))
      BY <1>3, EntryFacts DEF EMPTY
    <3>2. i \in 1 .. Len(s) => on[s[i]] = h
      BY <1>2, ChainFacts, ElementOfSeq
    <3> QED BY <1>2, <3>1, <3>2
  <2>3. PKey' = [x \in Procs |->
                    CASE x = p -> k - Abstract!Due(Lists[l])[j - 1]
                      [] j <= Len(Lists[l]) /\ x = Lists[l][j] ->
                            Abstract!Due(Lists[l])[j] - k
                      [] OTHER -> PKey[x]]
    BY <1>6, <1>9, <1>12, <2>1, <2>2
  <2>4. Lists' = [Lists EXCEPT ![l] = Abstract!InsertAt(@, j, p)]
    BY <1>6, <2>1, SameOperators DEF r
  <2> QED BY <2>3, <2>4 DEF Abstract!InsertByTime, Lists, Count, PKey, j
<1>13. Abstract!Join(p)
  <2>1. Abstract!Enqueue(p, l) \/ \E k \in Keys :
            Abstract!InsertByKey(p, l, k) \/ Abstract!InsertByTime(p, l, k)
    BY <1>2, <1>10, <1>11, <1>12 DEF Placed
  <2> QED BY <1>7, <1>8, <2>1 DEF Abstract!Join, Lists, Count
<1> QED BY <1>2, <1>13

(* Every operation on the links is one on the sequences (newqueue.c,       *)
(* queue.c, getitem.c, insert.c, insertd.c): what the model of the kernel  *)
(* says of its sequences holds of the lists, for any number of processes   *)
(* and semaphores.                                                         *)
THEOREM ListsAlwaysSequences == Spec => ListsAreSequences
<1> DEFINE Map == <<Lists, PKey>>
<1>1. LinksInv /\ [Next]_qVars => [Abstract!Next]_Map
  <2> SUFFICES ASSUME LinksInv, [Next]_qVars
               PROVE  Abstract!Next \/ UNCHANGED Map
    OBVIOUS
  <2>1. CASE newqueue
    BY <2>1, AbstractNew DEF Abstract!Next
  <2>2. ASSUME nextqueue = NQENT, NEW h \in Heads, QueueOp(h)
        PROVE  Abstract!Next
    <3>1. TakesOut \/ PutsIn(h)
      BY <2>2, OperationShape
    <3> QED BY <2>2, <3>1, AbstractLeave, AbstractJoin DEF Abstract!Next
  <2>3. ASSUME UNCHANGED <<q, nextqueue>>
        PROVE  UNCHANGED Map
    BY <2>3 DEF Lists, Count, PKey, Members, Walk, HeadOf
  <2>4. ASSUME NEW h \in Heads, Show(h)
        PROVE  UNCHANGED Map
    BY <2>3, <2>4 DEF Show
  <2>5. CASE UNCHANGED qVars
    BY <2>3, <2>5 DEF qVars
  <2> QED BY <2>1, <2>2, <2>4, <2>5 DEF Next
<1> QED BY <1>1, AbstractInit, LinksInvariant, PTL
        DEF Spec, ListsAreSequences, Abstract!Spec, Lists, Count, PKey

=============================================================================
