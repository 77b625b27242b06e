---------------------------- MODULE LinkedQueues ----------------------------
(***************************************************************************)
(* The array q[] that holds the queues of the kernel as linked lists:      *)
(* newqueue.c, queue.c, getitem.c, insert.c, insertd.c and the inline      *)
(* procedures of q.h.  Entry i < NPROC belongs to process i; each queue    *)
(* has two more entries, its head and its tail.                            *)
(*                                                                         *)
(* The operations run with signals blocked.  show_ready_Q and show_sleep_Q *)
(* (CLI_funcs.c) do not: they write a line at each entry they come to, and *)
(* any operation may change the lists meanwhile.                           *)
(***************************************************************************)
EXTENDS QueueOps

CONSTANTS
    NPROC,      \* entries of the process table
    NSEM,       \* semaphores, each with a queue
    Keys        \* keys that are passed to insert and insertd

(* No key is above that of a tail.  insert stops for it by its type;       *)
(* sleep passes insertd no more than its chunk.                            *)
ASSUME QueuesAssumption ==
    NPROC \in Nat \ {0} /\ NSEM \in Nat /\ Keys \subseteq 0 .. MAXINT

NQENT == NPROC + NSEM + NSEM + 4
EMPTY == -1

Procs == 0 .. NPROC - 1
Entries == 0 .. NQENT - 1
Heads == {h \in Entries : h >= NPROC /\ (h - NPROC) % 2 = 0}
Tail_(head) == head + 1
Tails == {Tail_(h) : h \in Heads}

VARIABLES
    q,          \* the array, as [qkey, qnext, qprev]
    nextqueue,  \* the first entry that newqueue has not given away
    on,         \* on[p]: head of p's queue, EMPTY for none (as pstate tells)
    shown       \* where show_ready_Q or show_sleep_Q is, EMPTY: not running

qVars == <<q, nextqueue, on, shown>>

Init ==
    /\ q = [i \in Entries |-> [qkey |-> 0, qnext |-> 0, qprev |-> 0]]
    /\ nextqueue = NPROC
    /\ on = [p \in Procs |-> EMPTY]
    /\ shown = EMPTY

newqueue ==
    /\ nextqueue \in Heads
    /\ nextqueue' = nextqueue + 2
    /\ q' = [q EXCEPT
               ![nextqueue] = [qkey |-> MININT, qnext |-> nextqueue + 1, qprev |-> EMPTY],
               ![nextqueue + 1] = [qkey |-> MAXINT, qnext |-> EMPTY, qprev |-> nextqueue]]
    /\ UNCHANGED <<on, shown>>

-----------------------------------------------------------------------------
(* queue.c.  The code makes these assignments one by one, in this order.   *)

enqueue(item, tail) ==
    /\ q' = [q EXCEPT ![item].qnext = tail,
                      ![item].qprev = q[tail].qprev,
                      ![q[tail].qprev].qnext = item,
                      ![tail].qprev = item]
    /\ on' = [on EXCEPT ![item] = tail - 1]

(* Mutation of dequeue: the entry behind keeps its link.                   *)
dequeueHalf(item) ==
    /\ q' = [q EXCEPT ![q[item].qprev].qnext = q[item].qnext]
    /\ on' = [on EXCEPT ![item] = EMPTY]

(* Mutation of dequeue: the links of the entry are cleared.                *)
dequeueCleared(item) ==
    /\ q' = [q EXCEPT ![q[item].qprev].qnext = q[item].qnext,
                      ![q[item].qnext].qprev = q[item].qprev,
                      ![item].qnext = EMPTY]
    /\ on' = [on EXCEPT ![item] = EMPTY]

dequeue(item) ==
    /\ q' = [q EXCEPT ![q[item].qprev].qnext = q[item].qnext,
                      ![q[item].qnext].qprev = q[item].qprev]
    /\ on' = [on EXCEPT ![item] = EMPTY]

(* getitem.c.  On an empty queue they return EMPTY and change nothing.     *)
getfirst(head) == q[head].qnext < NPROC /\ dequeue(q[head].qnext)
getlast(tail) == q[tail].qprev < NPROC /\ dequeue(q[tail].qprev)

-----------------------------------------------------------------------------
(* The entries that a walk from head along qnext comes to, the tail at the *)
(* latest being the last.                                                  *)
Walk(head) ==
    LET next == [e \in Entries |-> IF q[e].qnext = EMPTY THEN e ELSE q[e].qnext]
        w[n \in 0 .. NPROC + 1] == IF n = 0 THEN head ELSE next[w[n - 1]]
    IN  w

LinkIn(proc, prev, next, key) ==
    /\ q' = [q EXCEPT ![proc] = [qkey |-> key, qnext |-> next, qprev |-> prev],
                      ![prev].qnext = proc,
                      ![next].qprev = proc]

(* Mutation of insert: it goes on past entries of the same key.            *)
insertLate(proc, head, key) ==
    LET w    == Walk(head)
        next == w[Min({n \in 1 .. NPROC + 1 : q[w[n]].qkey > key})]
    IN  /\ LinkIn(proc, q[next].qprev, next, key)
        /\ on' = [on EXCEPT ![proc] = head]

insert(proc, head, key) ==
    LET w    == Walk(head)
        next == w[Min({n \in 1 .. NPROC + 1 : q[w[n]].qkey >= key})]
    IN  /\ LinkIn(proc, q[next].qprev, next, key)
        /\ on' = [on EXCEPT ![proc] = head]

(* What is left of key when the walk of insertd comes to its n-th entry.   *)
Left(w, key) ==
    LET k[n \in 1 .. NPROC + 1] ==
            IF n = 1 THEN key ELSE k[n - 1] - q[w[n - 1]].qkey
    IN  k

(* Mutation of insertd: the key of the tail is reduced as well.            *)
insertdOnTail(pid, head, key) ==
    LET w == Walk(head)
        n == Min({m \in 1 .. NPROC + 1 : q[w[m]].qkey >= Left(w, key)[m]})
        k == Left(w, key)[n]
    IN  /\ q' = [q EXCEPT ![pid] = [qkey |-> k, qnext |-> w[n], qprev |-> w[n - 1]],
                          ![w[n - 1]].qnext = pid,
                          ![w[n]] = [@ EXCEPT !.qprev = pid, !.qkey = @ - k]]
        /\ on' = [on EXCEPT ![pid] = head]

insertd(pid, head, key) ==
    LET w == Walk(head)
        n == Min({m \in 1 .. NPROC + 1 : q[w[m]].qkey >= Left(w, key)[m]})
        k == Left(w, key)[n]
    IN  /\ q' = [q EXCEPT ![pid] = [qkey |-> k, qnext |-> w[n], qprev |-> w[n - 1]],
                          ![w[n - 1]].qnext = pid,
                          ![w[n]].qprev = pid,
                          ![w[n]].qkey = IF w[n] < NPROC THEN @ - k ELSE @]
        /\ on' = [on EXCEPT ![pid] = head]

-----------------------------------------------------------------------------
(* show_ready_Q and show_sleep_Q: from the head of a queue to the first    *)
(* entry that is not a process's.                                          *)

ShowStart(head) == shown = EMPTY /\ shown' = head

ShowNext ==
    /\ shown # EMPTY
    /\ shown' = IF q[shown].qnext < NPROC THEN q[shown].qnext ELSE EMPTY

Show(head) == (ShowStart(head) \/ ShowNext) /\ UNCHANGED <<q, nextqueue, on>>

QueueOp(h) ==
    /\ \/ getfirst(h) \/ getlast(Tail_(h))
       \/ \E p \in Procs : on[p] # EMPTY /\ dequeue(p)
       \/ \E p \in Procs :
             /\ on[p] = EMPTY
             /\ \/ enqueue(p, Tail_(h))
                \/ \E k \in Keys : insert(p, h, k) \/ insertd(p, h, k)
    /\ UNCHANGED <<nextqueue, shown>>

Next ==
    \/ newqueue
    \/ nextqueue = NQENT /\ \E h \in Heads : QueueOp(h) \/ Show(h)

Spec == Init /\ [][Next]_qVars

-----------------------------------------------------------------------------
(* Properties.                                                             *)

Built == {h \in Heads : h < nextqueue}

isempty(list) == q[list].qnext >= NPROC
firstkey(list) == q[q[list].qnext].qkey
lastkey(tail) == q[q[tail].qprev].qkey

(* The processes between the head and the tail.                            *)
Members(head) ==
    LET w == Walk(head)
        n == Max({m \in 0 .. NPROC + 1 : \A i \in 1 .. m : w[i] < NPROC})
    IN  [m \in 1 .. n |-> w[m]]

(* Both directions of the links agree, from each head to its own tail, and *)
(* each process is on the queue that its state tells and on no other.      *)
LinksAgree ==
    \A h \in Built :
        LET w == Walk(h)
            n == Len(Members(h)) + 1
        IN  /\ w[n] = Tail_(h)
            /\ \A m \in 1 .. n : q[w[m]].qprev = w[m - 1]
            /\ Holds(Members(h), {p \in Procs : on[p] = h})

(* The keys at the ends are those that the walks and resched count on,     *)
(* whatever was inserted and removed: MAXINT behind the last process and   *)
(* MININT before the first.                                                *)
EndsReadable ==
    \A h \in Built :
        /\ isempty(h) = (Members(h) = <<>>)
        /\ firstkey(h) = FirstKey(Members(h), [p \in Procs |-> q[p].qkey])
        /\ lastkey(Tail_(h)) = LastKey(Members(h), [p \in Procs |-> q[p].qkey])

(* show_ready_Q, whose place may have been moved to any other queue or to  *)
(* none since it wrote its last line, still walks over entries that lead   *)
(* to a tail, and never to q[-1], which would pass for a process.          *)
ShowStaysInside ==
    shown # EMPTY => q[shown].qnext \in Procs \cup Tails

(* The linked lists implement the sequences that the kernel's model uses.  *)
HeadOf(l) == NPROC + 2 * (l - 1)
Abstract == INSTANCE ProcQueues WITH
    lists <- [l \in 1 .. (nextqueue - NPROC) \div 2 |-> Members(HeadOf(l))],
    key <- [p \in Procs |-> q[p].qkey]
ListsAreSequences == Abstract!Spec

=============================================================================
