------------------------------ MODULE QueueOps ------------------------------
(***************************************************************************)
(* The process queues of the kernel (q.h, queue.c, getitem.c, insert.c).   *)
(*                                                                         *)
(* The code keeps every queue in one array q[] of links: entry i < NPROC   *)
(* belongs to process i, a queue is a pair of head and tail entries, and   *)
(* a process is on at most one queue because it has one entry.  Here a     *)
(* queue is the sequence of the processes met when following qnext from    *)
(* its head, and k is the field qkey of the entries, which all queues      *)
(* share.  enqueue is Append, getfirst is Head and Tail, getlast is Last   *)
(* and Front; the two operations that search are defined below.            *)
(***************************************************************************)
EXTENDS Integers, Sequences, SequencesExt

(* The keys newqueue gives to the head and the tail of a queue.  The head  *)
(* key is octal 0100000: as an int it is positive.                         *)
MININT == 32768
MAXINT == 32767

(* dequeue(item): unlink an entry from the queue it is on.                 *)
Dequeue(q, p) == RemoveAt(q, CHOOSE i \in DOMAIN q : q[i] = p)

(* The places an entry of key "key" may take: the walk of insert stops at  *)
(* the first entry whose key is not smaller, at the latest at the tail.    *)
KeyPlaces(q, key, k) ==
    {i \in 1 .. Len(q) + 1 : i <= Len(q) => k[q[i]] >= key}

(* Mutation of Insert: an entry overtakes those of equal key.              *)
InsertLifo(q, p, key, k) ==
    InsertAt(q, Min({i \in 1 .. Len(q) + 1 : i <= Len(q) => k[q[i]] > key}), p)

(* insert(proc, head, key), the links.  The caller also sets k[p] to key.  *)
Insert(q, p, key, k) == InsertAt(q, Min(KeyPlaces(q, key, k)), p)

(* firstkey(head) and lastkey(tail), with what they yield on empty queues. *)
FirstKey(q, k) == IF q = <<>> THEN MAXINT ELSE k[Head(q)]
LastKey(q, k) == IF q = <<>> THEN MININT ELSE k[Last(q)]

(* Queue q holds the processes of set S, each of them once.                *)
Holds(q, S) == IsInjective(q) /\ ToSet(q) = S

(* A queue in the order of its keys, as insert keeps it.                   *)
Ordered(q, k) ==
    \A i, j \in DOMAIN q : i < j => k[q[i]] <= k[q[j]]

=============================================================================
