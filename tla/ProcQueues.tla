----------------------------- MODULE ProcQueues -----------------------------
(***************************************************************************)
(* What the queues of the kernel promise: each is a sequence of processes, *)
(* a process is on one of them at most, and its key goes with it.  The     *)
(* operations are those of QueueOps, on which the kernel's model is built. *)
(***************************************************************************)
EXTENDS QueueOps

CONSTANTS Procs, Keys

VARIABLES lists, key        \* the queues, in the order of newqueue

QueuesInit == lists = <<>> /\ key = [p \in Procs |-> 0]

New == lists' = Append(lists, <<>>) /\ UNCHANGED key

(* dequeue, getfirst and getlast.                                          *)
Leave(p) ==
    /\ UNCHANGED key
    /\ \E l \in DOMAIN lists :
          /\ p \in ToSet(lists[l])
          /\ lists' = [lists EXCEPT ![l] = Dequeue(@, p)]

Enqueue(p, l) ==
    /\ UNCHANGED key
    /\ lists' = [lists EXCEPT ![l] = Append(@, p)]

InsertByKey(p, l, k) ==
    /\ key' = [key EXCEPT ![p] = k]
    /\ lists' = [lists EXCEPT ![l] = Insert(@, p, k, key)]

(* The keys of a delta list are the times between one entry and the next.  *)
(* An entry goes before the first one that is not due before it.           *)
Due(s) == LET t[i \in 0 .. Len(s)] == IF i = 0 THEN 0 ELSE t[i - 1] + key[s[i]]
          IN  t

InsertByTime(p, l, k) ==
    LET s == lists[l]
        i == Min({n \in 1 .. Len(s) + 1 : n <= Len(s) => Due(s)[n] >= k})
    IN  /\ key' = [o \in Procs |->
                     CASE o = p                   -> k - Due(s)[i - 1]
                       [] i <= Len(s) /\ o = s[i] -> Due(s)[i] - k
                       [] OTHER                   -> key[o]]
        /\ lists' = [lists EXCEPT ![l] = InsertAt(@, i, p)]

OnNone(p) == \A l \in DOMAIN lists : p \notin ToSet(lists[l])

Join(p) ==
    /\ OnNone(p)
    /\ \E l \in DOMAIN lists :
          \/ Enqueue(p, l)
          \/ \E k \in Keys : InsertByKey(p, l, k) \/ InsertByTime(p, l, k)

Next == New \/ \E p \in Procs : Leave(p) \/ Join(p)

Spec == QueuesInit /\ [][Next]_<<lists, key>>

=============================================================================
