---------------------------- MODULE SleepTimers ----------------------------
(***************************************************************************)
(* What the sleep queue promises: every sleeping process has a timer of    *)
(* its own.  Putting one to sleep, waking one or killing one does not      *)
(* touch the timers of the others; a process leaves its sleep only when    *)
(* its timer has run out, and no time passes while one that has run out    *)
(* waits to be woken.  Kernel, with its delta list, implements this.       *)
(***************************************************************************)
EXTENDS Integers

CONSTANTS Procs, MaxTime

VARIABLE left   \* left[p]: ticks until p wakes; or Awake, or Gone

Awake == -1
Gone == -2
Asleep(p) == left[p] >= 0

Init == left \in [Procs -> {Awake, Gone}]

FallAsleep(p, n) ==
    /\ left[p] = Awake
    /\ left' = [left EXCEPT ![p] = n]

(* n ticks pass, for all sleepers alike.                                   *)
Elapse(n) ==
    /\ \A p \in Procs : left[p] # 0
    /\ left' = [p \in Procs |-> IF ~Asleep(p) THEN left[p]
                                ELSE IF left[p] > n THEN left[p] - n ELSE 0]

WakeUp(p) ==
    /\ left[p] = 0
    /\ left' = [left EXCEPT ![p] = Awake]

Die(p) ==
    /\ left[p] # Gone
    /\ left' = [left EXCEPT ![p] = Gone]

Start(p) ==
    /\ left[p] = Gone
    /\ left' = [left EXCEPT ![p] = Awake]

Next ==
    \/ \E n \in 1 .. MaxTime : Elapse(n)
    \/ \E p \in Procs : WakeUp(p) \/ Die(p) \/ Start(p)
    \/ \E p \in Procs, n \in 1 .. MaxTime : FallAsleep(p, n)

Spec == Init /\ [][Next]_left

=============================================================================
