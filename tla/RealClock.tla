----------------------------- MODULE RealClock -----------------------------
(***************************************************************************)
(* The clock interrupt and the processes that sleep: clkinit.c, clkint.c,  *)
(* wakeup.c, sleep.c, sleep10.c, insertd.c, ssclock.c.                     *)
(*                                                                         *)
(* The sleep queue is a delta list: the key of an entry is the time it     *)
(* sleeps after the one before it, and sltop points to the first key.      *)
(***************************************************************************)
EXTENDS ProcTab

CONSTANTS
    TICKS,      \* clock interrupts in a tick (6 in the code)
    TENTHS,     \* ticks in a second of sleep (10 in the code)
    CHUNK,      \* longest sleep in one piece, in seconds (1000 in the code)
    Seconds,    \* times that programs pass to sleep
    MaxDefer,   \* bound: no stopclk raises defclk above this
    MaxDiff     \* bound: no interrupt raises clkdiff above this

ASSUME RealClockAssumption ==
    /\ TICKS \in Nat \ {0} /\ TENTHS \in Nat \ {0} /\ CHUNK \in Nat \ {0}
    /\ CHUNK * TENTHS <= MAXINT
    /\ Seconds \subseteq Int
    /\ MaxDefer \in Nat /\ MaxDiff \in Nat

VARIABLES
    clockq,     \* sleep queue, from the head
    slnempty,   \* "sleep queue not empty", as the code last computed it
    sltop,      \* whose qkey sltop points to; NoEntry for NULL
    count6,     \* interrupts left to the next tick
    defclk,     \* ticks are deferred while it is positive
    clkdiff     \* number of deferred ticks

clkVars == <<clockq, slnempty, sltop, count6, defclk, clkdiff>>
countVars == <<count6, defclk, clkdiff>>

NoEntry == -1

ClkTypeOK ==
    /\ clockq \in Seq(Procs)
    /\ slnempty \in BOOLEAN
    /\ sltop \in Procs \cup {NoEntry}
    /\ count6 \in 1 .. TICKS
    /\ defclk \in Nat
    /\ clkdiff \in 0 .. MaxDiff

(* The code lets preempt go on below zero.  Nothing tells the values below *)
(* zero apart (they fail "!(--preempt)" and pass "preempt <= 0", and stay  *)
(* negative until resched sets preempt), so one of them stands for all.    *)
PreemptMinus(n) == IF preempt - n < 0 THEN -1 ELSE preempt - n

(* Where sltop points after "sltop = &q[q[clockq].qnext].qkey".            *)
TopOf(cq) == Head(cq)

-----------------------------------------------------------------------------
(* sleep10(n), n > 0, up to insertd: i is the place the walk has reached   *)
(* and kctx[currpid].n what is left of n there.                            *)
EnterSleep10(n) == Enter("insertd", 1, n)

(* One round of the loop of insertd.  The tail's key is MAXINT.            *)
InsertdWalk ==
    /\ At("insertd")
    /\ LET i == kctx[currpid].arg
           n == kctx[currpid].n
       IN  /\ i <= Len(clockq)
           /\ qkey[clockq[i]] < n
           /\ Enter("insertd", i + 1, n - qkey[clockq[i]])
    /\ UNCHANGED <<tabVars, schedVars, uctx, clkVars>>

(* Mutation of InsertdEnd: the entry behind keeps its key.                 *)
InsertdEndWithoutDelta ==
    /\ At("insertd")
    /\ LET i == kctx[currpid].arg
           n == kctx[currpid].n
           k == [qkey EXCEPT ![currpid] = n]
       IN  /\ clockq' = InsertAt(clockq, i, currpid)
           /\ i <= Len(clockq) => qkey[clockq[i]] >= n
           /\ Resched([pstate EXCEPT ![currpid] = "PRSLEEP"], rdyq, k,
                      pprio, preempt)
    /\ slnempty' = TRUE
    /\ sltop' = TopOf(clockq')
    /\ Leave
    /\ UNCHANGED <<tabVars, uctx, countVars>>

(* The walk ends: insertd links the caller in, sleep10 blocks it.          *)
InsertdEnd ==
    /\ At("insertd")
    /\ LET i == kctx[currpid].arg
           n == kctx[currpid].n
           k == [qkey EXCEPT ![currpid] = n]
       IN  /\ clockq' = InsertAt(clockq, i, currpid)
           /\ \/ /\ i > Len(clockq)
                 /\ Resched([pstate EXCEPT ![currpid] = "PRSLEEP"], rdyq, k,
                            pprio, preempt)
              \/ /\ i <= Len(clockq)
                 /\ qkey[clockq[i]] >= n
                 /\ Resched([pstate EXCEPT ![currpid] = "PRSLEEP"], rdyq,
                            [k EXCEPT ![clockq[i]] = @ - n], pprio, preempt)
    /\ slnempty' = TRUE
    /\ sltop' = TopOf(clockq')
    /\ Leave
    /\ UNCHANGED <<tabVars, uctx, countVars>>

(* sleep(n).  n = 0 ends the time slice.  Between the chunks of a long     *)
(* sleep the caller is out of the kernel and can be interrupted.           *)
Sleep(n) ==
    /\ Calling("sleep")
    /\ n >= 0
    /\ \/ /\ n = 0
          /\ Yield
          /\ UNCHANGED uctx
       \/ /\ n > 0
          /\ uctx' = [uctx EXCEPT ![currpid] = InUser("sleep", n)]
          /\ UNCHANGED schedVars
    /\ UNCHANGED <<tabVars, kctx, clkVars>>

(* The next piece of a sleep, or the return from it.                       *)
SleepNext ==
    /\ Interruptible
    /\ uctx[currpid].op = "sleep"
    /\ LET n == uctx[currpid].n
       IN  \/ /\ n >= CHUNK
              /\ uctx' = [uctx EXCEPT ![currpid] = InUser("sleep", n - CHUNK)]
              /\ EnterSleep10(TENTHS * CHUNK)
           \/ /\ 0 < n /\ n < CHUNK
              /\ uctx' = [uctx EXCEPT ![currpid] = Running]
              /\ EnterSleep10(TENTHS * n)
           \/ /\ n = 0
              /\ uctx' = [uctx EXCEPT ![currpid] = Running]
              /\ UNCHANGED kctx
    /\ UNCHANGED <<tabVars, schedVars, clkVars>>

-----------------------------------------------------------------------------
(* wakeup, called from clkint or from strtclk: op names the caller.        *)
WakeupFirst ==
    /\ At("wakeup_clkint") \/ At("wakeup_strtclk")
    /\ clockq # <<>> /\ FirstKey(clockq, qkey) <= 0
    /\ clockq' = Tail(clockq)
    /\ ReadyNoResched(Head(clockq))
    /\ UNCHANGED <<tabVars, kctx, uctx, slnempty, sltop, countVars>>

(* Mutation of WakeupEnd: sltop stays where it was.                        *)
WakeupEndKeepingTop ==
    /\ At("wakeup_clkint") \/ At("wakeup_strtclk")
    /\ clockq = <<>> \/ FirstKey(clockq, qkey) > 0
    /\ slnempty' = (clockq # <<>>)
    /\ \/ Op = "wakeup_clkint" /\ Enter("clkint", 0, 0)
       \/ Op = "wakeup_strtclk" /\ Enter("strtclk_tail", 0, 0)
    /\ Yield
    /\ UNCHANGED <<tabVars, uctx, sltop, clockq, countVars>>

(* Mutation of WakeupEnd: the processor is not given to who woke up.       *)
WakeupEndWithoutResched ==
    /\ At("wakeup_clkint") \/ At("wakeup_strtclk")
    /\ clockq = <<>> \/ FirstKey(clockq, qkey) > 0
    /\ slnempty' = (clockq # <<>>)
    /\ sltop' = IF clockq # <<>> THEN TopOf(clockq) ELSE sltop
    /\ \/ Op = "wakeup_clkint" /\ Enter("clkint", 0, 0)
       \/ Op = "wakeup_strtclk" /\ Enter("strtclk_tail", 0, 0)
    /\ UNCHANGED <<tabVars, schedVars, uctx, clockq, countVars>>

WakeupEnd ==
    /\ At("wakeup_clkint") \/ At("wakeup_strtclk")
    /\ clockq = <<>> \/ FirstKey(clockq, qkey) > 0
    /\ slnempty' = (clockq # <<>>)
    /\ sltop' = IF clockq # <<>> THEN TopOf(clockq) ELSE sltop
    /\ \/ Op = "wakeup_clkint" /\ Enter("clkint", 0, 0)
       \/ Op = "wakeup_strtclk" /\ Enter("strtclk_tail", 0, 0)
    /\ Yield
    /\ UNCHANGED <<tabVars, uctx, clockq, countVars>>

(* A clock interrupt, in whatever context runs with interrupts enabled.    *)
ClkInt ==
    /\ Interruptible
    /\ \/ /\ count6 - 1 # 0
          /\ count6' = count6 - 1
          /\ UNCHANGED <<kctx, qkey, clkdiff>>
       \/ /\ count6 - 1 = 0
          /\ count6' = TICKS
          /\ \/ /\ defclk # 0
                /\ clkdiff < MaxDiff
                /\ clkdiff' = clkdiff + 1
                /\ UNCHANGED <<kctx, qkey>>
             \/ /\ defclk = 0
                /\ slnempty
                /\ qkey' = [qkey EXCEPT ![sltop] = @ - 1]
                /\ IF qkey'[sltop] = 0 THEN Enter("wakeup_clkint", 0, 0)
                                       ELSE Enter("clkint", 0, 0)
                /\ UNCHANGED clkdiff
             \/ /\ defclk = 0
                /\ ~slnempty
                /\ Enter("clkint", 0, 0)
                /\ UNCHANGED <<qkey, clkdiff>>
    /\ UNCHANGED <<tabVars, pstate, rdyq, currpid, preempt, uctx,
                   clockq, slnempty, sltop, defclk>>

(* Mutation of ClkIntEnd: no resched at the end of a time slice.           *)
ClkIntEndWithoutPreemption ==
    /\ At("clkint")
    /\ Leave
    /\ preempt' = PreemptMinus(1)
    /\ UNCHANGED <<pstate, rdyq, qkey, currpid>>
    /\ UNCHANGED <<tabVars, uctx, clkVars>>

(* The tail of clkint, which runs in the context of the process that was   *)
(* interrupted, after wakeup has perhaps run others first.                 *)
ClkIntEnd ==
    /\ At("clkint")
    /\ Leave
    /\ \/ /\ PreemptMinus(1) = 0
          /\ Resched(pstate, rdyq, qkey, pprio, 0)
       \/ /\ PreemptMinus(1) # 0
          /\ preempt' = PreemptMinus(1)
          /\ UNCHANGED <<pstate, rdyq, qkey, currpid>>
    /\ UNCHANGED <<tabVars, uctx, clkVars>>

-----------------------------------------------------------------------------
(* stopclk: "defclk++" without disable(), so a load and a store with       *)
(* interrupts enabled between them.                                        *)
StopClkLoad ==
    /\ Calling("stopclk")
    /\ defclk < MaxDefer
    /\ uctx' = [uctx EXCEPT ![currpid] = InUser("stopclk", defclk)]
    /\ UNCHANGED <<tabVars, schedVars, kctx, clkVars>>

StopClkStore ==
    /\ Interruptible
    /\ uctx[currpid].op = "stopclk"
    /\ defclk' = uctx[currpid].n + 1
    /\ uctx' = [uctx EXCEPT ![currpid] = Running]
    /\ UNCHANGED <<tabVars, schedVars, kctx, clockq, slnempty, sltop, count6,
                   clkdiff>>

(* strtclk up to its loop; kctx[currpid] holds next and makeup.            *)
StrtClk ==
    /\ Calling("strtclk")
    /\ defclk > 0
    /\ defclk' = defclk - 1
    /\ \/ /\ defclk' > 0
          /\ UNCHANGED <<preempt, clkdiff, kctx>>
       \/ /\ defclk' = 0
          /\ preempt' = PreemptMinus(clkdiff)
          /\ clkdiff' = 0
          /\ \/ slnempty /\ Enter("strtclk", 1, clkdiff)
             \/ ~slnempty /\ Enter("strtclk_tail", 0, 0)
    /\ UNCHANGED <<tabVars, pstate, rdyq, qkey, currpid, uctx, clockq,
                   slnempty, sltop, count6>>

(* Those whose time was within the deferred ticks get the key 0; the first *)
(* one left sleeps on for what remains.                                    *)
StrtClkWalk ==
    /\ At("strtclk")
    /\ LET i == kctx[currpid].arg
           makeup == kctx[currpid].n
       IN  /\ i <= Len(clockq)
           /\ qkey[clockq[i]] < makeup
           /\ Enter("strtclk", i + 1, makeup - qkey[clockq[i]])
           /\ qkey' = [qkey EXCEPT ![clockq[i]] = 0]
    /\ UNCHANGED <<tabVars, pstate, rdyq, currpid, preempt, uctx, clkVars>>

StrtClkWalkDone ==
    /\ At("strtclk")
    /\ LET i == kctx[currpid].arg
           makeup == kctx[currpid].n
       IN  \/ /\ i > Len(clockq)
              /\ UNCHANGED qkey
           \/ /\ i <= Len(clockq)
              /\ qkey[clockq[i]] >= makeup
              /\ qkey' = [qkey EXCEPT ![clockq[i]] = @ - makeup]
    /\ Enter("wakeup_strtclk", 0, 0)
    /\ UNCHANGED <<tabVars, pstate, rdyq, currpid, preempt, uctx, clkVars>>

StrtClkEnd ==
    /\ At("strtclk_tail")
    /\ Leave
    /\ \/ preempt <= 0 /\ Yield
       \/ preempt > 0 /\ UNCHANGED schedVars
    /\ UNCHANGED <<tabVars, uctx, clkVars>>

ClkKernelStep ==
    \/ InsertdWalk \/ InsertdEnd \/ WakeupFirst \/ WakeupEnd \/ ClkIntEnd
    \/ StrtClkWalk \/ StrtClkWalkDone \/ StrtClkEnd

=============================================================================
