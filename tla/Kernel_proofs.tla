---------------------------- MODULE Kernel_proofs ----------------------------
(***************************************************************************)
(* The theorems about Kernel: IInv is inductive, for every value of the    *)
(* constants.  First about ready and resched alone: from tables that are   *)
(* consistent but for a current process that has given up the processor,   *)
(* they leave consistent tables and do not touch the processes that are    *)
(* not runnable.  Then about what keeps each part of IInv.  Every action   *)
(* preserves it, by one lemma for each call, each step inside the kernel   *)
(* and each interrupt; the initial state has it; and the invariants follow *)
(* from it.                                                                *)
(***************************************************************************)
EXTENDS Kernel, QueueOps_proofs

ReadyIn(ps) == {p \in Procs : ps[p] = "PRREADY"}
CurrentIn(ps) == {p \in Procs : ps[p] = "PRCURR"}
Runnable == {"PRREADY", "PRCURR"}

(* What resched may find ...                                               *)
BeforeResched(ps, rq, k, left) ==
    /\ ps \in [Procs -> States]
    /\ rq \in Seq(Procs)
    /\ k \in [Procs -> Int]
    /\ left \in -1 .. QUANTUM
    /\ CurrentIn(ps) \subseteq {currpid}
    /\ Holds(rq, ReadyIn(ps))
    /\ ps[NULLPROC] \in Runnable

(* ... and what it leaves.                                                 *)
SchedOK(ps, rq, k, cur, left) ==
    /\ ps \in [Procs -> States]
    /\ rq \in Seq(Procs)
    /\ k \in [Procs -> Int]
    /\ cur \in Procs
    /\ left \in -1 .. QUANTUM
    /\ CurrentIn(ps) = {cur}
    /\ Holds(rq, ReadyIn(ps))
    /\ ps[NULLPROC] \in Runnable

(* The processes that are not runnable keep their state and their key.     *)
OthersKept(ps, k, ps2, k2) ==
    \A p \in Procs :
        /\ ps[p] \in Runnable <=> ps2[p] \in Runnable
        /\ ps[p] \notin Runnable => ps2[p] = ps[p] /\ k2[p] = k[p]

LEMMA ConstFacts ==
    /\ NPROC \in Nat /\ NPROC > 2
    /\ NULLPROC \in Procs /\ Procs \subseteq Nat
    /\ QUANTUM \in Nat /\ QUANTUM > 0
    /\ MAXINT \in Nat /\ INITPRIO \in 1 .. MAXINT
    /\ NSEM \in Nat /\ NSEM >= 2
    /\ MaxCount \in Nat /\ OBUFLEN \in Nat /\ OBUFLEN <= MaxCount
    /\ TICKS \in Nat /\ TICKS > 0 /\ MaxDiff \in Nat
    /\ MINSTK \in Nat /\ INITSTK \in Nat /\ MemUnits \in Nat
    /\ INITSTK + MINSTK <= MemUnits
BY ProcTabAssumption, SemaphoresAssumption, RealClockAssumption
   DEF Procs, NULLPROC, MAXINT

LEMMA SwitchOK ==
    ASSUME NEW ps, NEW rq, NEW k,
           ps \in [Procs -> States], rq \in Seq(Procs), k \in [Procs -> Int],
           CurrentIn(ps) = {}, Holds(rq, ReadyIn(ps)),
           ps[NULLPROC] = "PRREADY",
           SwitchToLast(ps, rq, k)
    PROVE  /\ SchedOK(pstate', rdyq', qkey', currpid', preempt')
           /\ OthersKept(ps, k, pstate', qkey')
<1>1. NULLPROC \in ReadyIn(ps)
  BY ConstFacts DEF ReadyIn
<1>2. /\ Last(rq) \in ReadyIn(ps) /\ Last(rq) \in Procs
      /\ Front(rq) \in Seq(Procs)
      /\ Holds(Front(rq), ReadyIn(ps) \ {Last(rq)})
  BY <1>1, LastFrontHolds
<1>3. /\ currpid' = Last(rq) /\ rdyq' = Front(rq) /\ qkey' = k
      /\ pstate' = [ps EXCEPT ![Last(rq)] = "PRCURR"] /\ preempt' = QUANTUM
  BY DEF SwitchToLast
<1>4. pstate' \in [Procs -> States]
  BY <1>2, <1>3 DEF States
<1>5. CurrentIn(pstate') = {currpid'} /\ ReadyIn(pstate') = ReadyIn(ps) \ {Last(rq)}
  BY <1>2, <1>3 DEF CurrentIn, ReadyIn
<1>6. pstate'[NULLPROC] \in Runnable
  BY <1>2, <1>3, ConstFacts DEF Runnable
<1>7. preempt' \in -1 .. QUANTUM
  BY <1>3, ConstFacts
<1>8. OthersKept(ps, k, pstate', qkey')
  BY <1>2, <1>3 DEF OthersKept, Runnable, ReadyIn
<1> QED BY <1>2, <1>3, <1>4, <1>5, <1>6, <1>7, <1>8 DEF SchedOK

(* resched.                                                                *)
LEMMA ReschedOK ==
    ASSUME NEW ps, NEW rq, NEW k, NEW pr \in [Procs -> Int], NEW left,
           currpid \in Procs, BeforeResched(ps, rq, k, left),
           Resched(ps, rq, k, pr, left)
    PROVE  /\ SchedOK(pstate', rdyq', qkey', currpid', preempt')
           /\ OthersKept(ps, k, pstate', qkey')
<1> USE DEF BeforeResched
<1>1. CASE KeepsCpu(ps, rq, k, pr)
  <2>1. /\ pstate' = ps /\ rdyq' = rq /\ qkey' = k /\ preempt' = left
        /\ currpid' = currpid /\ ps[currpid] = "PRCURR"
    BY <1>1 DEF Resched, KeepsCpu
  <2>2. CurrentIn(ps) = {currpid}
    BY <2>1 DEF CurrentIn
  <2> QED BY <2>1, <2>2 DEF SchedOK, OthersKept
<1>2. CASE ~KeepsCpu(ps, rq, k, pr) /\ ps[currpid] = "PRCURR"
  <2> DEFINE ps2 == [ps EXCEPT ![currpid] = "PRREADY"]
             rq2 == Insert(rq, currpid, pr[currpid], k)
             k2 == [k EXCEPT ![currpid] = pr[currpid]]
  <2>1. SwitchToLast(ps2, rq2, k2)
    BY <1>2 DEF Resched
  <2>2. currpid \notin ReadyIn(ps) /\ pr[currpid] \in Int
    BY <1>2 DEF ReadyIn
  <2>3. rq2 \in Seq(Procs) /\ Holds(rq2, ReadyIn(ps) \cup {currpid})
    BY <2>2, InsertHolds
  <2>4. /\ ps2 \in [Procs -> States] /\ k2 \in [Procs -> Int]
        /\ ReadyIn(ps2) = ReadyIn(ps) \cup {currpid} /\ CurrentIn(ps2) = {}
        /\ ps2[NULLPROC] = "PRREADY"
    BY <1>2, <2>2, ConstFacts DEF ReadyIn, CurrentIn, States, Runnable
  <2>5. OthersKept(ps, k, ps2, k2)
    BY <1>2 DEF OthersKept, Runnable
  <2> HIDE DEF ps2, rq2, k2
  <2>6. /\ SchedOK(pstate', rdyq', qkey', currpid', preempt')
        /\ OthersKept(ps2, k2, pstate', qkey')
    BY <2>1, <2>3, <2>4, SwitchOK
  <2> QED BY <2>5, <2>6 DEF OthersKept
<1>3. CASE ps[currpid] # "PRCURR"
  <2>1. SwitchToLast(ps, rq, k)
    BY <1>3 DEF Resched, KeepsCpu
  <2>2. CurrentIn(ps) = {} /\ ps[NULLPROC] = "PRREADY"
    BY <1>3, ConstFacts DEF CurrentIn, Runnable
  <2> QED BY <2>1, <2>2, SwitchOK
<1> QED BY <1>1, <1>2, <1>3

(* ready: the process it is given, which is on no queue, joins the ready   *)
(* list.                                                                   *)
LEMMA ReadyJoins ==
    ASSUME SchedOK(pstate, rdyq, qkey, currpid, preempt),
           pprio \in [Procs -> Int],
           NEW pid \in Procs, pstate[pid] \notin Runnable
    PROVE  LET ps == [pstate EXCEPT ![pid] = "PRREADY"]
               rq == Insert(rdyq, pid, pprio[pid], qkey)
               k  == [qkey EXCEPT ![pid] = pprio[pid]]
           IN  /\ SchedOK(ps, rq, k, currpid, preempt)
               /\ \A p \in Procs \ {pid} : ps[p] = pstate[p] /\ k[p] = qkey[p]
<1> DEFINE ps == [pstate EXCEPT ![pid] = "PRREADY"]
           rq == Insert(rdyq, pid, pprio[pid], qkey)
           k  == [qkey EXCEPT ![pid] = pprio[pid]]
<1> USE DEF SchedOK
<1>1. pid \notin ReadyIn(pstate) /\ pprio[pid] \in Int
  BY DEF ReadyIn, Runnable
<1>2. rq \in Seq(Procs) /\ Holds(rq, ReadyIn(pstate) \cup {pid})
  BY <1>1, InsertHolds
<1>3. /\ ps \in [Procs -> States] /\ k \in [Procs -> Int]
      /\ ReadyIn(ps) = ReadyIn(pstate) \cup {pid}
      /\ CurrentIn(ps) = CurrentIn(pstate)
      /\ ps[NULLPROC] \in Runnable
  BY <1>1, ConstFacts DEF ReadyIn, CurrentIn, States, Runnable
<1>4. \A p \in Procs \ {pid} : ps[p] = pstate[p] /\ k[p] = qkey[p]
  OBVIOUS
<1> HIDE DEF ps, rq, k
<1>5. SchedOK(ps, rq, k, currpid, preempt)
  BY <1>2, <1>3
<1> QED BY <1>4, <1>5 DEF ps, rq, k

-----------------------------------------------------------------------------
(* The four ways the kernel changes who runs, from consistent tables.      *)

SchedOKNow == SchedOK(pstate, rdyq, qkey, currpid, preempt)
SchedOKNext == SchedOK(pstate', rdyq', qkey', currpid', preempt')

(* p is as runnable as it was, and unchanged if it is not runnable.        *)
Kept(p) ==
    /\ pstate[p] \in Runnable <=> pstate'[p] \in Runnable
    /\ pstate[p] \notin Runnable => pstate'[p] = pstate[p] /\ qkey'[p] = qkey[p]

LEMMA YieldStep ==
    ASSUME SchedOKNow, NEW pr \in [Procs -> Int], NEW left \in -1 .. QUANTUM,
           Resched(pstate, rdyq, qkey, pr, left)
    PROVE  SchedOKNext /\ \A p \in Procs : Kept(p)
<1>1. BeforeResched(pstate, rdyq, qkey, left) /\ currpid \in Procs
  BY DEF SchedOKNow, SchedOK, BeforeResched
<1>2. SchedOKNext /\ OthersKept(pstate, qkey, pstate', qkey')
  BY <1>1, ReschedOK DEF SchedOKNext
<1> QED BY <1>2 DEF OthersKept, Kept

LEMMA ReadyNoReschedStep ==
    ASSUME SchedOKNow, pprio \in [Procs -> Int],
           NEW pid \in Procs, pstate[pid] \notin Runnable, ReadyNoResched(pid)
    PROVE  /\ SchedOKNext
           /\ pstate'[pid] = "PRREADY" /\ currpid' = currpid
           /\ \A p \in Procs \ {pid} : Kept(p)
<1> DEFINE ps == [pstate EXCEPT ![pid] = "PRREADY"]
           rq == Insert(rdyq, pid, pprio[pid], qkey)
           k  == [qkey EXCEPT ![pid] = pprio[pid]]
<1>1. /\ SchedOK(ps, rq, k, currpid, preempt)
      /\ \A p \in Procs \ {pid} : ps[p] = pstate[p] /\ k[p] = qkey[p]
  BY ReadyJoins DEF SchedOKNow
<1>2. /\ pstate' = ps /\ rdyq' = rq /\ qkey' = k
      /\ currpid' = currpid /\ preempt' = preempt
  BY DEF ReadyNoResched
<1>3. ps[pid] = "PRREADY"
  BY DEF SchedOKNow, SchedOK
<1> QED BY <1>1, <1>2, <1>3 DEF SchedOKNext, Kept

LEMMA ReadyStep ==
    ASSUME SchedOKNow, pprio \in [Procs -> Int],
           NEW pid \in Procs, pstate[pid] \notin Runnable, Ready(pid)
    PROVE  /\ SchedOKNext
           /\ pstate'[pid] \in Runnable
           /\ \A p \in Procs \ {pid} : Kept(p)
<1> DEFINE ps == [pstate EXCEPT ![pid] = "PRREADY"]
           rq == Insert(rdyq, pid, pprio[pid], qkey)
           k  == [qkey EXCEPT ![pid] = pprio[pid]]
<1>1. /\ SchedOK(ps, rq, k, currpid, preempt)
      /\ \A p \in Procs \ {pid} : ps[p] = pstate[p] /\ k[p] = qkey[p]
  BY ReadyJoins DEF SchedOKNow
<1>2. ps[pid] \in Runnable
  BY DEF SchedOKNow, SchedOK, Runnable
<1>3. Resched(ps, rq, k, pprio, preempt)
  BY DEF Ready
<1> HIDE DEF ps, rq, k
<1>4. BeforeResched(ps, rq, k, preempt) /\ currpid \in Procs
  BY <1>1 DEF SchedOK, BeforeResched
<1>5. SchedOKNext /\ OthersKept(ps, k, pstate', qkey')
  BY <1>3, <1>4, ReschedOK DEF SchedOKNext
<1> QED BY <1>1, <1>2, <1>5 DEF OthersKept, Kept

(* The current process, with key c from now on, gives up the processor.    *)
LEMMA BlockStep ==
    ASSUME SchedOKNow, pprio \in [Procs -> Int],
           NEW s \in States, s \notin Runnable, currpid # NULLPROC,
           NEW k \in [Procs -> Int],
           Resched([pstate EXCEPT ![currpid] = s], rdyq, k, pprio, preempt)
    PROVE  /\ SchedOKNext
           /\ pstate'[currpid] = s /\ qkey'[currpid] = k[currpid]
           /\ \A p \in Procs \ {currpid} :
                 /\ pstate[p] \in Runnable <=> pstate'[p] \in Runnable
                 /\ pstate[p] \notin Runnable =>
                       pstate'[p] = pstate[p] /\ qkey'[p] = k[p]
<1> DEFINE ps == [pstate EXCEPT ![currpid] = s]
<1> USE DEF SchedOKNow, SchedOK
<1>1. /\ ps \in [Procs -> States]
      /\ CurrentIn(ps) = {} /\ ReadyIn(ps) = ReadyIn(pstate)
      /\ ps[NULLPROC] \in Runnable
  BY ConstFacts DEF CurrentIn, ReadyIn, Runnable
<1>2. /\ ps[currpid] = s
      /\ \A p \in Procs \ {currpid} : ps[p] = pstate[p]
  OBVIOUS
<1> HIDE DEF ps
<1>3. BeforeResched(ps, rdyq, k, preempt)
  BY <1>1 DEF BeforeResched
<1>4. SchedOKNext /\ OthersKept(ps, k, pstate', qkey')
  BY <1>3, ReschedOK DEF SchedOKNext, ps
<1> QED BY <1>2, <1>4 DEF OthersKept

(* A ready process leaves the ready list for state s.                      *)
LEMMA UnreadyStep ==
    ASSUME SchedOKNow, NEW pid \in Procs, pid # NULLPROC,
           pstate[pid] = "PRREADY", NEW s \in States, s \notin Runnable,
           pstate' = [pstate EXCEPT ![pid] = s],
           rdyq' = Dequeue(rdyq, pid),
           UNCHANGED <<qkey, currpid, preempt>>
    PROVE  SchedOKNext
<1> USE DEF SchedOKNow, SchedOK
<1>1. pid \in ReadyIn(pstate)
  BY DEF ReadyIn
<1>2. rdyq' \in Seq(Procs) /\ Holds(rdyq', ReadyIn(pstate) \ {pid})
  BY <1>1, DequeueHolds
<1>3. /\ pstate' \in [Procs -> States]
      /\ ReadyIn(pstate') = ReadyIn(pstate) \ {pid}
      /\ CurrentIn(pstate') = CurrentIn(pstate)
      /\ pstate'[NULLPROC] \in Runnable
  BY ConstFacts DEF ReadyIn, CurrentIn, Runnable
<1> QED BY <1>2, <1>3 DEF SchedOKNext

-----------------------------------------------------------------------------
(* The parts of the invariant, and what keeps each of them.                *)

TabOK ==
    /\ pprio \in [Procs -> 0 .. MAXINT]
    /\ pstklen \in [Procs -> Nat]
    /\ numproc \in Int
    /\ nextproc \in Procs
    /\ freemem \in Nat
    /\ kctx \in [Procs -> [op : KernelOps, arg : Int, n : Int]]
    /\ uctx \in [Procs -> [op : UserOps, n : Nat]]
    /\ exited \in BOOLEAN

LEMMA SchedInvParts ==
    /\ SchedInv <=> /\ TabOK /\ SchedOKNow
                    /\ NullOnlyRuns /\ SwitchedOutCleanly /\ OutOfKernelAtExit
    /\ SchedInv' <=> /\ TabOK' /\ SchedOKNext
                     /\ NullOnlyRuns' /\ SwitchedOutCleanly' /\ OutOfKernelAtExit'
<1> USE DEF SchedInv, TabOK, SchedOK, ProcTypeOK, CurrentIsCurrpid,
            ReadyQueueAgrees, NullProcessReady, Runnable, ReadyIn, CurrentIn, InState
<1>1. SchedInv <=> /\ TabOK /\ SchedOKNow
                   /\ NullOnlyRuns /\ SwitchedOutCleanly /\ OutOfKernelAtExit
  BY DEF SchedOKNow
<1>2. SchedInv' <=> /\ TabOK' /\ SchedOKNext
                    /\ NullOnlyRuns' /\ SwitchedOutCleanly' /\ OutOfKernelAtExit'
  BY DEF SchedOKNext
<1> QED BY <1>1, <1>2

LEMMA PprioInt == TabOK => pprio \in [Procs -> Int]
BY ConstFacts DEF TabOK

SemKept == \A p \in Procs : pstate'[p] = "PRWAIT" <=> pstate[p] = "PRWAIT"
ClkKept ==
    \A p \in Procs :
        /\ pstate'[p] = "PRSLEEP" <=> pstate[p] = "PRSLEEP"
        /\ pstate[p] = "PRSLEEP" => qkey'[p] = qkey[p]

LEMMA KeptIsEnough ==
    ASSUME NEW pid, \A p \in Procs \ {pid} : Kept(p),
           pid \in Procs => /\ pstate[pid] \notin {"PRWAIT", "PRSLEEP"}
                            /\ pstate'[pid] \notin {"PRWAIT", "PRSLEEP"}
    PROVE  SemKept /\ ClkKept
BY DEF Kept, Runnable, SemKept, ClkKept

SemDrains == {"sdelete", "sreset"}
ClkDrains == {"strtclk", "wakeup_clkint", "wakeup_strtclk"}
Sections == {"sdelete", "sreset", "signaln", "insertd", "strtclk"}

LEMMA SemFrame ==
    ASSUME SemInv, UNCHANGED semVars, SemKept,
           Op \notin SemDrains, Op' \notin {"sdelete", "sreset", "signaln"}
    PROVE  SemInv'
<1> USE DEF SemInv, semVars
<1>1. SemTypeOK'
  BY DEF SemTypeOK
<1>2. \A s \in Sems : WaitingOn(s)' = WaitingOn(s)
  BY DEF SemKept, WaitingOn, InState
<1>3. SemQueuesAgree'
  BY <1>2 DEF SemQueuesAgree
<1>4. SemaphoreCountOwesQueue'
  BY DEF SemaphoreCountOwesQueue, SemDrains
<1>5. SemSection'
  BY DEF SemSection
<1> QED BY <1>1, <1>3, <1>4, <1>5

LEMMA ClkFrame ==
    ASSUME ClkInv, UNCHANGED clkVars, ClkKept,
           Op \notin ClkDrains, Op' \notin {"insertd", "strtclk"}
    PROVE  ClkInv'
<1> USE DEF ClkInv, clkVars
<1>1. ClkTypeOK'
  BY DEF ClkTypeOK
<1>2. InState("PRSLEEP")' = InState("PRSLEEP")
  BY DEF ClkKept, InState
<1>3. SleepQueueAgrees'
  BY <1>2 DEF SleepQueueAgrees
<1>4. SleepKeysNotNegative'
  BY <1>2 DEF SleepKeysNotNegative, ClkKept, InState
<1>5. SleepTopAgrees'
  <2> SUFFICES ASSUME clockq # <<>> PROVE qkey'[Head(clockq)] = qkey[Head(clockq)]
    BY DEF SleepTopAgrees, ClkDrains
  <2>1. Head(clockq) \in InState("PRSLEEP")
    BY HeadTailHolds DEF SleepQueueAgrees, ClkTypeOK
  <2> QED BY <2>1 DEF ClkKept, InState
<1>6. ClkSection'
  BY DEF ClkSection
<1> QED BY <1>1, <1>3, <1>4, <1>5, <1>6

(* What holds when the running process is out of the kernel.               *)
LEMMA OutOfKernelFacts ==
    ASSUME IInv, Interruptible
    PROVE  /\ TabOK /\ SchedOKNow /\ exited = FALSE /\ Op = "none"
           /\ \A p \in Procs : kctx[p].op \in Resumable
<1>1. TabOK /\ SchedOKNow /\ SwitchedOutCleanly
  BY SchedInvParts DEF IInv
<1>2. exited = FALSE /\ Op = "none"
  BY <1>1 DEF Interruptible, TabOK
<1>3. \A p \in Procs : kctx[p].op \in Resumable
  BY <1>1, <1>2 DEF SwitchedOutCleanly, Resumable, Op
<1> QED BY <1>1, <1>2, <1>3

LEMMA CallFacts ==
    ASSUME IInv, NEW name, Calling(name)
    PROVE  /\ Interruptible
           /\ currpid # NULLPROC /\ currpid \in Procs
           /\ pstate[currpid] = "PRCURR"
           /\ uctx[currpid] = Running
<1>1. SchedOKNow
  BY SchedInvParts DEF IInv
<1> QED BY <1>1 DEF Calling, SchedOKNow, SchedOK, CurrentIn

(* A step that leaves semaphores and clock alone and every process out of  *)
(* the kernel's loops.                                                     *)
LEMMA PlainStep ==
    ASSUME IInv, Op \notin SemDrains \cup ClkDrains,
           SchedOKNext, TabOK', NullOnlyRuns', exited' = FALSE,
           \A p \in Procs : kctx'[p].op \in Resumable,
           UNCHANGED <<semVars, clkVars>>, MsgTypeOK',
           SemKept, ClkKept
    PROVE  IInv'
<1>1. currpid' \in Procs
  BY DEF SchedOKNext, SchedOK
<1>2. Op' \in Resumable
  BY <1>1 DEF Op
<1>3. SwitchedOutCleanly' /\ OutOfKernelAtExit'
  BY DEF SwitchedOutCleanly, OutOfKernelAtExit
<1>4. SchedInv'
  BY <1>3, SchedInvParts
<1>5. SemInv'
  BY <1>2, SemFrame DEF IInv, Resumable
<1>6. ClkInv'
  BY <1>2, ClkFrame DEF IInv, Resumable
<1> QED BY <1>4, <1>5, <1>6 DEF IInv

(* handle_error: nothing but exited changes.                               *)
LEMMA ExitStep ==
    ASSUME IInv, Interruptible, HandleError,
           UNCHANGED <<semVars, msgVars, clkVars>>
    PROVE  IInv'
<1> USE OutOfKernelFacts DEF HandleError
<1>1. Op' = "none"
  BY DEF Op
<1>2. SchedInv'
  <2>1. SchedOKNext
    BY DEF SchedOKNow, SchedOKNext
  <2>2. TabOK'
    BY DEF TabOK
  <2>3. NullOnlyRuns' /\ SwitchedOutCleanly' /\ OutOfKernelAtExit'
    BY <1>1 DEF NullOnlyRuns, SwitchedOutCleanly, OutOfKernelAtExit,
                IInv, SchedInv
  <2> QED BY <2>1, <2>2, <2>3, SchedInvParts
<1>3. SemKept /\ ClkKept
  BY DEF SemKept, ClkKept
<1>4. SemInv' /\ ClkInv'
  BY <1>1, <1>3, SemFrame, ClkFrame DEF IInv, SemDrains, ClkDrains
<1>5. MsgTypeOK'
  BY DEF IInv, MsgTypeOK, msgVars
<1> QED BY <1>2, <1>4, <1>5 DEF IInv

(* What holds in the middle of a call or a handler.                        *)
LEMMA SectionFacts ==
    ASSUME IInv, NEW op, At(op)
    PROVE  /\ TabOK /\ SchedOKNow /\ exited = FALSE /\ Op = op
           /\ currpid \in Procs /\ pstate[currpid] = "PRCURR"
           /\ \A p \in Procs \ {currpid} : kctx[p].op \in Resumable
<1>1. TabOK /\ SchedOKNow /\ SwitchedOutCleanly
  BY SchedInvParts DEF IInv
<1>2. exited = FALSE /\ Op = op
  BY <1>1 DEF At, TabOK
<1>3. currpid \in Procs /\ pstate[currpid] = "PRCURR"
  BY <1>1 DEF SchedOKNow, SchedOK, CurrentIn
<1> QED BY <1>1, <1>2, <1>3 DEF SwitchedOutCleanly

(* Going on to another point in the kernel, and leaving it.                *)
LEMMA EnterFacts ==
    ASSUME TabOK, currpid \in Procs,
           NEW op \in KernelOps, NEW a \in Int, NEW n \in Int, Enter(op, a, n)
    PROVE  /\ kctx' \in [Procs -> [op : KernelOps, arg : Int, n : Int]]
           /\ kctx'[currpid].op = op
           /\ kctx'[currpid].arg = a /\ kctx'[currpid].n = n
           /\ \A p \in Procs \ {currpid} : kctx'[p] = kctx[p]
BY DEF TabOK, Enter, InKernel

LEMMA LeaveFacts ==
    ASSUME TabOK, currpid \in Procs, Leave,
           \A p \in Procs \ {currpid} : kctx[p].op \in Resumable
    PROVE  /\ kctx' \in [Procs -> [op : KernelOps, arg : Int, n : Int]]
           /\ kctx'[currpid] = OutOfKernel
           /\ \A p \in Procs : kctx'[p].op \in Resumable
BY DEF TabOK, Leave, OutOfKernel, InKernel, KernelOps, Resumable

LEMMA TabKept ==
    ASSUME TabOK, UNCHANGED tabVars, UNCHANGED uctx,
           kctx' \in [Procs -> [op : KernelOps, arg : Int, n : Int]]
    PROVE  TabOK'
BY DEF TabOK, tabVars

(* The scheduler's part after a step.                                      *)
LEMMA SchedInvAfter ==
    ASSUME SchedOKNext, TabOK', NullOnlyRuns', exited' = FALSE,
           \A p \in Procs \ {currpid'} : kctx'[p].op \in Resumable
    PROVE  SchedInv'
<1>1. SwitchedOutCleanly' /\ OutOfKernelAtExit'
  BY DEF SwitchedOutCleanly, OutOfKernelAtExit
<1> QED BY <1>1, SchedInvParts

LEMMA NullKept ==
    ASSUME IInv, UNCHANGED uctx
    PROVE  NullOnlyRuns'
BY DEF IInv, SchedInv, NullOnlyRuns

LEMMA MsgFrame ==
    ASSUME IInv, UNCHANGED msgVars
    PROVE  MsgTypeOK'
BY DEF IInv, MsgTypeOK, msgVars

(* A call that changes states and queues but leaves no process elsewhere   *)
(* in the kernel.                                                          *)
LEMMA QuietStep ==
    ASSUME IInv, Interruptible, SchedOKNext, TabOK',
           UNCHANGED <<kctx, uctx, exited>>, UNCHANGED <<semVars, clkVars>>,
           MsgTypeOK', SemKept, ClkKept
    PROVE  IInv'
<1>1. exited = FALSE /\ Op = "none" /\ \A p \in Procs : kctx[p].op \in Resumable
  BY OutOfKernelFacts
<1>2. NullOnlyRuns'
  BY NullKept
<1> QED BY <1>1, <1>2, PlainStep DEF SemDrains, ClkDrains

(* The current process blocks in a state of no interest to semaphores and  *)
(* clock.                                                                  *)
LEMMA BlockedKept ==
    ASSUME SchedOKNow, pprio \in [Procs -> Int], currpid # NULLPROC,
           NEW s \in States, s \notin {"PRWAIT", "PRSLEEP", "PRREADY", "PRCURR"},
           Block(s)
    PROVE  SchedOKNext /\ SemKept /\ ClkKept /\ pstate'[currpid] = s
<1>1. qkey \in [Procs -> Int] /\ pstate[currpid] = "PRCURR" /\ currpid \in Procs
  BY DEF SchedOKNow, SchedOK, CurrentIn
<1>2. /\ SchedOKNext /\ pstate'[currpid] = s
      /\ \A p \in Procs \ {currpid} :
            /\ pstate[p] \in Runnable <=> pstate'[p] \in Runnable
            /\ pstate[p] \notin Runnable =>
                  pstate'[p] = pstate[p] /\ qkey'[p] = qkey[p]
  BY <1>1, BlockStep DEF Block, Runnable
<1>3. \A p \in Procs \ {currpid} : Kept(p)
  BY <1>2 DEF Kept
<1> QED BY <1>1, <1>2, <1>3, KeptIsEnough

(* A step that moves one process and leaves the others alone.              *)
SemKeptBut(pid) ==
    \A p \in Procs \ {pid} : pstate'[p] = "PRWAIT" <=> pstate[p] = "PRWAIT"
ClkKeptBut(pid) ==
    \A p \in Procs \ {pid} :
        /\ pstate'[p] = "PRSLEEP" <=> pstate[p] = "PRSLEEP"
        /\ pstate[p] = "PRSLEEP" => qkey'[p] = qkey[p]

LEMMA KeptBut ==
    ASSUME NEW pid, \A p \in Procs \ {pid} : Kept(p)
    PROVE  SemKeptBut(pid) /\ ClkKeptBut(pid)
BY DEF Kept, Runnable, SemKeptBut, ClkKeptBut

LEMMA ButIsEnough ==
    ASSUME NEW pid \in Procs
    PROVE  /\ SemKeptBut(pid) /\ pstate[pid] # "PRWAIT" /\ pstate'[pid] # "PRWAIT"
                 => SemKept
           /\ ClkKeptBut(pid) /\ pstate[pid] # "PRSLEEP" /\ pstate'[pid] # "PRSLEEP"
                 => ClkKept
BY DEF SemKept, ClkKept, SemKeptBut, ClkKeptBut

(* Who waits first on a semaphore.                                         *)
LEMMA FirstWaiter ==
    ASSUME SemInv, NEW s \in Sems, semq[s] # <<>>
    PROVE  /\ Head(semq[s]) \in Procs
           /\ pstate[Head(semq[s])] = "PRWAIT" /\ psem[Head(semq[s])] = s
           /\ Tail(semq[s]) \in Seq(Procs)
           /\ Len(Tail(semq[s])) = Len(semq[s]) - 1
           /\ Holds(Tail(semq[s]), WaitingOn(s) \ {Head(semq[s])})
<1>1. semq[s] \in Seq(Procs) /\ Holds(semq[s], WaitingOn(s))
  BY DEF SemInv, SemTypeOK, SemQueuesAgree
<1>2. /\ Head(semq[s]) \in WaitingOn(s)
      /\ Tail(semq[s]) \in Seq(Procs)
      /\ Len(Tail(semq[s])) = Len(semq[s]) - 1
      /\ Holds(Tail(semq[s]), WaitingOn(s) \ {Head(semq[s])})
  BY <1>1, HeadTailHolds
<1> QED BY <1>2 DEF WaitingOn, InState

(* One process leaves the queue of the semaphore it waited on.             *)
LEMMA WaiterLeaves ==
    ASSUME SemInv, NEW s \in Sems, NEW w \in Procs,
           pstate[w] = "PRWAIT", psem[w] = s, pstate'[w] # "PRWAIT",
           SemKeptBut(w), psem' = psem,
           NEW nq \in Seq(Procs), Holds(nq, WaitingOn(s) \ {w}),
           semq' = [semq EXCEPT ![s] = nq]
    PROVE  SemQueuesAgree' /\ semq' \in [Sems -> Seq(Procs)]
<1>1. semq \in [Sems -> Seq(Procs)]
  BY DEF SemInv, SemTypeOK
<1>2. WaitingOn(s)' = WaitingOn(s) \ {w}
  BY DEF WaitingOn, InState, SemKeptBut
<1>3. \A t \in Sems \ {s} : WaitingOn(t)' = WaitingOn(t)
  BY DEF WaitingOn, InState, SemKeptBut
<1>4. SemQueuesAgree'
  BY <1>1, <1>2, <1>3 DEF SemInv, SemQueuesAgree
<1> QED BY <1>1, <1>4

SemSections == {"sdelete", "sreset", "signaln"}

(* Steps of the clock's code that change neither who runs nor who waits:   *)
(* one that goes on to another point of the kernel ...                     *)
LEMMA EnterStep ==
    ASSUME IInv, exited = FALSE, Op \notin SemSections,
           NEW op \in KernelOps \ SemSections, NEW a \in Int, NEW n \in Int,
           Enter(op, a, n),
           UNCHANGED <<tabVars, pstate, rdyq, currpid>>,
           preempt' \in -1 .. QUANTUM, qkey' \in [Procs -> Int],
           uctx' \in [Procs -> [op : UserOps, n : Nat]], uctx'[NULLPROC] = Running,
           UNCHANGED <<semVars, msgVars>>
    PROVE  /\ SchedInv' /\ SemInv' /\ MsgTypeOK'
           /\ Op' = op /\ kctx'[currpid'].arg = a /\ kctx'[currpid'].n = n
           /\ currpid' = currpid
<1>1. /\ TabOK /\ SchedOKNow /\ currpid \in Procs /\ SemInv
      /\ \A p \in Procs \ {currpid} : kctx[p].op \in Resumable
  BY SchedInvParts DEF IInv, SwitchedOutCleanly, SchedOKNow, SchedOK
<1>2. /\ kctx' \in [Procs -> [op : KernelOps, arg : Int, n : Int]]
      /\ Op' = op /\ kctx'[currpid'].arg = a /\ kctx'[currpid'].n = n
      /\ \A p \in Procs \ {currpid} : kctx'[p] = kctx[p]
      /\ currpid' = currpid
  BY <1>1, EnterFacts DEF Op
<1>3. TabOK' /\ NullOnlyRuns' /\ exited' = FALSE
  BY <1>1, <1>2 DEF TabOK, tabVars, NullOnlyRuns
<1>4. SchedOKNext /\ SemKept
  BY <1>1 DEF SchedOKNow, SchedOKNext, SchedOK, SemKept
<1>5. SchedInv'
  BY <1>1, <1>2, <1>3, <1>4, SchedInvAfter
<1>6. SemInv'
  BY <1>1, <1>2, <1>4, SemFrame DEF SemDrains, SemSections
<1> QED BY <1>2, <1>5, <1>6, MsgFrame

(* ... and one outside the kernel.                                         *)
LEMMA OutsideStep ==
    ASSUME IInv, Interruptible,
           UNCHANGED <<tabVars, schedVars, kctx>>,
           uctx' \in [Procs -> [op : UserOps, n : Nat]], uctx'[NULLPROC] = Running,
           UNCHANGED <<semVars, msgVars>>
    PROVE  SchedInv' /\ SemInv' /\ MsgTypeOK' /\ Op' = "none" /\ ClkKept
<1>1. /\ TabOK /\ SchedOKNow /\ Op = "none" /\ exited = FALSE /\ SemInv
      /\ \A p \in Procs : kctx[p].op \in Resumable
  BY OutOfKernelFacts DEF IInv
<1>2. TabOK' /\ NullOnlyRuns' /\ exited' = FALSE /\ Op' = "none"
  BY <1>1 DEF TabOK, tabVars, schedVars, NullOnlyRuns, Op
<1>3. SchedOKNext /\ SemKept /\ ClkKept
  BY <1>1 DEF schedVars, SchedOKNow, SchedOKNext, SemKept, ClkKept
<1>4. SchedInv'
  BY <1>1, <1>2, <1>3, SchedInvAfter
<1>5. SemInv'
  BY <1>1, <1>2, <1>3, SemFrame DEF SemDrains
<1> QED BY <1>2, <1>3, <1>4, <1>5, MsgFrame

LEMMA SchedTypes ==
    ASSUME IInv
    PROVE  /\ qkey \in [Procs -> Int] /\ preempt \in -1 .. QUANTUM
           /\ currpid \in Procs /\ pstate \in [Procs -> States]
           /\ uctx \in [Procs -> [op : UserOps, n : Nat]]
           /\ uctx[NULLPROC] = Running
           /\ clockq \in Seq(Procs) /\ Holds(clockq, InState("PRSLEEP"))
           /\ \A i \in 1 .. Len(clockq) :
                 /\ clockq[i] \in Procs /\ pstate[clockq[i]] = "PRSLEEP"
                 /\ qkey[clockq[i]] \in Int /\ qkey[clockq[i]] >= 0
<1>1. /\ qkey \in [Procs -> Int] /\ preempt \in -1 .. QUANTUM
      /\ currpid \in Procs /\ pstate \in [Procs -> States]
      /\ uctx \in [Procs -> [op : UserOps, n : Nat]]
      /\ uctx[NULLPROC] = Running
  BY SchedInvParts DEF IInv, SchedOKNow, SchedOK, TabOK, NullOnlyRuns
<1>2. clockq \in Seq(Procs) /\ Holds(clockq, InState("PRSLEEP")) /\ SleepKeysNotNegative
  BY DEF IInv, ClkInv, ClkTypeOK, SleepQueueAgrees
<1>3. \A i \in 1 .. Len(clockq) :
          clockq[i] \in Procs /\ clockq[i] \in InState("PRSLEEP")
  BY <1>2, LenProperties, ElementOfSeq DEF Holds, ToSet
<1> QED BY <1>1, <1>2, <1>3 DEF InState, SleepKeysNotNegative

LEMMA PreemptMinusType ==
    ASSUME preempt \in -1 .. QUANTUM, NEW n \in Nat
    PROVE  PreemptMinus(n) \in -1 .. QUANTUM
BY ConstFacts DEF PreemptMinus


-----------------------------------------------------------------------------
(* suspend, resume, chprio.                                                *)

LEMMA SuspendStep ==
    ASSUME IInv, NEW pid \in PidArgs, Suspend(pid),
           UNCHANGED <<semVars, msgVars, clkVars>>
    PROVE  IInv'
<1>1. /\ TabOK /\ SchedOKNow /\ Interruptible /\ currpid # NULLPROC
      /\ pstate[currpid] = "PRCURR" /\ currpid \in Procs
  BY CallFacts, OutOfKernelFacts DEF Suspend
<1>2. pid \in Procs /\ pid # NULLPROC
  BY ConstFacts DEF Suspend, isbadpid, PidArgs, Procs, NULLPROC
<1>3. UNCHANGED <<tabVars, kctx, uctx>>
  BY DEF Suspend
<1>4. TabOK'
  BY <1>1, <1>3 DEF TabOK, tabVars
<1>5. MsgTypeOK'
  BY MsgFrame
<1>6. SchedOKNext /\ SemKept /\ ClkKept
  <2>1. CASE /\ pstate[pid] = "PRREADY"
             /\ rdyq' = Dequeue(rdyq, pid)
             /\ pstate' = [pstate EXCEPT ![pid] = "PRSUSP"]
             /\ UNCHANGED <<qkey, currpid, preempt>>
    <3>1. SchedOKNext
      BY <1>1, <1>2, <2>1, UnreadyStep DEF States, Runnable
    <3>2. SemKept /\ ClkKept
      BY <1>1, <2>1 DEF SemKept, ClkKept, SchedOKNow, SchedOK
    <3> QED BY <3>1, <3>2
  <2>2. CASE pstate[pid] = "PRCURR" /\ Block("PRSUSP")
    BY <1>1, <2>2, PprioInt, BlockedKept DEF States
  <2> QED BY <2>1, <2>2 DEF Suspend
<1> QED BY <1>1, <1>3, <1>4, <1>5, <1>6, QuietStep DEF tabVars

(* A suspended process is made ready.                                      *)
LEMMA ReadySuspended ==
    ASSUME IInv, Interruptible, NEW pid \in Procs, pstate[pid] = "PRSUSP",
           Ready(pid), UNCHANGED <<tabVars, kctx, uctx>>,
           UNCHANGED <<semVars, msgVars, clkVars>>
    PROVE  IInv'
<1>1. TabOK /\ SchedOKNow
  BY OutOfKernelFacts
<1>2. /\ SchedOKNext /\ pstate'[pid] \in Runnable
      /\ \A p \in Procs \ {pid} : Kept(p)
  BY <1>1, PprioInt, ReadyStep DEF Runnable
<1>3. SemKept /\ ClkKept
  BY <1>2, KeptIsEnough DEF Runnable
<1>4. TabOK' /\ MsgTypeOK'
  BY <1>1, MsgFrame DEF TabOK, tabVars
<1> QED BY <1>2, <1>3, <1>4, QuietStep DEF tabVars

LEMMA ResumeStep ==
    ASSUME IInv, NEW pid \in PidArgs, Resume(pid),
           UNCHANGED <<semVars, msgVars, clkVars>>
    PROVE  IInv'
<1>1. Interruptible
  BY CallFacts DEF Resume
<1>2. CASE HandleError
  BY <1>1, <1>2, ExitStep
<1>3. CASE Suspended(pid) /\ Ready(pid) /\ UNCHANGED <<tabVars, kctx, uctx>>
  <2>1. pid \in Procs /\ pstate[pid] = "PRSUSP"
    BY <1>3, ConstFacts DEF Suspended, isbadpid, PidArgs, Procs, NULLPROC
  <2> QED BY <1>1, <1>3, <2>1, ReadySuspended
<1> QED BY <1>2, <1>3 DEF Resume

LEMMA ChPrioStep ==
    ASSUME IInv, NEW pid \in PidArgs, NEW newprio \in Prios, ChPrio(pid, newprio),
           UNCHANGED <<semVars, msgVars, clkVars>>
    PROVE  IInv'
<1>1. TabOK /\ SchedOKNow /\ Interruptible
  BY CallFacts, OutOfKernelFacts DEF ChPrio
<1>2. /\ pid \in Procs
      /\ pprio' = [pprio EXCEPT ![pid] = newprio]
      /\ newprio \in 0 .. MAXINT
      /\ UNCHANGED <<pstklen, numproc, nextproc, freemem, exited, kctx, uctx>>
  BY ConstFacts, ProcTabAssumption
     DEF ChPrio, isbadpid, PidArgs, Procs, NULLPROC
<1>3. TabOK' /\ MsgTypeOK'
  BY <1>1, <1>2, MsgFrame DEF TabOK
<1>4. pprio' \in [Procs -> Int]
  BY <1>3, ConstFacts DEF TabOK
<1>5. SchedOKNext /\ SemKept /\ ClkKept
  <2>1. CASE pstate[pid] = "PRREADY"
    <3> DEFINE rq == Requeue(pid, newprio)
               k  == [qkey EXCEPT ![pid] = newprio]
    <3> USE DEF SchedOKNow, SchedOK
    <3>1. pid \in ReadyIn(pstate)
      BY <1>2, <2>1 DEF ReadyIn
    <3>2. /\ Dequeue(rdyq, pid) \in Seq(Procs)
          /\ Holds(Dequeue(rdyq, pid), ReadyIn(pstate) \ {pid})
      BY <1>1, <3>1, DequeueHolds
    <3>3. newprio \in Int /\ pid \notin ReadyIn(pstate) \ {pid}
      BY <1>2, ConstFacts
    <3>4. rq \in Seq(Procs) /\ Holds(rq, (ReadyIn(pstate) \ {pid}) \cup {pid})
      BY <1>1, <1>2, <3>2, <3>3, InsertHolds DEF Requeue
    <3>5. (ReadyIn(pstate) \ {pid}) \cup {pid} = ReadyIn(pstate)
      BY <3>1
    <3>6. k \in [Procs -> Int]
      BY <1>1, <3>3
    <3>7. /\ k[pid] = newprio
          /\ \A p \in Procs \ {pid} : k[p] = qkey[p]
      BY <1>1, <1>2
    <3>8. \/ Resched(pstate, rq, k, pprio', preempt)
          \/ rdyq' = rq /\ qkey' = k /\ UNCHANGED <<pstate, currpid, preempt>>
      BY <2>1 DEF ChPrio
    <3> HIDE DEF rq, k
    <3>9. CASE Resched(pstate, rq, k, pprio', preempt)
      <4>1. BeforeResched(pstate, rq, k, preempt) /\ currpid \in Procs
        BY <1>1, <3>4, <3>5, <3>6 DEF BeforeResched
      <4>2. SchedOKNext /\ OthersKept(pstate, k, pstate', qkey')
        BY <1>4, <3>9, <4>1, ReschedOK DEF SchedOKNext
      <4>3. \A p \in Procs \ {pid} : Kept(p)
        BY <3>7, <4>2 DEF OthersKept, Kept
      <4>4. pstate'[pid] \in Runnable
        BY <1>2, <2>1, <4>2 DEF OthersKept, Runnable
      <4> QED BY <2>1, <4>2, <4>3, <4>4, KeptIsEnough DEF Runnable
    <3>10. CASE rdyq' = rq /\ qkey' = k /\ UNCHANGED <<pstate, currpid, preempt>>
      <4>1. SchedOKNext
        BY <1>1, <3>4, <3>5, <3>6, <3>10 DEF SchedOKNext
      <4>2. SemKept /\ ClkKept
        BY <2>1, <3>7, <3>10 DEF SemKept, ClkKept
      <4> QED BY <4>1, <4>2
    <3> QED BY <3>8, <3>9, <3>10
  <2>2. CASE Resched(pstate, rdyq, qkey, pprio', preempt)
    <3>1. SchedOKNext /\ \A p \in Procs : Kept(p)
      BY <1>1, <1>4, <2>2, YieldStep DEF SchedOKNow, SchedOK
    <3> QED BY <3>1 DEF Kept, Runnable, SemKept, ClkKept
  <2>3. CASE UNCHANGED schedVars
    BY <1>1, <2>3 DEF schedVars, SchedOKNow, SchedOKNext, SemKept, ClkKept
  <2> QED BY <2>1, <2>2, <2>3 DEF ChPrio
<1> QED BY <1>1, <1>2, <1>3, <1>5, QuietStep

-----------------------------------------------------------------------------
(* send, receive, recvclr.                                                 *)

LEMMA SendStep ==
    ASSUME IInv, NEW pid \in PidArgs, NEW msg \in Msgs, Send(pid, msg),
           UNCHANGED <<semVars, clkVars>>
    PROVE  IInv'
<1>1. TabOK /\ SchedOKNow /\ Interruptible
  BY CallFacts, OutOfKernelFacts DEF Send
<1>2. pid \in Procs /\ UNCHANGED <<tabVars, kctx, uctx>>
  BY ConstFacts DEF Send, isbadpid, PidArgs, Procs, NULLPROC
<1>3. TabOK'
  BY <1>1, <1>2 DEF TabOK, tabVars
<1>4. MsgTypeOK'
  BY <1>2 DEF Send, IInv, MsgTypeOK
<1>5. SchedOKNext /\ SemKept /\ ClkKept
  <2>1. CASE pstate[pid] = "PRRECV" /\ Ready(pid)
    <3>1. /\ SchedOKNext /\ pstate'[pid] \in Runnable
          /\ \A p \in Procs \ {pid} : Kept(p)
      BY <1>1, <1>2, <2>1, PprioInt, ReadyStep DEF Runnable
    <3> QED BY <2>1, <3>1, KeptIsEnough DEF Runnable
  <2>2. CASE UNCHANGED schedVars
    BY <1>1, <2>2 DEF schedVars, SchedOKNow, SchedOKNext, SemKept, ClkKept
  <2> QED BY <2>1, <2>2 DEF Send
<1> QED BY <1>1, <1>2, <1>3, <1>4, <1>5, QuietStep DEF tabVars

LEMMA ReceiveStep ==
    ASSUME IInv, Receive, UNCHANGED <<semVars, clkVars>>
    PROVE  IInv'
<1>1. /\ TabOK /\ SchedOKNow /\ Op = "none" /\ exited = FALSE
      /\ currpid # NULLPROC /\ currpid \in Procs
      /\ \A p \in Procs : kctx[p].op \in Resumable
  BY CallFacts, OutOfKernelFacts DEF Receive
<1>2. /\ kctx' \in [Procs -> [op : KernelOps, arg : Int, n : Int]]
      /\ kctx'[currpid].op = "receive"
      /\ \A p \in Procs \ {currpid} : kctx'[p] = kctx[p]
  BY <1>1, EnterFacts DEF Receive, KernelOps
<1>3. TabOK' /\ exited' = FALSE /\ NullOnlyRuns' /\ MsgTypeOK'
  BY <1>1, <1>2, TabKept, NullKept, MsgFrame DEF Receive, tabVars
<1>4. \A p \in Procs : kctx'[p].op \in Resumable
  BY <1>1, <1>2 DEF Resumable
<1>5. SchedOKNext /\ SemKept /\ ClkKept
  <2>1. CASE UNCHANGED schedVars
    BY <1>1, <2>1 DEF schedVars, SchedOKNow, SchedOKNext, SemKept, ClkKept
  <2>2. CASE Block("PRRECV")
    BY <1>1, <2>2, PprioInt, BlockedKept DEF States
  <2> QED BY <2>1, <2>2 DEF Receive
<1> QED BY <1>1, <1>3, <1>4, <1>5, PlainStep DEF SemDrains, ClkDrains

LEMMA ReceiveEndStep ==
    ASSUME IInv, ReceiveEnd, UNCHANGED <<semVars, clkVars>>
    PROVE  IInv'
<1>1. /\ TabOK /\ SchedOKNow /\ Op = "receive" /\ exited = FALSE
      /\ currpid \in Procs
      /\ \A p \in Procs \ {currpid} : kctx[p].op \in Resumable
  BY SectionFacts DEF ReceiveEnd
<1>2. /\ kctx' \in [Procs -> [op : KernelOps, arg : Int, n : Int]]
      /\ \A p \in Procs : kctx'[p].op \in Resumable
  BY <1>1, LeaveFacts DEF ReceiveEnd
<1>3. TabOK' /\ exited' = FALSE /\ NullOnlyRuns'
  BY <1>1, <1>2, TabKept, NullKept DEF ReceiveEnd, tabVars
<1>4. MsgTypeOK'
  BY <1>1 DEF ReceiveEnd, IInv, MsgTypeOK
<1>5. SchedOKNext /\ SemKept /\ ClkKept
  BY <1>1 DEF ReceiveEnd, schedVars, SchedOKNow, SchedOKNext, SemKept, ClkKept
<1> QED BY <1>1, <1>2, <1>3, <1>4, <1>5, PlainStep DEF SemDrains, ClkDrains

LEMMA RecvClrStep ==
    ASSUME IInv, RecvClr, UNCHANGED <<semVars, clkVars>>
    PROVE  IInv'
<1>1. TabOK /\ SchedOKNow /\ Interruptible
  BY CallFacts, OutOfKernelFacts DEF RecvClr
<1>2. MsgTypeOK'
  BY DEF RecvClr, IInv, MsgTypeOK
<1>3. TabOK' /\ SchedOKNext /\ SemKept /\ ClkKept
  BY <1>1 DEF RecvClr, procVars, TabOK, SchedOKNow, SchedOKNext, SemKept, ClkKept
<1> QED BY <1>1, <1>2, <1>3, QuietStep DEF RecvClr, procVars

-----------------------------------------------------------------------------
(* Semaphores.                                                             *)

LEMMA SCreateBodyStep ==
    ASSUME IInv, Interruptible, NEW count \in Int, count <= MaxCount,
           SCreateBody(count), UNCHANGED <<msgVars, clkVars>>
    PROVE  IInv'
<1>1. /\ TabOK /\ SchedOKNow /\ Op = "none" /\ SemInv /\ SchedInv /\ ClkInv
  BY OutOfKernelFacts DEF IInv
<1>2. CASE SemError
  BY <1>1, <1>2, ExitStep DEF SemError
<1>3. CASE /\ count >= 0
           /\ \E s \in Sems :
                 /\ IsNewSem(s)
                 /\ sstate' = [sstate EXCEPT ![s] = "SUSED"]
                 /\ semcnt' = [semcnt EXCEPT ![s] = count]
                 /\ nextsem' = NextSemAfter(s)
           /\ UNCHANGED <<procVars, semq, psem>>
  <2>1. SchedInv' /\ MsgTypeOK' /\ ClkKept /\ Op' = "none"
    BY <1>1, <1>3, SchedInvParts, MsgFrame
       DEF procVars, TabOK, SchedOKNow, SchedOKNext, NullOnlyRuns,
           SwitchedOutCleanly, OutOfKernelAtExit, ClkKept, Op
  <2>2. ClkInv'
    BY <1>1, <2>1, ClkFrame DEF ClkDrains
  <2>3. PICK s \in Sems : /\ sstate[s] = "SFREE"
                          /\ sstate' = [sstate EXCEPT ![s] = "SUSED"]
                          /\ semcnt' = [semcnt EXCEPT ![s] = count]
                          /\ nextsem' = NextSemAfter(s)
    BY <1>3 DEF IsNewSem
  <2>4. count \in Nat /\ count <= MaxCount
    BY <1>3
  <2>5. nextsem' \in Sems
    BY <2>3, ConstFacts DEF NextSemAfter, Sems
  <2>6. SemTypeOK'
    BY <1>1, <1>3, <2>3, <2>4, <2>5 DEF SemInv, SemTypeOK
  <2>7. SemQueuesAgree'
    BY <1>1, <1>3 DEF SemInv, SemQueuesAgree, WaitingOn, InState, procVars
  <2>8. SemaphoreCountOwesQueue'
    <3>1. \A t \in Sems : Len(semq[t]) = IF sstate[t] = "SUSED" /\ semcnt[t] < 0
                                         THEN -semcnt[t] ELSE 0
      BY <1>1 DEF SemInv, SemaphoreCountOwesQueue
    <3>2. \A t \in Sems : Len(semq'[t]) = IF sstate'[t] = "SUSED" /\ semcnt'[t] < 0
                                          THEN -semcnt'[t] ELSE 0
      BY <1>1, <1>3, <2>3, <2>4, <3>1 DEF SemInv, SemTypeOK
    <3> QED BY <3>2 DEF SemaphoreCountOwesQueue
  <2>9. SemSection'
    BY <2>1 DEF SemSection
  <2> QED BY <2>1, <2>2, <2>6, <2>7, <2>8, <2>9 DEF IInv, SemInv
<1> QED BY <1>2, <1>3 DEF SCreateBody

LEMMA SCreateStep ==
    ASSUME IInv, NEW count \in Int, SCreate(count), UNCHANGED <<msgVars, clkVars>>
    PROVE  IInv'
BY CallFacts, SCreateBodyStep DEF SCreate

LEMMA SDeleteStep ==
    ASSUME IInv, NEW s \in SemArgs, SDelete(s), UNCHANGED <<msgVars, clkVars>>
    PROVE  IInv'
<1>1. /\ TabOK /\ SchedOKNow /\ Op = "none" /\ exited = FALSE /\ currpid \in Procs
      /\ \A p \in Procs : kctx[p].op \in Resumable
      /\ SemInv /\ SchedInv /\ ClkInv
  BY CallFacts, OutOfKernelFacts DEF SDelete, IInv
<1>2. /\ s \in Sems /\ sstate[s] = "SUSED"
      /\ sstate' = [sstate EXCEPT ![s] = "SFREE"]
      /\ UNCHANGED <<tabVars, schedVars, uctx, semcnt, semq, psem, nextsem>>
  BY <1>1, ConstFacts DEF SDelete, SemUsed, isbadsem, SemInv, SemTypeOK, SemArgs, Sems
<1>3. /\ kctx' \in [Procs -> [op : KernelOps, arg : Int, n : Int]]
      /\ \A p \in Procs \ {currpid} : kctx'[p] = kctx[p]
      /\ \/ semq[s] = <<>> /\ Op' = "none"
         \/ semq[s] # <<>> /\ Op' = "sdelete" /\ kctx'[currpid].arg = s
  <2>1. CASE semq[s] = <<>> /\ UNCHANGED kctx
    BY <1>1, <1>2, <2>1 DEF TabOK, Op, schedVars
  <2>2. CASE semq[s] # <<>> /\ Enter("sdelete", s, 0)
    <3>1. "sdelete" \in KernelOps /\ s \in Int
      BY <1>2, ConstFacts DEF KernelOps, Sems
    <3> QED BY <1>1, <1>2, <2>2, <3>1, EnterFacts DEF Op, schedVars
  <2> QED BY <2>1, <2>2 DEF SDelete
<1>4. SchedInv'
  <2>1. SchedOKNext /\ currpid' = currpid
    BY <1>1, <1>2 DEF schedVars, SchedOKNow, SchedOKNext
  <2>2. TabOK' /\ NullOnlyRuns' /\ exited' = FALSE
    BY <1>1, <1>2, <1>3, TabKept, NullKept DEF tabVars
  <2> QED BY <1>1, <1>3, <2>1, <2>2, SchedInvAfter
<1>5. ClkInv' /\ MsgTypeOK'
  BY <1>1, <1>2, <1>3, ClkFrame, MsgFrame DEF ClkDrains, ClkKept, schedVars
<1>6. SemTypeOK' /\ SemQueuesAgree'
  BY <1>1, <1>2 DEF SemInv, SemTypeOK, SemQueuesAgree, WaitingOn, InState, schedVars
<1>7. SemaphoreCountOwesQueue'
  <2>1. \A t \in Sems : Len(semq[t]) = IF sstate[t] = "SUSED" /\ semcnt[t] < 0
                                       THEN -semcnt[t] ELSE 0
    BY <1>1 DEF SemInv, SemaphoreCountOwesQueue
  <2>2. \A t \in Sems \ {s} : sstate'[t] = sstate[t]
    BY <1>1, <1>2 DEF SemInv, SemTypeOK
  <2>3. CASE semq[s] = <<>>
    BY <1>1, <1>2, <2>1, <2>2, <2>3 DEF SemaphoreCountOwesQueue, SemInv, SemTypeOK
  <2>4. CASE semq[s] # <<>>
    <3>1. Op' = "sdelete" /\ kctx'[currpid'].arg = s
      BY <1>2, <1>3, <2>4 DEF schedVars
    <3> QED BY <1>1, <1>2, <2>1, <2>2, <3>1 DEF SemaphoreCountOwesQueue
  <2> QED BY <2>3, <2>4
<1>8. SemSection'
  BY <1>1, <1>2, <1>3 DEF SemSection, SemInv, SemTypeOK, schedVars
<1> QED BY <1>4, <1>5, <1>6, <1>7, <1>8 DEF IInv, SemInv

LEMMA ReleaseWaiterStep ==
    ASSUME IInv, ReleaseWaiter, UNCHANGED <<msgVars, clkVars>>
    PROVE  IInv'
<1> DEFINE s == kctx[currpid].arg
           w == Head(semq[s])
<1>1. PICK op \in {"sdelete", "sreset"} :
        /\ At(op)
        /\ semq[s] # <<>>
        /\ ReadyFirstWaiter(s)
        /\ UNCHANGED <<tabVars, kctx, uctx, sstate, semcnt, psem, nextsem>>
  BY DEF ReleaseWaiter
<1>2. /\ TabOK /\ SchedOKNow /\ Op = op /\ exited = FALSE /\ currpid \in Procs
      /\ \A p \in Procs \ {currpid} : kctx[p].op \in Resumable
      /\ SemInv /\ ClkInv
  BY <1>1, SectionFacts DEF IInv
<1>3. s \in Sems
  BY <1>2 DEF SemInv, SemSection
<1>4. /\ w \in Procs /\ pstate[w] = "PRWAIT" /\ psem[w] = s
      /\ Tail(semq[s]) \in Seq(Procs)
      /\ Holds(Tail(semq[s]), WaitingOn(s) \ {w})
  BY <1>1, <1>2, <1>3, FirstWaiter
<1>5. /\ SchedOKNext /\ pstate'[w] = "PRREADY" /\ currpid' = currpid
      /\ \A p \in Procs \ {w} : Kept(p)
  BY <1>1, <1>2, <1>4, PprioInt, ReadyNoReschedStep DEF ReadyFirstWaiter, Runnable
<1>6. semq' = [semq EXCEPT ![s] = Tail(semq[s])] /\ Op' = Op
  BY <1>1, <1>5 DEF ReadyFirstWaiter, Op
<1> HIDE DEF s, w
<1>7. SemKeptBut(w) /\ ClkKept
  BY <1>4, <1>5, KeptBut, ButIsEnough
<1>8. SchedInv'
  <2>1. TabOK' /\ NullOnlyRuns' /\ exited' = FALSE
    BY <1>1, <1>2, NullKept DEF TabOK, tabVars
  <2> QED BY <1>1, <1>2, <1>5, <2>1, SchedInvAfter
<1>9. ClkInv' /\ MsgTypeOK'
  BY <1>1, <1>2, <1>6, <1>7, ClkFrame, MsgFrame DEF ClkDrains
<1>10. SemTypeOK' /\ SemQueuesAgree'
  <2>1. SemQueuesAgree' /\ semq' \in [Sems -> Seq(Procs)]
    BY <1>1, <1>2, <1>3, <1>4, <1>5, <1>6, <1>7, WaiterLeaves
  <2> QED BY <1>1, <1>2, <2>1 DEF SemInv, SemTypeOK
<1>11. SemaphoreCountOwesQueue'
  <2>1. \A t \in Sems \ {s} :
            Len(semq[t]) = IF sstate[t] = "SUSED" /\ semcnt[t] < 0
                           THEN -semcnt[t] ELSE 0
    BY <1>2 DEF SemInv, SemaphoreCountOwesQueue, s
  <2>2. \A t \in Sems \ {s} : semq'[t] = semq[t]
    BY <1>2, <1>6 DEF SemInv, SemTypeOK
  <2>3. Op' \in {"sdelete", "sreset"} /\ kctx'[currpid'].arg = s
    BY <1>1, <1>2, <1>5, <1>6 DEF s
  <2> QED BY <1>1, <2>1, <2>2, <2>3 DEF SemaphoreCountOwesQueue
<1>12. SemSection'
  BY <1>1, <1>2, <1>5, <1>6 DEF SemInv, SemSection, s
<1> QED BY <1>8, <1>9, <1>10, <1>11, <1>12 DEF IInv, SemInv

(* The end of a call: leave the kernel and resched.                        *)
LEMMA LeaveYield ==
    ASSUME IInv, NEW op, At(op), Leave, UNCHANGED <<tabVars, uctx>>,
           NEW left \in -1 .. QUANTUM,
           \/ Resched(pstate, rdyq, qkey, pprio, left)
           \/ preempt' = left /\ UNCHANGED <<pstate, rdyq, qkey, currpid>>
    PROVE  SchedInv' /\ SemKept /\ ClkKept /\ Op' \in Resumable
<1>1. /\ TabOK /\ SchedOKNow /\ exited = FALSE /\ currpid \in Procs
      /\ \A p \in Procs \ {currpid} : kctx[p].op \in Resumable
  BY SectionFacts
<1>2. /\ kctx' \in [Procs -> [op : KernelOps, arg : Int, n : Int]]
      /\ \A p \in Procs : kctx'[p].op \in Resumable
  BY <1>1, LeaveFacts
<1>3. TabOK' /\ NullOnlyRuns' /\ exited' = FALSE
  BY <1>1, <1>2, TabKept, NullKept DEF tabVars
<1>4. SchedOKNext /\ SemKept /\ ClkKept
  <2>1. CASE Resched(pstate, rdyq, qkey, pprio, left)
    <3>1. SchedOKNext /\ \A p \in Procs : Kept(p)
      BY <1>1, <2>1, PprioInt, YieldStep
    <3> QED BY <3>1 DEF Kept, Runnable, SemKept, ClkKept
  <2>2. CASE preempt' = left /\ UNCHANGED <<pstate, rdyq, qkey, currpid>>
    BY <1>1, <2>2 DEF SchedOKNow, SchedOKNext, SchedOK, SemKept, ClkKept
  <2> QED BY <2>1, <2>2
<1>5. SchedInv'
  BY <1>2, <1>3, <1>4, SchedInvAfter
<1>6. currpid' \in Procs
  BY <1>4 DEF SchedOKNext, SchedOK
<1> QED BY <1>2, <1>4, <1>5, <1>6 DEF Op

LEMMA PreemptType == ASSUME IInv PROVE preempt \in -1 .. QUANTUM
BY SchedInvParts DEF IInv, SchedOKNow, SchedOK

(* Semaphores whose counts owe their queues nothing in the middle of a     *)
(* drain still do when the drained queue is empty.                         *)
LEMMA SDeleteEndStep ==
    ASSUME IInv, SDeleteEnd, UNCHANGED <<msgVars, clkVars>>
    PROVE  IInv'
<1>1. SchedInv' /\ SemKept /\ ClkKept /\ Op' \in Resumable
  BY LeaveYield, PreemptType DEF SDeleteEnd, Yield
<1>2. Op = "sdelete" /\ SemInv /\ ClkInv
  BY SectionFacts DEF SDeleteEnd, IInv
<1>3. ClkInv' /\ MsgTypeOK'
  BY <1>1, <1>2, ClkFrame, MsgFrame DEF ClkDrains, Resumable
<1>4. SemTypeOK' /\ SemQueuesAgree' /\ SemSection'
  BY <1>1, <1>2 DEF SDeleteEnd, semVars, SemInv, SemTypeOK, SemQueuesAgree,
                    SemSection, WaitingOn, InState, SemKept, Resumable
<1>5. SemaphoreCountOwesQueue'
  <2> DEFINE s == kctx[currpid].arg
  <2>1. sstate[s] = "SFREE" /\ Len(semq[s]) = 0
    BY <1>2 DEF SemInv, SemSection, SDeleteEnd
  <2>2. \A t \in Sems \ {s} :
            Len(semq[t]) = IF sstate[t] = "SUSED" /\ semcnt[t] < 0
                           THEN -semcnt[t] ELSE 0
    BY <1>2 DEF SemInv, SemaphoreCountOwesQueue
  <2>3. UNCHANGED semVars
    BY DEF SDeleteEnd
  <2> QED BY <2>1, <2>2, <2>3 DEF SemaphoreCountOwesQueue, semVars
<1> QED BY <1>1, <1>3, <1>4, <1>5 DEF IInv, SemInv

LEMMA SResetStep ==
    ASSUME IInv, NEW s \in SemArgs, NEW count \in Counts, SReset(s, count),
           UNCHANGED <<msgVars, clkVars>>
    PROVE  IInv'
<1>1. /\ TabOK /\ SchedOKNow /\ Interruptible /\ Op = "none" /\ exited = FALSE
      /\ currpid \in Procs
      /\ \A p \in Procs : kctx[p].op \in Resumable
      /\ SemInv /\ ClkInv
  BY CallFacts, OutOfKernelFacts DEF SReset, IInv
<1>2. CASE SemError
  BY <1>1, <1>2, ExitStep DEF SemError
<1>3. CASE /\ SemUsed(s) /\ count >= 0
           /\ Enter("sreset", s, count)
           /\ UNCHANGED <<tabVars, schedVars, uctx, semVars>>
  <2>1. s \in Sems /\ sstate[s] = "SUSED"
    BY <1>1, <1>3, ConstFacts DEF SemUsed, isbadsem, SemInv, SemTypeOK, SemArgs, Sems
  <2>2. count \in 0 .. MaxCount /\ count \in Int /\ s \in Int
    BY <1>3, <2>1, SemaphoresAssumption DEF SReset, Sems
  <2>3. /\ kctx' \in [Procs -> [op : KernelOps, arg : Int, n : Int]]
        /\ Op' = "sreset" /\ kctx'[currpid].arg = s /\ kctx'[currpid].n = count
        /\ \A p \in Procs \ {currpid} : kctx'[p] = kctx[p]
        /\ currpid' = currpid
    BY <1>1, <1>3, <2>2, EnterFacts DEF KernelOps, Op, schedVars
  <2>4. SchedInv'
    <3>1. SchedOKNext /\ TabOK' /\ NullOnlyRuns' /\ exited' = FALSE
      BY <1>1, <1>3, <2>3, TabKept, NullKept
         DEF schedVars, SchedOKNow, SchedOKNext, tabVars
    <3> QED BY <1>1, <2>3, <3>1, SchedInvAfter
  <2>5. ClkInv' /\ MsgTypeOK'
    BY <1>1, <1>3, <2>3, ClkFrame, MsgFrame DEF ClkDrains, ClkKept, schedVars
  <2>6. SemTypeOK' /\ SemQueuesAgree'
    BY <1>1, <1>3 DEF SemInv, SemTypeOK, SemQueuesAgree, WaitingOn, InState,
                      schedVars, semVars
  <2>7. SemaphoreCountOwesQueue'
    BY <1>1, <1>3 DEF SemInv, SemaphoreCountOwesQueue, semVars
  <2>8. SemSection'
    BY <1>1, <1>3, <2>1, <2>2, <2>3 DEF SemSection, semVars
  <2> QED BY <2>4, <2>5, <2>6, <2>7, <2>8 DEF IInv, SemInv
<1> QED BY <1>2, <1>3 DEF SReset

LEMMA SResetEndStep ==
    ASSUME IInv, SResetEnd, UNCHANGED <<msgVars, clkVars>>
    PROVE  IInv'
<1> DEFINE s == kctx[currpid].arg
           n == kctx[currpid].n
<1>1. SchedInv' /\ SemKept /\ ClkKept /\ Op' \in Resumable
  BY LeaveYield, PreemptType DEF SResetEnd, Yield
<1>2. Op = "sreset" /\ SemInv /\ ClkInv
  BY SectionFacts DEF SResetEnd, IInv
<1>3. ClkInv' /\ MsgTypeOK'
  BY <1>1, <1>2, ClkFrame, MsgFrame DEF ClkDrains, Resumable
<1>4. s \in Sems /\ n \in 0 .. MaxCount
  BY <1>2 DEF SemInv, SemSection
<1>5. /\ semq[s] = <<>> /\ semcnt' = [semcnt EXCEPT ![s] = n]
      /\ UNCHANGED <<sstate, semq, psem, nextsem>>
  BY DEF SResetEnd
<1> HIDE DEF s, n
<1>6. SemTypeOK' /\ SemQueuesAgree' /\ SemSection'
  <2>1. SemTypeOK'
    BY <1>2, <1>4, <1>5, ConstFacts DEF SemInv, SemTypeOK
  <2>2. SemQueuesAgree'
    BY <1>1, <1>2, <1>5 DEF SemInv, SemQueuesAgree, WaitingOn, InState, SemKept
  <2> QED BY <1>1, <2>1, <2>2 DEF SemSection, Resumable
<1>7. SemaphoreCountOwesQueue'
  <2>1. Len(semq[s]) = 0
    BY <1>5
  <2>2. semcnt'[s] = n /\ \A t \in Sems \ {s} : semcnt'[t] = semcnt[t]
    BY <1>2, <1>4, <1>5 DEF SemInv, SemTypeOK
  <2>3. \A t \in Sems \ {s} :
            Len(semq[t]) = IF sstate[t] = "SUSED" /\ semcnt[t] < 0
                           THEN -semcnt[t] ELSE 0
    BY <1>2 DEF SemInv, SemaphoreCountOwesQueue, s
  <2> QED BY <1>4, <1>5, <2>1, <2>2, <2>3 DEF SemaphoreCountOwesQueue
<1> QED BY <1>1, <1>3, <1>6, <1>7 DEF IInv, SemInv

LEMMA WaitStep ==
    ASSUME IInv, NEW s \in SemArgs, Wait(s), UNCHANGED <<msgVars, clkVars>>
    PROVE  IInv'
<1>1. /\ TabOK /\ SchedOKNow /\ Interruptible /\ Op = "none" /\ exited = FALSE
      /\ currpid \in Procs /\ currpid # NULLPROC /\ pstate[currpid] = "PRCURR"
      /\ \A p \in Procs : kctx[p].op \in Resumable
      /\ SemInv /\ ClkInv
  BY CallFacts, OutOfKernelFacts DEF Wait, IInv
<1>2. CASE ~SemUsed(s) /\ SemError
  BY <1>1, <1>2, ExitStep DEF SemError
<1>3. CASE SemUsed(s)
  <2>1. s \in Sems /\ sstate[s] = "SUSED"
    BY <1>1, <1>3, ConstFacts DEF SemUsed, isbadsem, SemInv, SemTypeOK, SemArgs, Sems
  <2>2. /\ semcnt' = [semcnt EXCEPT ![s] = semcnt[s] - 1]
        /\ UNCHANGED <<tabVars, kctx, uctx, sstate, nextsem>>
    BY <1>1, <1>3 DEF Wait, SemError, HandleError
  <2>3. /\ semcnt'[s] = semcnt[s] - 1
        /\ \A t \in Sems \ {s} : semcnt'[t] = semcnt[t]
        /\ semcnt \in [Sems -> Int] /\ semcnt'[s] \in Int
        /\ semcnt' \in [Sems -> {n \in Int : n <= MaxCount}]
    BY <1>1, <2>1, <2>2, ConstFacts DEF SemInv, SemTypeOK
  <2>4. \A t \in Sems : Len(semq[t]) = IF sstate[t] = "SUSED" /\ semcnt[t] < 0
                                       THEN -semcnt[t] ELSE 0
    BY <1>1 DEF SemInv, SemaphoreCountOwesQueue
  <2>5. TabOK' /\ NullOnlyRuns' /\ exited' = FALSE /\ MsgTypeOK'
    BY <1>1, <2>2, NullKept, MsgFrame DEF TabOK, tabVars
  <2>6. CASE semcnt'[s] < 0
    <3>1. /\ psem' = [psem EXCEPT ![currpid] = s]
          /\ semq' = [semq EXCEPT ![s] = Append(semq[s], currpid)]
          /\ Block("PRWAIT")
      BY <1>1, <1>3, <2>3, <2>6 DEF Wait, SemError, HandleError
    <3>2. /\ SchedOKNext /\ pstate'[currpid] = "PRWAIT"
          /\ \A p \in Procs \ {currpid} :
                /\ pstate[p] \in Runnable <=> pstate'[p] \in Runnable
                /\ pstate[p] \notin Runnable =>
                      pstate'[p] = pstate[p] /\ qkey'[p] = qkey[p]
      <4>1. qkey \in [Procs -> Int]
        BY <1>1 DEF SchedOKNow, SchedOK
      <4> QED BY <1>1, <3>1, <4>1, PprioInt, BlockStep DEF Block, Runnable, States
    <3>3. /\ \A p \in Procs \ {currpid} : pstate'[p] = "PRWAIT" <=> pstate[p] = "PRWAIT"
          /\ ClkKept
      BY <1>1, <3>2 DEF Runnable, ClkKept
    <3>4. currpid' \in Procs /\ Op' \in Resumable
      BY <1>1, <2>2, <3>2 DEF SchedOKNext, SchedOK, Op
    <3>5. SchedInv'
      BY <1>1, <2>2, <2>5, <3>2, SchedInvAfter
    <3>6. ClkInv'
      BY <1>1, <3>3, <3>4, ClkFrame DEF ClkDrains, Resumable
    <3>7. /\ semq[s] \in Seq(Procs) /\ Holds(semq[s], WaitingOn(s))
          /\ currpid \notin WaitingOn(s)
      BY <1>1, <2>1 DEF SemInv, SemTypeOK, SemQueuesAgree, WaitingOn, InState
    <3>8. /\ Append(semq[s], currpid) \in Seq(Procs)
          /\ Len(Append(semq[s], currpid)) = Len(semq[s]) + 1
          /\ Holds(Append(semq[s], currpid), WaitingOn(s) \cup {currpid})
      BY <1>1, <3>7, AppendHolds
    <3>9. /\ WaitingOn(s)' = WaitingOn(s) \cup {currpid}
          /\ \A t \in Sems \ {s} : WaitingOn(t)' = WaitingOn(t)
      BY <1>1, <2>1, <3>1, <3>2, <3>3 DEF WaitingOn, InState, SemInv, SemTypeOK
    <3>10. /\ semq'[s] = Append(semq[s], currpid)
           /\ \A t \in Sems \ {s} : semq'[t] = semq[t]
      BY <1>1, <2>1, <3>1 DEF SemInv, SemTypeOK
    <3>11. SemTypeOK'
      BY <1>1, <2>1, <2>2, <2>3, <3>1, <3>8 DEF SemInv, SemTypeOK
    <3>12. SemQueuesAgree'
      BY <1>1, <3>8, <3>9, <3>10 DEF SemInv, SemQueuesAgree
    <3>13. SemaphoreCountOwesQueue'
      BY <2>1, <2>2, <2>3, <2>4, <2>6, <3>8, <3>10 DEF SemaphoreCountOwesQueue
    <3>14. SemSection'
      BY <3>4 DEF SemSection, Resumable
    <3> QED BY <2>5, <3>5, <3>6, <3>11, <3>12, <3>13, <3>14 DEF IInv, SemInv
  <2>7. CASE semcnt'[s] >= 0
    <3>1. UNCHANGED <<schedVars, semq, psem>>
      BY <1>1, <1>3, <2>3, <2>7 DEF Wait, SemError, HandleError
    <3>2. SchedOKNext /\ currpid' = currpid /\ Op' = "none" /\ ClkKept
      BY <1>1, <2>2, <3>1 DEF schedVars, SchedOKNow, SchedOKNext, Op, ClkKept
    <3>3. SchedInv' /\ ClkInv'
      BY <1>1, <2>2, <2>5, <3>2, SchedInvAfter, ClkFrame DEF ClkDrains
    <3>4. SemTypeOK' /\ SemQueuesAgree' /\ SemSection'
      BY <1>1, <2>2, <2>3, <3>1, <3>2
         DEF SemInv, SemTypeOK, SemQueuesAgree, SemSection, WaitingOn, InState, schedVars
    <3>5. SemaphoreCountOwesQueue'
      BY <2>1, <2>2, <2>3, <2>4, <2>7, <3>1 DEF SemaphoreCountOwesQueue
    <3> QED BY <2>5, <3>3, <3>4, <3>5 DEF IInv, SemInv
  <2> QED BY <2>3, <2>6, <2>7
<1> QED BY <1>2, <1>3 DEF Wait

(* A negative count means that somebody waits: signal's getfirst finds him.*)
LEMMA SomebodyWaits ==
    ASSUME SemInv, Op \notin SemDrains, NEW s \in Sems, sstate[s] = "SUSED",
           semcnt[s] < 0
    PROVE  semq[s] # <<>>
<1>1. Len(semq[s]) = -semcnt[s] /\ semcnt[s] \in Int
  BY DEF SemInv, SemaphoreCountOwesQueue, SemDrains, SemTypeOK
<1>2. Len(semq[s]) # 0
  BY <1>1
<1> QED BY <1>2

(* A count goes up by one and the first waiter, if there is one, goes.     *)
LEMMA Signalled ==
    ASSUME SemInv, NEW s \in Sems, sstate[s] = "SUSED", semcnt[s] < MaxCount,
           Op \notin SemDrains,
           semcnt' = [semcnt EXCEPT ![s] = semcnt[s] + 1],
           UNCHANGED <<sstate, psem, nextsem>>,
           \/ /\ semcnt[s] < 0
              /\ semq' = [semq EXCEPT ![s] = Tail(semq[s])]
              /\ pstate'[Head(semq[s])] # "PRWAIT" /\ SemKeptBut(Head(semq[s]))
           \/ /\ semcnt[s] >= 0
              /\ semq' = semq /\ SemKept
    PROVE  SemTypeOK' /\ SemQueuesAgree' /\ SemaphoreCountOwesQueue'
<1>1. /\ semcnt'[s] = semcnt[s] + 1 /\ semcnt[s] \in Int
      /\ \A t \in Sems \ {s} : semcnt'[t] = semcnt[t]
      /\ semcnt' \in [Sems -> {n \in Int : n <= MaxCount}]
  BY ConstFacts DEF SemInv, SemTypeOK
<1>2. \A t \in Sems : Len(semq[t]) = IF sstate[t] = "SUSED" /\ semcnt[t] < 0
                                     THEN -semcnt[t] ELSE 0
  BY DEF SemInv, SemaphoreCountOwesQueue, SemDrains
<1>3. CASE semcnt[s] < 0
  <2> DEFINE w == Head(semq[s])
             nq == Tail(semq[s])
  <2>1. /\ w \in Procs /\ pstate[w] = "PRWAIT" /\ psem[w] = s
        /\ nq \in Seq(Procs) /\ Len(nq) = Len(semq[s]) - 1
        /\ Holds(nq, WaitingOn(s) \ {w})
    BY <1>3, SomebodyWaits, FirstWaiter
  <2>2. semq' = [semq EXCEPT ![s] = nq] /\ pstate'[w] # "PRWAIT" /\ SemKeptBut(w)
    BY <1>1, <1>3
  <2> HIDE DEF w, nq
  <2>3. SemQueuesAgree' /\ semq' \in [Sems -> Seq(Procs)]
    BY <2>1, <2>2, WaiterLeaves
  <2>4. SemTypeOK'
    BY <1>1, <2>3 DEF SemInv, SemTypeOK
  <2>5. semq'[s] = nq /\ \A t \in Sems \ {s} : semq'[t] = semq[t]
    BY <2>2 DEF SemInv, SemTypeOK
  <2>6. SemaphoreCountOwesQueue'
    BY <1>1, <1>2, <1>3, <2>1, <2>5 DEF SemaphoreCountOwesQueue
  <2> QED BY <2>3, <2>4, <2>6
<1>4. CASE semcnt[s] >= 0
  <2>1. semq' = semq /\ SemKept
    BY <1>1, <1>4
  <2>2. SemTypeOK' /\ SemQueuesAgree'
    <3>1. SemTypeOK'
      BY <1>1, <2>1 DEF SemInv, SemTypeOK
    <3>2. \A t \in Sems : WaitingOn(t)' = WaitingOn(t)
      BY <2>1 DEF WaitingOn, InState, SemKept
    <3> QED BY <2>1, <3>1, <3>2 DEF SemInv, SemQueuesAgree
  <2>3. SemaphoreCountOwesQueue'
    BY <1>1, <1>2, <1>4, <2>1 DEF SemaphoreCountOwesQueue
  <2> QED BY <2>2, <2>3
<1> QED BY <1>1, <1>3, <1>4

LEMMA SignalBodyStep ==
    ASSUME IInv, Interruptible, NEW s \in SemArgs, SignalBody(s),
           UNCHANGED <<msgVars, clkVars>>
    PROVE  IInv'
<1>1. /\ TabOK /\ SchedOKNow /\ Op = "none" /\ exited = FALSE
      /\ \A p \in Procs : kctx[p].op \in Resumable
      /\ SemInv /\ ClkInv
  BY OutOfKernelFacts DEF IInv
<1>2. CASE SemError
  BY <1>1, <1>2, ExitStep DEF SemError
<1>3. CASE /\ SemUsed(s)
           /\ semcnt[s] < MaxCount
           /\ semcnt' = [semcnt EXCEPT ![s] = @ + 1]
           /\ \/ /\ semcnt[s] < 0
                 /\ semq' = [semq EXCEPT ![s] = Tail(@)]
                 /\ Ready(Head(semq[s]))
              \/ /\ semcnt[s] >= 0
                 /\ UNCHANGED <<schedVars, semq>>
           /\ UNCHANGED <<tabVars, kctx, uctx, sstate, psem, nextsem>>
  <2> DEFINE w == Head(semq[s])
  <2>1. s \in Sems /\ sstate[s] = "SUSED"
    BY <1>1, <1>3, ConstFacts DEF SemUsed, isbadsem, SemInv, SemTypeOK, SemArgs, Sems
  <2>2. TabOK' /\ NullOnlyRuns' /\ exited' = FALSE /\ MsgTypeOK'
    BY <1>1, <1>3, NullKept, MsgFrame DEF TabOK, tabVars
  <2>3. /\ SchedOKNext /\ ClkKept
        /\ \/ /\ semcnt[s] < 0
              /\ semq' = [semq EXCEPT ![s] = Tail(semq[s])]
              /\ pstate'[w] # "PRWAIT" /\ SemKeptBut(w)
           \/ /\ semcnt[s] >= 0
              /\ semq' = semq /\ SemKept
    <3>1. CASE /\ semcnt[s] < 0
               /\ semq' = [semq EXCEPT ![s] = Tail(semq[s])]
               /\ Ready(w)
      <4>1. w \in Procs /\ pstate[w] = "PRWAIT"
        BY <1>1, <2>1, <3>1, SomebodyWaits, FirstWaiter DEF SemDrains
      <4> HIDE DEF w
      <4>2. /\ SchedOKNext /\ pstate'[w] \in Runnable
            /\ \A p \in Procs \ {w} : Kept(p)
        BY <1>1, <3>1, <4>1, PprioInt, ReadyStep DEF Runnable
      <4>3. pstate'[w] # "PRWAIT" /\ SemKeptBut(w) /\ ClkKept
        BY <4>1, <4>2, KeptBut, ButIsEnough DEF Runnable
      <4> QED BY <3>1, <4>2, <4>3
    <3>2. CASE semcnt[s] >= 0 /\ UNCHANGED <<schedVars, semq>>
      BY <1>1, <3>2 DEF schedVars, SchedOKNow, SchedOKNext, SemKept, ClkKept
    <3> QED BY <1>3, <3>1, <3>2
  <2> HIDE DEF w
  <2>4. currpid' \in Procs /\ Op' \in Resumable
    BY <1>1, <1>3, <2>3 DEF SchedOKNext, SchedOK, Op
  <2>5. SchedInv'
    BY <1>1, <1>3, <2>2, <2>3, SchedInvAfter
  <2>6. ClkInv'
    BY <1>1, <2>3, <2>4, ClkFrame DEF ClkDrains, Resumable
  <2>7. SemTypeOK' /\ SemQueuesAgree' /\ SemaphoreCountOwesQueue'
    BY <1>1, <1>3, <2>1, <2>3, Signalled DEF SemDrains, w
  <2>8. SemSection'
    BY <2>4 DEF SemSection, Resumable
  <2> QED BY <2>2, <2>5, <2>6, <2>7, <2>8 DEF IInv, SemInv
<1> QED BY <1>2, <1>3 DEF SignalBody

LEMMA SignalNBodyStep ==
    ASSUME IInv, Interruptible, NEW s \in SemArgs, NEW count \in Counts,
           SignalNBody(s, count), UNCHANGED <<msgVars, clkVars>>
    PROVE  IInv'
<1>1. /\ TabOK /\ SchedOKNow /\ Op = "none" /\ exited = FALSE
      /\ currpid \in Procs
      /\ \A p \in Procs : kctx[p].op \in Resumable
      /\ SemInv /\ ClkInv
  BY OutOfKernelFacts DEF IInv, SchedOKNow, SchedOK
<1>2. CASE SemError
  BY <1>1, <1>2, ExitStep DEF SemError
<1>3. CASE /\ SemUsed(s) /\ count > 0
           /\ semcnt[s] + count <= MaxCount
           /\ Enter("signaln", s, count)
           /\ UNCHANGED <<tabVars, schedVars, uctx, semVars>>
  <2>1. s \in Sems /\ sstate[s] = "SUSED" /\ s \in Int
    BY <1>1, <1>3, ConstFacts DEF SemUsed, isbadsem, SemInv, SemTypeOK, SemArgs, Sems
  <2>2. count \in Nat /\ count \in Int
    BY <1>3, SemaphoresAssumption
  <2>3. /\ kctx' \in [Procs -> [op : KernelOps, arg : Int, n : Int]]
        /\ Op' = "signaln" /\ kctx'[currpid].arg = s /\ kctx'[currpid].n = count
        /\ \A p \in Procs \ {currpid} : kctx'[p] = kctx[p]
        /\ currpid' = currpid
    BY <1>1, <1>3, <2>1, <2>2, EnterFacts DEF KernelOps, Op, schedVars
  <2>4. SchedInv'
    <3>1. SchedOKNext /\ TabOK' /\ NullOnlyRuns' /\ exited' = FALSE
      BY <1>1, <1>3, <2>3, TabKept, NullKept
         DEF schedVars, SchedOKNow, SchedOKNext, tabVars
    <3> QED BY <1>1, <2>3, <3>1, SchedInvAfter
  <2>5. ClkInv' /\ MsgTypeOK'
    BY <1>1, <1>3, <2>3, ClkFrame, MsgFrame DEF ClkDrains, ClkKept, schedVars
  <2>6. SemTypeOK' /\ SemQueuesAgree'
    BY <1>1, <1>3 DEF SemInv, SemTypeOK, SemQueuesAgree, WaitingOn, InState,
                      schedVars, semVars
  <2>7. SemaphoreCountOwesQueue'
    BY <1>1, <1>3 DEF SemInv, SemaphoreCountOwesQueue, semVars
  <2>8. SemSection'
    BY <1>1, <1>3, <2>1, <2>2, <2>3 DEF SemSection, semVars
  <2> QED BY <2>4, <2>5, <2>6, <2>7, <2>8 DEF IInv, SemInv
<1> QED BY <1>2, <1>3 DEF SignalNBody

LEMMA SignalNStepStep ==
    ASSUME IInv, SignalNStep, UNCHANGED <<msgVars, clkVars>>
    PROVE  IInv'
<1> DEFINE s == kctx[currpid].arg
           n == kctx[currpid].n
           w == Head(semq[s])
<1>1. /\ TabOK /\ SchedOKNow /\ Op = "signaln" /\ exited = FALSE /\ currpid \in Procs
      /\ \A p \in Procs \ {currpid} : kctx[p].op \in Resumable
      /\ SemInv /\ ClkInv
  BY SectionFacts DEF SignalNStep, IInv
<1>2. /\ s \in Sems /\ sstate[s] = "SUSED" /\ n \in Nat /\ n > 0
      /\ semcnt[s] + n <= MaxCount /\ semcnt[s] \in Int
      /\ s \in Int /\ n - 1 \in Int
  <2>1. /\ s \in Sems /\ sstate[s] = "SUSED" /\ n \in Nat
        /\ semcnt[s] + n <= MaxCount
    BY <1>1 DEF SemInv, SemSection
  <2>2. n > 0
    BY DEF SignalNStep
  <2> HIDE DEF s, n
  <2> QED BY <1>1, <2>1, <2>2, ConstFacts DEF SemInv, SemTypeOK, Sems
<1>3. /\ Enter("signaln", s, n - 1)
      /\ semcnt' = [semcnt EXCEPT ![s] = semcnt[s] + 1]
      /\ \/ /\ semcnt[s] < 0
            /\ ReadyNoResched(w)
            /\ semq' = [semq EXCEPT ![s] = Tail(semq[s])]
         \/ /\ semcnt[s] >= 0
            /\ UNCHANGED <<schedVars, semq>>
      /\ UNCHANGED <<tabVars, uctx, sstate, psem, nextsem>>
  BY DEF SignalNStep, ReadyFirstWaiter
<1> HIDE DEF s, n
<1>4. /\ SchedOKNext /\ ClkKept /\ currpid' = currpid
      /\ \/ /\ semcnt[s] < 0
            /\ semq' = [semq EXCEPT ![s] = Tail(semq[s])]
            /\ pstate'[w] # "PRWAIT" /\ SemKeptBut(w)
         \/ /\ semcnt[s] >= 0
            /\ semq' = semq /\ SemKept
  <2>1. CASE /\ semcnt[s] < 0
             /\ ReadyNoResched(w)
             /\ semq' = [semq EXCEPT ![s] = Tail(semq[s])]
    <3>1. w \in Procs /\ pstate[w] = "PRWAIT"
      BY <1>1, <1>2, <2>1, SomebodyWaits, FirstWaiter DEF SemDrains
    <3> HIDE DEF w
    <3>2. /\ SchedOKNext /\ pstate'[w] = "PRREADY" /\ currpid' = currpid
          /\ \A p \in Procs \ {w} : Kept(p)
      BY <1>1, <2>1, <3>1, PprioInt, ReadyNoReschedStep DEF Runnable
    <3>3. SemKeptBut(w) /\ ClkKept
      BY <3>1, <3>2, KeptBut, ButIsEnough
    <3> QED BY <2>1, <3>2, <3>3
  <2>2. CASE semcnt[s] >= 0 /\ UNCHANGED <<schedVars, semq>>
    BY <1>1, <2>2 DEF schedVars, SchedOKNow, SchedOKNext, SemKept, ClkKept
  <2> QED BY <1>3, <2>1, <2>2
<1> HIDE DEF w
<1>5. /\ kctx' \in [Procs -> [op : KernelOps, arg : Int, n : Int]]
      /\ Op' = "signaln" /\ kctx'[currpid'].arg = s /\ kctx'[currpid'].n = n - 1
      /\ \A p \in Procs \ {currpid} : kctx'[p] = kctx[p]
  BY <1>1, <1>2, <1>3, <1>4, EnterFacts DEF KernelOps, Op
<1>6. SchedInv'
  <2>1. TabOK' /\ NullOnlyRuns' /\ exited' = FALSE
    BY <1>1, <1>3, <1>5, TabKept, NullKept DEF tabVars
  <2> QED BY <1>1, <1>4, <1>5, <2>1, SchedInvAfter
<1>7. ClkInv' /\ MsgTypeOK'
  BY <1>1, <1>4, <1>5, ClkFrame, MsgFrame DEF ClkDrains
<1>8. SemTypeOK' /\ SemQueuesAgree' /\ SemaphoreCountOwesQueue'
  <2>1. semcnt[s] < MaxCount
    BY <1>2, ConstFacts
  <2> QED BY <1>1, <1>2, <1>3, <1>4, <2>1, Signalled DEF SemDrains, w
<1>9. SemSection'
  <2>1. semcnt'[s] = semcnt[s] + 1
    BY <1>1, <1>2, <1>3 DEF SemInv, SemTypeOK
  <2>2. n - 1 \in Nat /\ semcnt'[s] + (n - 1) <= MaxCount /\ sstate'[s] = "SUSED"
    BY <1>2, <1>3, <2>1, ConstFacts
  <2> QED BY <1>2, <1>5, <2>2 DEF SemSection
<1> QED BY <1>6, <1>7, <1>8, <1>9 DEF IInv, SemInv

LEMMA SignalNEndStep ==
    ASSUME IInv, SignalNEnd, UNCHANGED <<msgVars, clkVars>>
    PROVE  IInv'
<1>1. SchedInv' /\ SemKept /\ ClkKept /\ Op' \in Resumable
  BY LeaveYield, PreemptType DEF SignalNEnd, Yield
<1>2. Op = "signaln" /\ SemInv /\ ClkInv
  BY SectionFacts DEF SignalNEnd, IInv
<1> QED BY <1>1, <1>2, SemFrame, ClkFrame, MsgFrame
        DEF SignalNEnd, SemDrains, ClkDrains, Resumable, IInv

-----------------------------------------------------------------------------
(* sleep, insertd and wakeup.                                              *)

(* A call that does nothing but give up the processor.                     *)
LEMMA YieldOnly ==
    ASSUME IInv, Interruptible, Yield, UNCHANGED <<tabVars, kctx, uctx>>,
           UNCHANGED <<semVars, msgVars, clkVars>>
    PROVE  IInv'
<1>1. TabOK /\ SchedOKNow
  BY OutOfKernelFacts
<1>2. SchedOKNext /\ \A p \in Procs : Kept(p)
  BY <1>1, PprioInt, YieldStep, PreemptType DEF Yield
<1>3. SemKept /\ ClkKept
  BY <1>2 DEF Kept, Runnable, SemKept, ClkKept
<1>4. TabOK' /\ MsgTypeOK'
  BY <1>1, MsgFrame DEF TabOK, tabVars
<1> QED BY <1>2, <1>3, <1>4, QuietStep DEF tabVars

LEMMA SleepStep ==
    ASSUME IInv, NEW n \in Int, Sleep(n), UNCHANGED <<semVars, msgVars>>
    PROVE  IInv'
<1>1. /\ TabOK /\ SchedOKNow /\ Interruptible /\ currpid # NULLPROC
      /\ ClkInv /\ Op = "none"
  BY CallFacts, OutOfKernelFacts DEF Sleep, IInv
<1>2. UNCHANGED <<tabVars, kctx, clkVars>>
  BY DEF Sleep
<1>3. CASE n = 0 /\ Yield /\ UNCHANGED uctx
  BY <1>1, <1>2, <1>3, YieldOnly
<1>4. CASE /\ n > 0
           /\ uctx' = [uctx EXCEPT ![currpid] = InUser("sleep", n)]
           /\ UNCHANGED schedVars
  <2>1. n \in Nat
    BY <1>4
  <2>2. /\ uctx' \in [Procs -> [op : UserOps, n : Nat]]
        /\ uctx'[NULLPROC] = Running
    BY <1>1, <1>4, <2>1, SchedTypes, ConstFacts DEF InUser, UserOps
  <2>3. SchedInv' /\ SemInv' /\ MsgTypeOK' /\ Op' = "none" /\ ClkKept
    BY <1>1, <1>2, <1>4, <2>2, OutsideStep
  <2>4. ClkInv'
    BY <1>1, <1>2, <2>3, ClkFrame DEF ClkDrains
  <2> QED BY <2>3, <2>4 DEF IInv
<1> QED BY <1>3, <1>4 DEF Sleep

LEMMA PositiveProduct ==
    ASSUME NEW a \in Nat, NEW b \in Nat, a > 0, b > 0
    PROVE  a * b \in Int /\ a * b > 0
OBVIOUS

LEMMA SleepNextStep ==
    ASSUME IInv, SleepNext, UNCHANGED <<semVars, msgVars>>
    PROVE  IInv'
<1> DEFINE n == uctx[currpid].n
<1>1. /\ Interruptible /\ Op = "none" /\ exited = FALSE /\ ClkInv
      /\ uctx[currpid].op = "sleep"
      /\ UNCHANGED <<tabVars, schedVars, clkVars>>
  BY OutOfKernelFacts DEF SleepNext, IInv
<1>2. currpid \in Procs /\ n \in Nat /\ currpid # NULLPROC
  BY <1>1, SchedTypes DEF Running, InUser
<1>3. TENTHS \in Nat /\ TENTHS > 0 /\ CHUNK \in Nat /\ CHUNK > 0
  BY RealClockAssumption
<1>4. ASSUME NEW m \in Nat, m > 0, EnterSleep10(TENTHS * m),
             NEW v \in [op : UserOps, n : Nat],
             uctx' = [uctx EXCEPT ![currpid] = v]
      PROVE  IInv'
  <2>1. TENTHS * m \in Int /\ TENTHS * m > 0
    BY <1>3, <1>4, PositiveProduct
  <2> DEFINE d == TENTHS * m
  <2>2. Enter("insertd", 1, d) /\ d \in Int /\ d > 0
    BY <1>4, <2>1 DEF EnterSleep10
  <2> HIDE DEF d
  <2>3. /\ uctx' \in [Procs -> [op : UserOps, n : Nat]]
        /\ uctx'[NULLPROC] = Running
    BY <1>2, <1>4, SchedTypes, ConstFacts
  <2>4. "insertd" \in KernelOps \ SemSections
    BY DEF KernelOps, SemSections
  <2>5. /\ UNCHANGED <<tabVars, pstate, rdyq, currpid, preempt, qkey>>
        /\ preempt' \in -1 .. QUANTUM /\ qkey' \in [Procs -> Int]
        /\ Op \notin SemSections
    BY <1>1, SchedTypes DEF schedVars, SemSections
  <2>6. /\ SchedInv' /\ SemInv' /\ MsgTypeOK'
        /\ Op' = "insertd" /\ kctx'[currpid'].arg = 1 /\ kctx'[currpid'].n = d
        /\ currpid' = currpid
    <3>1. 1 \in Int
      OBVIOUS
    <3> HIDE DEF n
    <3> QED BY <1>1, <2>2, <2>3, <2>4, <2>5, <3>1, EnterStep
  <2>7. ClkInv'
    <3>1. ClkTypeOK' /\ SleepQueueAgrees' /\ SleepTopAgrees' /\ SleepKeysNotNegative'
      BY <1>1, <2>5 DEF ClkInv, ClkTypeOK, SleepQueueAgrees, SleepTopAgrees,
                        SleepKeysNotNegative, InState, clkVars
    <3>2. 1 \in 1 .. Len(clockq') + 1
      BY <1>1, SchedTypes, LenProperties DEF clkVars
    <3> QED BY <1>2, <2>2, <2>6, <3>1, <3>2 DEF ClkInv, ClkSection
  <2> QED BY <2>6, <2>7 DEF IInv
<1>5. CASE n >= CHUNK
  <2>1. InUser("sleep", n - CHUNK) \in [op : UserOps, n : Nat]
    BY <1>2, <1>3, <1>5 DEF InUser, UserOps
  <2>2. /\ uctx' = [uctx EXCEPT ![currpid] = InUser("sleep", n - CHUNK)]
        /\ EnterSleep10(TENTHS * CHUNK)
    BY <1>2, <1>3, <1>5 DEF SleepNext
  <2> QED BY <1>3, <1>4, <2>1, <2>2
<1>6. CASE 0 < n /\ n < CHUNK
  <2>1. Running \in [op : UserOps, n : Nat]
    BY DEF Running, InUser, UserOps
  <2>2. uctx' = [uctx EXCEPT ![currpid] = Running] /\ EnterSleep10(TENTHS * n)
    BY <1>2, <1>3, <1>6 DEF SleepNext
  <2> QED BY <1>2, <1>4, <1>6, <2>1, <2>2
<1>7. CASE n = 0
  <2>1. uctx' = [uctx EXCEPT ![currpid] = Running] /\ UNCHANGED kctx
    BY <1>2, <1>3, <1>7 DEF SleepNext
  <2>2. /\ uctx' \in [Procs -> [op : UserOps, n : Nat]]
        /\ uctx'[NULLPROC] = Running
    BY <2>1, SchedTypes DEF Running, InUser, UserOps
  <2>3. SchedInv' /\ SemInv' /\ MsgTypeOK' /\ Op' = "none" /\ ClkKept
    BY <1>1, <2>1, <2>2, OutsideStep
  <2>4. ClkInv'
    BY <1>1, <2>3, ClkFrame DEF ClkDrains
  <2> QED BY <2>3, <2>4 DEF IInv
<1> QED BY <1>2, <1>3, <1>5, <1>6, <1>7

LEMMA InsertdWalkStep ==
    ASSUME IInv, InsertdWalk, UNCHANGED <<semVars, msgVars>>
    PROVE  IInv'
<1> DEFINE i == kctx[currpid].arg
           n == kctx[currpid].n
           m == n - qkey[clockq[i]]
<1>1. Op = "insertd" /\ exited = FALSE /\ currpid \in Procs /\ ClkInv
  BY SectionFacts DEF InsertdWalk, IInv
<1>2. i \in 1 .. Len(clockq) + 1 /\ n > 0 /\ currpid # NULLPROC /\ n \in Int
  BY <1>1, SectionFacts DEF ClkInv, ClkSection, TabOK, InsertdWalk
<1>3. /\ i <= Len(clockq) /\ qkey[clockq[i]] < n
      /\ Enter("insertd", i + 1, m)
      /\ UNCHANGED <<tabVars, schedVars, uctx, clkVars>>
  BY DEF InsertdWalk
<1> HIDE DEF i, n
<1>4. i \in 1 .. Len(clockq) /\ qkey[clockq[i]] \in Int /\ Len(clockq) \in Nat
  BY <1>2, <1>3, SchedTypes, LenProperties
<1>5. i + 1 \in Int /\ m \in Int /\ m > 0
  BY <1>2, <1>3, <1>4
<1> HIDE DEF m
<1>6. /\ SchedInv' /\ SemInv' /\ MsgTypeOK'
      /\ Op' = "insertd" /\ kctx'[currpid'].arg = i + 1 /\ kctx'[currpid'].n = m
      /\ currpid' = currpid
  <2>1. "insertd" \in KernelOps \ SemSections
    BY DEF KernelOps, SemSections
  <2>2. UNCHANGED <<tabVars, pstate, rdyq, currpid, preempt, qkey, uctx>>
    BY <1>3 DEF schedVars
  <2> QED BY <1>1, <1>3, <1>5, <2>1, <2>2, EnterStep, SchedTypes DEF SemSections
<1>7. ClkInv'
  <2>1. ClkTypeOK' /\ SleepQueueAgrees' /\ SleepTopAgrees' /\ SleepKeysNotNegative'
    BY <1>1, <1>3 DEF ClkInv, ClkTypeOK, SleepQueueAgrees, SleepTopAgrees,
                      SleepKeysNotNegative, InState, clkVars, schedVars
  <2>2. ClkSection'
    BY <1>2, <1>3, <1>4, <1>5, <1>6 DEF ClkSection, clkVars
  <2> QED BY <2>1, <2>2 DEF ClkInv
<1> QED BY <1>6, <1>7 DEF IInv

LEMMA InsertdEndStep ==
    ASSUME IInv, InsertdEnd, UNCHANGED <<semVars, msgVars>>
    PROVE  IInv'
<1> DEFINE i == kctx[currpid].arg
           n == kctx[currpid].n
           b == clockq[i]
           k0 == [qkey EXCEPT ![currpid] = n]
           k == IF i <= Len(clockq) THEN [k0 EXCEPT ![b] = k0[b] - n] ELSE k0
<1>1. /\ Op = "insertd" /\ exited = FALSE /\ currpid \in Procs /\ ClkInv /\ SemInv
      /\ TabOK /\ SchedOKNow /\ pstate[currpid] = "PRCURR"
      /\ \A p \in Procs \ {currpid} : kctx[p].op \in Resumable
  BY SectionFacts DEF InsertdEnd, IInv
<1>2. i \in 1 .. Len(clockq) + 1 /\ n > 0 /\ n \in Int /\ currpid # NULLPROC
  BY <1>1 DEF ClkInv, ClkSection, TabOK
<1>3. /\ clockq' = InsertAt(clockq, i, currpid)
      /\ i <= Len(clockq) => qkey[b] >= n
      /\ Resched([pstate EXCEPT ![currpid] = "PRSLEEP"], rdyq, k, pprio, preempt)
      /\ slnempty' = TRUE /\ sltop' = TopOf(clockq') /\ Leave
      /\ UNCHANGED <<tabVars, uctx, countVars>>
  <2>1. Len(clockq) \in Nat
    BY SchedTypes, LenProperties
  <2> QED BY <1>2, <2>1 DEF InsertdEnd
<1>4. /\ clockq \in Seq(Procs) /\ Holds(clockq, InState("PRSLEEP"))
      /\ Len(clockq) \in Nat
      /\ qkey \in [Procs -> Int]
  BY SchedTypes, LenProperties
<1>5. i <= Len(clockq) =>
          b \in Procs /\ pstate[b] = "PRSLEEP" /\ qkey[b] \in Int
  <2>1. i <= Len(clockq) => i \in 1 .. Len(clockq)
    BY <1>2, <1>4
  <2> QED BY <2>1, SchedTypes
<1> HIDE DEF i, n, b
<1>6. k0 \in [Procs -> Int]
  BY <1>2, <1>4
<1>7. /\ k \in [Procs -> Int] /\ k[currpid] = n
      /\ \A p \in Procs \ {currpid} :
            k[p] = IF i <= Len(clockq) /\ p = b THEN qkey[p] - n ELSE qkey[p]
  BY <1>1, <1>2, <1>3, <1>4, <1>5, <1>6
<1> HIDE DEF k0, k
<1>8. /\ SchedOKNext
      /\ pstate'[currpid] = "PRSLEEP" /\ qkey'[currpid] = n
      /\ \A p \in Procs \ {currpid} :
            /\ pstate[p] \in Runnable <=> pstate'[p] \in Runnable
            /\ pstate[p] \notin Runnable => pstate'[p] = pstate[p] /\ qkey'[p] = k[p]
  <2>1. "PRSLEEP" \in States /\ "PRSLEEP" \notin Runnable
    BY DEF States, Runnable
  <2> QED BY <1>1, <1>2, <1>3, <1>7, <2>1, PprioInt, BlockStep
<1>9. SemKept
  BY <1>1, <1>8 DEF SemKept, Runnable
<1>10. InState("PRSLEEP")' = InState("PRSLEEP") \cup {currpid}
  BY <1>1, <1>8 DEF InState, Runnable
<1>11. /\ kctx' \in [Procs -> [op : KernelOps, arg : Int, n : Int]]
       /\ \A p \in Procs : kctx'[p].op \in Resumable
  BY <1>1, <1>3, LeaveFacts
<1>12. currpid' \in Procs /\ Op' \in Resumable
  BY <1>8, <1>11 DEF SchedOKNext, SchedOK, Op
<1>13. SchedInv' /\ SemInv' /\ MsgTypeOK'
  <2>1. TabOK' /\ NullOnlyRuns' /\ exited' = FALSE /\ MsgTypeOK'
    BY <1>1, <1>3, <1>11, TabKept, NullKept, MsgFrame DEF tabVars
  <2>2. SemInv'
    BY <1>1, <1>9, <1>12, SemFrame DEF SemDrains, Resumable
  <2> QED BY <1>8, <1>11, <2>1, <2>2, SchedInvAfter
<1>14. /\ clockq' \in Seq(Procs) /\ Len(clockq') = Len(clockq) + 1
       /\ Holds(clockq', InState("PRSLEEP")')
       /\ clockq'[1] = IF i = 1 THEN currpid ELSE clockq[1]
  <2>1. currpid \notin InState("PRSLEEP")
    BY <1>1 DEF InState
  <2>2. /\ clockq' \in Seq(Procs) /\ Len(clockq') = Len(clockq) + 1
        /\ Holds(clockq', InState("PRSLEEP") \cup {currpid})
    BY <1>1, <1>2, <1>3, <1>4, <2>1, InsertAtHolds
  <2>3. clockq'[1] = IF i = 1 THEN currpid ELSE clockq[1]
    <3>1. \A j \in 1 .. Len(clockq) + 1 : InsertAt(clockq, i, currpid)[j] =
              IF j < i THEN clockq[j] ELSE IF j = i THEN currpid ELSE clockq[j - 1]
      BY <1>1, <1>2, <1>4, InsertAtShape
    <3>2. 1 \in 1 .. Len(clockq) + 1
      BY <1>4
    <3> QED BY <1>2, <1>3, <1>4, <3>1, <3>2
  <2> QED BY <1>10, <2>2, <2>3
<1>15. clockq' # <<>> /\ sltop' = clockq'[1] /\ sltop' \in Procs
  BY <1>3, <1>4, <1>14, SchedTypes, LenProperties, ElementOfSeq DEF TopOf
<1>16. ClkTypeOK'
  BY <1>1, <1>3, <1>14, <1>15 DEF ClkInv, ClkTypeOK, countVars
<1>17. SleepKeysNotNegative'
  <2> SUFFICES ASSUME NEW p \in InState("PRSLEEP")' PROVE qkey'[p] >= 0
    BY DEF SleepKeysNotNegative
  <2>1. CASE p = currpid
    BY <1>2, <1>8, <2>1
  <2>2. CASE p # currpid
    <3>1. p \in Procs /\ pstate[p] = "PRSLEEP" /\ qkey[p] >= 0 /\ qkey[p] \in Int
      BY <1>1, <1>4, <1>10, <2>2 DEF InState, ClkInv, SleepKeysNotNegative
    <3> QED BY <1>2, <1>3, <1>5, <1>7, <1>8, <2>2, <3>1 DEF Runnable
  <2> QED BY <2>1, <2>2
<1>18. qkey'[sltop'] > 0
  <2>1. CASE i = 1
    BY <1>2, <1>8, <1>14, <1>15, <2>1
  <2>2. CASE i # 1
    <3>1. 1 \in 1 .. Len(clockq) /\ 1 # i /\ clockq # <<>>
      BY <1>2, <1>4, <2>2
    <3>2. /\ clockq[1] \in Procs /\ pstate[clockq[1]] = "PRSLEEP"
          /\ clockq[1] # currpid
      BY <1>1, <3>1, SchedTypes
    <3>3. qkey[clockq[1]] > 0
      BY <1>1, <3>1 DEF ClkInv, SleepTopAgrees
    <3>4. ~(i <= Len(clockq) /\ clockq[1] = b)
      <4> SUFFICES ASSUME i <= Len(clockq), clockq[1] = clockq[i] PROVE FALSE
        BY DEF b
      <4>1. i \in DOMAIN clockq /\ 1 \in DOMAIN clockq
        BY <1>2, <1>4, <3>1
      <4> QED BY <1>4, <3>1, <4>1 DEF Holds, IsInjective
    <3>5. k[clockq[1]] = qkey[clockq[1]]
      BY <1>7, <3>2, <3>4
    <3>6. qkey'[clockq[1]] = k[clockq[1]]
      BY <1>8, <3>2 DEF Runnable
    <3> QED BY <1>14, <1>15, <2>2, <3>3, <3>5, <3>6
  <2> QED BY <2>1, <2>2
<1>19. SleepTopAgrees'
  BY <1>3, <1>15, <1>18 DEF SleepTopAgrees, TopOf
<1>20. SleepQueueAgrees' /\ ClkSection'
  BY <1>12, <1>14 DEF SleepQueueAgrees, ClkSection, Resumable
<1> QED BY <1>13, <1>16, <1>17, <1>19, <1>20 DEF IInv, ClkInv

LEMMA WakeupFirstStep ==
    ASSUME IInv, WakeupFirst, UNCHANGED <<semVars, msgVars>>
    PROVE  IInv'
<1> DEFINE w == Head(clockq)
<1>1. PICK op \in {"wakeup_clkint", "wakeup_strtclk"} : At(op)
  BY DEF WakeupFirst
<1>2. /\ clockq # <<>> /\ clockq' = Tail(clockq) /\ ReadyNoResched(w)
      /\ UNCHANGED <<tabVars, kctx, uctx, slnempty, sltop, countVars>>
  BY DEF WakeupFirst
<1>3. /\ TabOK /\ SchedOKNow /\ Op = op /\ exited = FALSE
      /\ \A p \in Procs \ {currpid} : kctx[p].op \in Resumable
      /\ SemInv /\ ClkInv
  BY <1>1, SectionFacts DEF IInv
<1>4. /\ w \in InState("PRSLEEP") /\ clockq' \in Seq(Procs)
      /\ Holds(clockq', InState("PRSLEEP") \ {w})
  BY <1>2, SchedTypes, HeadTailHolds
<1>5. w \in Procs /\ pstate[w] = "PRSLEEP"
  BY <1>4 DEF InState
<1> HIDE DEF w
<1>6. /\ SchedOKNext /\ pstate'[w] = "PRREADY" /\ currpid' = currpid
      /\ \A p \in Procs \ {w} : Kept(p)
  BY <1>2, <1>3, <1>5, PprioInt, ReadyNoReschedStep DEF Runnable
<1>7. SemKept /\ ClkKeptBut(w) /\ Op' = Op
  BY <1>2, <1>5, <1>6, KeptBut, ButIsEnough DEF Op
<1>8. SchedInv' /\ SemInv' /\ MsgTypeOK'
  <2>1. TabOK' /\ NullOnlyRuns' /\ exited' = FALSE /\ MsgTypeOK'
    BY <1>2, <1>3, NullKept, MsgFrame DEF TabOK, tabVars
  <2>2. SemInv'
    BY <1>3, <1>7, SemFrame DEF SemDrains
  <2> QED BY <1>2, <1>3, <1>6, <2>1, <2>2, SchedInvAfter
<1>9. InState("PRSLEEP")' = InState("PRSLEEP") \ {w}
  BY <1>5, <1>6, <1>7 DEF InState, ClkKeptBut
<1>10. ClkTypeOK' /\ SleepQueueAgrees'
  BY <1>2, <1>3, <1>4, <1>9 DEF ClkInv, ClkTypeOK, SleepQueueAgrees, countVars
<1>11. SleepKeysNotNegative'
  BY <1>3, <1>7, <1>9 DEF ClkInv, SleepKeysNotNegative, ClkKeptBut, InState
<1>12. SleepTopAgrees' /\ ClkSection'
  BY <1>3, <1>7 DEF SleepTopAgrees, ClkSection
<1> QED BY <1>8, <1>10, <1>11, <1>12 DEF IInv, ClkInv

LEMMA WakeupEndStep ==
    ASSUME IInv, WakeupEnd, UNCHANGED <<semVars, msgVars>>
    PROVE  IInv'
<1>1. PICK op \in {"wakeup_clkint", "wakeup_strtclk"} : At(op)
  BY DEF WakeupEnd
<1>2. /\ clockq = <<>> \/ FirstKey(clockq, qkey) > 0
      /\ slnempty' = (clockq # <<>>)
      /\ sltop' = IF clockq # <<>> THEN TopOf(clockq) ELSE sltop
      /\ Enter("clkint", 0, 0) \/ Enter("strtclk_tail", 0, 0)
      /\ Yield
      /\ UNCHANGED <<tabVars, uctx, clockq, countVars>>
  BY DEF WakeupEnd
<1>3. /\ TabOK /\ SchedOKNow /\ Op = op /\ exited = FALSE /\ currpid \in Procs
      /\ \A p \in Procs \ {currpid} : kctx[p].op \in Resumable
      /\ SemInv /\ ClkInv
  BY <1>1, SectionFacts DEF IInv
<1>4. /\ kctx' \in [Procs -> [op : KernelOps, arg : Int, n : Int]]
      /\ \A p \in Procs : kctx'[p].op \in {"none", "receive", "clkint", "strtclk_tail"}
  <2>1. {"clkint", "strtclk_tail"} \subseteq KernelOps /\ 0 \in Int
    BY DEF KernelOps
  <2>2. PICK o \in {"clkint", "strtclk_tail"} : Enter(o, 0, 0)
    BY <1>2
  <2> QED BY <1>3, <2>1, <2>2, EnterFacts DEF Resumable
<1>5. SchedOKNext /\ SemKept /\ ClkKept
  <2>1. SchedOKNext /\ \A p \in Procs : Kept(p)
    BY <1>2, <1>3, PprioInt, YieldStep, PreemptType DEF Yield
  <2> QED BY <2>1 DEF Kept, Runnable, SemKept, ClkKept
<1>6. Op' \in {"none", "receive", "clkint", "strtclk_tail"}
  BY <1>4, <1>5 DEF SchedOKNext, SchedOK, Op
<1>7. SchedInv' /\ SemInv' /\ MsgTypeOK'
  <2>1. TabOK' /\ NullOnlyRuns' /\ exited' = FALSE /\ MsgTypeOK'
    BY <1>2, <1>3, <1>4, TabKept, NullKept, MsgFrame DEF tabVars
  <2>2. SemInv'
    BY <1>3, <1>5, <1>6, SemFrame DEF SemDrains
  <2> QED BY <1>4, <1>5, <2>1, <2>2, SchedInvAfter DEF Resumable
<1>8. InState("PRSLEEP")' = InState("PRSLEEP")
  BY <1>5 DEF ClkKept, InState
<1>9. clockq # <<>> => /\ Head(clockq) \in InState("PRSLEEP")
                       /\ qkey'[Head(clockq)] = qkey[Head(clockq)]
                       /\ qkey[Head(clockq)] > 0
  <2> SUFFICES ASSUME clockq # <<>>
               PROVE  /\ Head(clockq) \in InState("PRSLEEP")
                      /\ qkey'[Head(clockq)] = qkey[Head(clockq)]
                      /\ qkey[Head(clockq)] > 0
    OBVIOUS
  <2>1. Head(clockq) \in InState("PRSLEEP")
    BY SchedTypes, HeadTailHolds
  <2> QED BY <1>2, <1>5, <2>1 DEF ClkKept, InState, FirstKey
<1>10. ClkTypeOK' /\ SleepQueueAgrees'
  BY <1>2, <1>3, <1>8, <1>9
     DEF ClkInv, ClkTypeOK, SleepQueueAgrees, countVars, InState, TopOf
<1>11. SleepKeysNotNegative'
  BY <1>3, <1>5, <1>8 DEF ClkInv, SleepKeysNotNegative, ClkKept, InState
<1>12. SleepTopAgrees' /\ ClkSection'
  BY <1>2, <1>6, <1>9 DEF SleepTopAgrees, ClkSection, TopOf
<1> QED BY <1>7, <1>10, <1>11, <1>12 DEF IInv, ClkInv

-----------------------------------------------------------------------------
(* The clock interrupt.                                                    *)

LEMMA ClkIntStep ==
    ASSUME IInv, ClkInt, UNCHANGED <<semVars, msgVars>>
    PROVE  IInv'
<1>1. /\ Interruptible /\ Op = "none" /\ exited = FALSE /\ ClkInv
      /\ UNCHANGED <<tabVars, pstate, rdyq, currpid, preempt, uctx,
                     clockq, slnempty, sltop, defclk>>
  BY OutOfKernelFacts DEF ClkInt, IInv
<1>2. TICKS \in Nat /\ TICKS > 0 /\ count6 \in 1 .. TICKS /\ MaxDiff \in Nat
      /\ clkdiff \in 0 .. MaxDiff
  BY <1>1, ConstFacts DEF ClkInv, ClkTypeOK
<1>3. CASE /\ UNCHANGED <<kctx, qkey>>
           /\ count6' \in 1 .. TICKS /\ clkdiff' \in 0 .. MaxDiff
  <2>1. SchedInv' /\ SemInv' /\ MsgTypeOK' /\ Op' = "none"
    BY <1>1, <1>3, OutsideStep, SchedTypes DEF schedVars
  <2>2. ClkInv'
    BY <1>1, <1>3, <2>1
       DEF ClkInv, ClkTypeOK, SleepQueueAgrees, SleepTopAgrees,
           SleepKeysNotNegative, InState, ClkSection
  <2> QED BY <2>1, <2>2 DEF IInv
<1>4. CASE /\ count6' = TICKS
           /\ slnempty
           /\ qkey' = [qkey EXCEPT ![sltop] = @ - 1]
           /\ IF qkey'[sltop] = 0 THEN Enter("wakeup_clkint", 0, 0)
                                  ELSE Enter("clkint", 0, 0)
           /\ UNCHANGED clkdiff
  <2>1. /\ clockq # <<>> /\ sltop = Head(clockq) /\ qkey[sltop] > 0
        /\ sltop \in Procs /\ pstate[sltop] = "PRSLEEP" /\ qkey[sltop] \in Int
    <3>1. clockq # <<>> /\ sltop = Head(clockq) /\ qkey[sltop] > 0
      BY <1>1, <1>4 DEF ClkInv, SleepTopAgrees
    <3>2. sltop \in InState("PRSLEEP")
      BY <3>1, SchedTypes, HeadTailHolds
    <3> QED BY <3>1, <3>2, SchedTypes DEF InState
  <2>2. qkey' \in [Procs -> Int] /\ qkey'[sltop] = qkey[sltop] - 1
        /\ \A p \in Procs \ {sltop} : qkey'[p] = qkey[p]
    BY <1>4, <2>1, SchedTypes
  <2>3. PICK op \in {"wakeup_clkint", "clkint"} :
          Enter(op, 0, 0) /\ (op = "clkint" => qkey'[sltop] # 0)
    BY <1>4
  <2>4. SchedInv' /\ SemInv' /\ MsgTypeOK' /\ Op' = op
    <3>1. op \in KernelOps \ SemSections /\ 0 \in Int /\ Op \notin SemSections
      BY <1>1, <2>3 DEF KernelOps, SemSections
    <3> QED BY <1>1, <2>2, <2>3, <3>1, EnterStep, SchedTypes
  <2>5. ClkTypeOK' /\ SleepQueueAgrees' /\ ClkSection'
    BY <1>1, <1>2, <1>4, <2>4
       DEF ClkInv, ClkTypeOK, SleepQueueAgrees, InState, ClkSection
  <2>6. SleepKeysNotNegative'
    BY <1>1, <2>1, <2>2 DEF ClkInv, SleepKeysNotNegative, InState
  <2>7. SleepTopAgrees'
    BY <1>1, <1>4, <2>1, <2>2, <2>3, <2>4 DEF SleepTopAgrees
  <2> QED BY <2>4, <2>5, <2>6, <2>7 DEF IInv, ClkInv
<1>5. CASE /\ count6' = TICKS
           /\ Enter("clkint", 0, 0)
           /\ UNCHANGED <<qkey, clkdiff>>
  <2>1. SchedInv' /\ SemInv' /\ MsgTypeOK' /\ Op' = "clkint"
    <3>1. "clkint" \in KernelOps \ SemSections /\ 0 \in Int /\ Op \notin SemSections
      BY <1>1 DEF KernelOps, SemSections
    <3>2. qkey' \in [Procs -> Int]
      BY <1>5, SchedTypes
    <3> QED BY <1>1, <1>5, <3>1, <3>2, EnterStep, SchedTypes
  <2>2. ClkInv'
    BY <1>1, <1>2, <1>5, <2>1
       DEF ClkInv, ClkTypeOK, SleepQueueAgrees, SleepTopAgrees,
           SleepKeysNotNegative, InState, ClkSection
  <2> QED BY <2>1, <2>2 DEF IInv
<1>6. CASE count6 - 1 # 0 /\ count6' = count6 - 1 /\ UNCHANGED <<kctx, qkey, clkdiff>>
  BY <1>2, <1>3, <1>6
<1>7. CASE /\ count6' = TICKS
           /\ clkdiff < MaxDiff /\ clkdiff' = clkdiff + 1
           /\ UNCHANGED <<kctx, qkey>>
  BY <1>2, <1>3, <1>7
<1> QED BY <1>4, <1>5, <1>6, <1>7 DEF ClkInt

LEMMA ClkIntEndStep ==
    ASSUME IInv, ClkIntEnd, UNCHANGED <<semVars, msgVars>>
    PROVE  IInv'
<1>1. Op = "clkint" /\ SemInv /\ ClkInv
  BY SectionFacts DEF ClkIntEnd, IInv
<1>2. 0 \in -1 .. QUANTUM /\ PreemptMinus(1) \in -1 .. QUANTUM
  BY ConstFacts, PreemptType, PreemptMinusType
<1>3. SchedInv' /\ SemKept /\ ClkKept /\ Op' \in Resumable
  <2>1. CASE Resched(pstate, rdyq, qkey, pprio, 0)
    BY <1>2, <2>1, LeaveYield DEF ClkIntEnd
  <2>2. CASE /\ preempt' = PreemptMinus(1)
             /\ UNCHANGED <<pstate, rdyq, qkey, currpid>>
    BY <1>2, <2>2, LeaveYield DEF ClkIntEnd
  <2> QED BY <2>1, <2>2 DEF ClkIntEnd
<1> QED BY <1>1, <1>3, SemFrame, ClkFrame, MsgFrame
        DEF ClkIntEnd, SemDrains, ClkDrains, Resumable, IInv

-----------------------------------------------------------------------------
(* stopclk and strtclk.                                                    *)

LEMMA StopClkLoadStep ==
    ASSUME IInv, StopClkLoad, UNCHANGED <<semVars, msgVars>>
    PROVE  IInv'
<1>1. /\ Interruptible /\ currpid # NULLPROC /\ ClkInv /\ Op = "none"
      /\ defclk \in Nat
  BY CallFacts, OutOfKernelFacts DEF StopClkLoad, IInv, ClkInv, ClkTypeOK
<1>2. /\ uctx' = [uctx EXCEPT ![currpid] = InUser("stopclk", defclk)]
      /\ UNCHANGED <<tabVars, schedVars, kctx, clkVars>>
  BY DEF StopClkLoad
<1>3. uctx' \in [Procs -> [op : UserOps, n : Nat]] /\ uctx'[NULLPROC] = Running
  BY <1>1, <1>2, SchedTypes, ConstFacts DEF InUser, UserOps
<1>4. SchedInv' /\ SemInv' /\ MsgTypeOK' /\ Op' = "none" /\ ClkKept
  BY <1>1, <1>2, <1>3, OutsideStep
<1> QED BY <1>1, <1>2, <1>4, ClkFrame DEF ClkDrains, IInv

LEMMA StopClkStoreStep ==
    ASSUME IInv, StopClkStore, UNCHANGED <<semVars, msgVars>>
    PROVE  IInv'
<1>1. Interruptible /\ ClkInv /\ Op = "none"
  BY OutOfKernelFacts DEF StopClkStore, IInv
<1>2. /\ defclk' = uctx[currpid].n + 1
      /\ uctx' = [uctx EXCEPT ![currpid] = Running]
      /\ UNCHANGED <<tabVars, schedVars, kctx, clockq, slnempty, sltop, count6, clkdiff>>
  BY DEF StopClkStore
<1>3. /\ uctx' \in [Procs -> [op : UserOps, n : Nat]] /\ uctx'[NULLPROC] = Running
      /\ defclk' \in Nat
  BY <1>2, SchedTypes DEF Running, InUser, UserOps
<1>4. SchedInv' /\ SemInv' /\ MsgTypeOK' /\ Op' = "none"
  BY <1>1, <1>2, <1>3, OutsideStep
<1>5. ClkInv'
  BY <1>1, <1>2, <1>3, <1>4
     DEF ClkInv, ClkTypeOK, SleepQueueAgrees, SleepTopAgrees,
         SleepKeysNotNegative, InState, ClkSection, schedVars
<1> QED BY <1>4, <1>5 DEF IInv

LEMMA StrtClkStep ==
    ASSUME IInv, StrtClk, UNCHANGED <<semVars, msgVars>>
    PROVE  IInv'
<1>1. /\ Interruptible /\ Op = "none" /\ exited = FALSE /\ ClkInv
      /\ UNCHANGED <<tabVars, pstate, rdyq, qkey, currpid, uctx, clockq,
                     slnempty, sltop, count6>>
      /\ defclk' = defclk - 1 /\ defclk > 0
  BY CallFacts, OutOfKernelFacts DEF StrtClk, IInv
<1>2. /\ defclk' \in Nat /\ clkdiff \in Nat /\ clkdiff \in 0 .. MaxDiff
      /\ MaxDiff \in Nat
  BY <1>1, ConstFacts DEF ClkInv, ClkTypeOK
<1>3. CASE UNCHANGED <<preempt, clkdiff, kctx>>
  <2>1. SchedInv' /\ SemInv' /\ MsgTypeOK' /\ Op' = "none"
    BY <1>1, <1>3, OutsideStep, SchedTypes DEF schedVars
  <2>2. ClkInv'
    BY <1>1, <1>2, <1>3, <2>1
       DEF ClkInv, ClkTypeOK, SleepQueueAgrees, SleepTopAgrees,
           SleepKeysNotNegative, InState, ClkSection
  <2> QED BY <2>1, <2>2 DEF IInv
<1>4. CASE /\ preempt' = PreemptMinus(clkdiff) /\ clkdiff' = 0
           /\ \/ slnempty /\ Enter("strtclk", 1, clkdiff)
              \/ ~slnempty /\ Enter("strtclk_tail", 0, 0)
  <2>1. preempt' \in -1 .. QUANTUM /\ qkey' \in [Procs -> Int]
    BY <1>1, <1>2, <1>4, PreemptType, PreemptMinusType, SchedTypes
  <2>2. ClkTypeOK' /\ SleepQueueAgrees' /\ SleepKeysNotNegative'
    BY <1>1, <1>2, <1>4 DEF ClkInv, ClkTypeOK, SleepQueueAgrees,
                            SleepKeysNotNegative, InState
  <2>3. CASE Enter("strtclk", 1, clkdiff)
    <3>1. "strtclk" \in KernelOps \ SemSections /\ Op \notin SemSections
          /\ 1 \in Int /\ clkdiff \in Int
      BY <1>1, <1>2 DEF KernelOps, SemSections
    <3>2. /\ SchedInv' /\ SemInv' /\ MsgTypeOK'
          /\ Op' = "strtclk" /\ kctx'[currpid'].arg = 1 /\ kctx'[currpid'].n = clkdiff
      BY <1>1, <2>1, <2>3, <3>1, EnterStep, SchedTypes
    <3>3. SleepTopAgrees'
      BY <3>2 DEF SleepTopAgrees
    <3>4. Len(clockq') \in Nat
      BY <2>2, LenProperties DEF ClkTypeOK
    <3>5. ClkSection'
      BY <1>2, <3>2, <3>4 DEF ClkSection
    <3> QED BY <2>2, <3>2, <3>3, <3>5 DEF IInv, ClkInv
  <2>4. CASE Enter("strtclk_tail", 0, 0)
    <3>1. "strtclk_tail" \in KernelOps \ SemSections /\ Op \notin SemSections
          /\ 0 \in Int
      BY <1>1 DEF KernelOps, SemSections
    <3>2. SchedInv' /\ SemInv' /\ MsgTypeOK' /\ Op' = "strtclk_tail"
      BY <1>1, <2>1, <2>4, <3>1, EnterStep, SchedTypes
    <3>3. SleepTopAgrees' /\ ClkSection'
      BY <1>1, <3>2 DEF ClkInv, SleepTopAgrees, ClkSection
    <3> QED BY <2>2, <3>2, <3>3 DEF IInv, ClkInv
  <2> QED BY <1>4, <2>3, <2>4
<1> QED BY <1>3, <1>4 DEF StrtClk

LEMMA StrtClkWalkStep ==
    ASSUME IInv, StrtClkWalk, UNCHANGED <<semVars, msgVars>>
    PROVE  IInv'
<1> DEFINE i == kctx[currpid].arg
           n == kctx[currpid].n
           b == clockq[i]
           m == n - qkey[b]
<1>1. Op = "strtclk" /\ exited = FALSE /\ ClkInv /\ TabOK /\ currpid \in Procs
  BY SectionFacts DEF StrtClkWalk, IInv
<1>2. i \in 1 .. Len(clockq) + 1 /\ n >= 0 /\ n \in Int
  BY <1>1 DEF ClkInv, ClkSection, TabOK
<1>3. /\ i <= Len(clockq) /\ qkey[b] < n
      /\ Enter("strtclk", i + 1, m)
      /\ qkey' = [qkey EXCEPT ![b] = 0]
      /\ UNCHANGED <<tabVars, pstate, rdyq, currpid, preempt, uctx, clkVars>>
  BY DEF StrtClkWalk
<1> HIDE DEF i, n
<1>4. /\ i \in 1 .. Len(clockq) /\ Len(clockq) \in Nat
      /\ b \in Procs /\ qkey[b] \in Int
  <2>1. Len(clockq) \in Nat
    BY SchedTypes, LenProperties
  <2>2. i \in 1 .. Len(clockq)
    BY <1>2, <1>3, <2>1
  <2> QED BY <2>1, <2>2, SchedTypes
<1>5. i + 1 \in Int /\ m \in Int /\ m >= 0
  BY <1>2, <1>3, <1>4
<1> HIDE DEF m, b
<1>6. /\ SchedInv' /\ SemInv' /\ MsgTypeOK'
      /\ Op' = "strtclk" /\ kctx'[currpid'].arg = i + 1 /\ kctx'[currpid'].n = m
  <2>1. "strtclk" \in KernelOps \ SemSections /\ Op \notin SemSections
    BY <1>1 DEF KernelOps, SemSections
  <2>2. qkey' \in [Procs -> Int]
    <3>1. qkey \in [Procs -> Int] /\ 0 \in Int
      BY SchedTypes
    <3> QED BY <1>3, <3>1
  <2> QED BY <1>1, <1>3, <1>5, <2>1, <2>2, EnterStep, SchedTypes
<1>7. ClkTypeOK' /\ SleepQueueAgrees'
  BY <1>1, <1>3 DEF ClkInv, ClkTypeOK, SleepQueueAgrees, InState, clkVars
<1>8. SleepKeysNotNegative'
  BY <1>1, <1>3, <1>4, SchedTypes DEF ClkInv, SleepKeysNotNegative, InState
<1>9. SleepTopAgrees' /\ ClkSection'
  BY <1>3, <1>4, <1>5, <1>6 DEF SleepTopAgrees, ClkSection, clkVars
<1> QED BY <1>6, <1>7, <1>8, <1>9 DEF IInv, ClkInv

LEMMA StrtClkWalkDoneStep ==
    ASSUME IInv, StrtClkWalkDone, UNCHANGED <<semVars, msgVars>>
    PROVE  IInv'
<1> DEFINE i == kctx[currpid].arg
           n == kctx[currpid].n
           b == clockq[i]
<1>1. Op = "strtclk" /\ exited = FALSE /\ ClkInv /\ TabOK /\ currpid \in Procs
  BY SectionFacts DEF StrtClkWalkDone, IInv
<1>2. i \in 1 .. Len(clockq) + 1 /\ n >= 0 /\ n \in Int
  BY <1>1 DEF ClkInv, ClkSection, TabOK
<1>3. /\ \/ UNCHANGED qkey
         \/ i <= Len(clockq) /\ qkey[b] >= n /\ qkey' = [qkey EXCEPT ![b] = @ - n]
      /\ Enter("wakeup_strtclk", 0, 0)
      /\ UNCHANGED <<tabVars, pstate, rdyq, currpid, preempt, uctx, clkVars>>
  BY DEF StrtClkWalkDone
<1> HIDE DEF i, n
<1>4. i <= Len(clockq) => b \in Procs /\ qkey[b] \in Int
  BY <1>2, SchedTypes, LenProperties
<1> HIDE DEF b
<1>5. qkey' \in [Procs -> Int]
  BY <1>2, <1>3, <1>4, SchedTypes
<1>6. SchedInv' /\ SemInv' /\ MsgTypeOK' /\ Op' = "wakeup_strtclk"
  <2>1. "wakeup_strtclk" \in KernelOps \ SemSections /\ Op \notin SemSections
        /\ 0 \in Int
    BY <1>1 DEF KernelOps, SemSections
  <2> QED BY <1>1, <1>3, <1>5, <2>1, EnterStep, SchedTypes
<1>7. ClkTypeOK' /\ SleepQueueAgrees'
  BY <1>1, <1>3 DEF ClkInv, ClkTypeOK, SleepQueueAgrees, InState, clkVars
<1>8. SleepKeysNotNegative'
  <2> SUFFICES ASSUME NEW p \in InState("PRSLEEP") PROVE qkey'[p] >= 0
    BY <1>3 DEF SleepKeysNotNegative, InState
  <2>1. p \in Procs /\ qkey[p] \in Int /\ qkey[p] >= 0
    BY <1>1, SchedTypes DEF ClkInv, SleepKeysNotNegative, InState
  <2>2. qkey \in [Procs -> Int]
    BY SchedTypes
  <2>3. qkey'[p] = qkey[p] \/ (p = b /\ qkey[b] >= n /\ qkey'[p] = qkey[b] - n)
    BY <1>3, <2>1, <2>2
  <2> QED BY <1>2, <2>1, <2>3
<1>9. SleepTopAgrees' /\ ClkSection'
  BY <1>6 DEF SleepTopAgrees, ClkSection
<1> QED BY <1>6, <1>7, <1>8, <1>9 DEF IInv, ClkInv

LEMMA StrtClkEndStep ==
    ASSUME IInv, StrtClkEnd, UNCHANGED <<semVars, msgVars>>
    PROVE  IInv'
<1>1. Op = "strtclk_tail" /\ SemInv /\ ClkInv
  BY SectionFacts DEF StrtClkEnd, IInv
<1>2. SchedInv' /\ SemKept /\ ClkKept /\ Op' \in Resumable
  BY LeaveYield, PreemptType DEF StrtClkEnd, Yield, schedVars
<1> QED BY <1>1, <1>2, SemFrame, ClkFrame, MsgFrame
        DEF StrtClkEnd, SemDrains, ClkDrains, Resumable, IInv

-----------------------------------------------------------------------------
(* create and kill.                                                        *)

(* An entry of the table is taken for a new process.                       *)
LEMMA NewProcessStep ==
    ASSUME IInv, Interruptible, NEW ssize \in Nat, NEW priority \in 1 .. MAXINT,
           freemem >= ssize + MINSTK,
           NEW pid \in Procs, NewProcess(pid, ssize, priority)
    PROVE  IInv'
<1>1. /\ TabOK /\ SchedOKNow /\ Op = "none" /\ exited = FALSE
      /\ currpid \in Procs /\ pstate[currpid] = "PRCURR"
      /\ \A p \in Procs : kctx[p].op \in Resumable
      /\ SemInv /\ ClkInv /\ MsgTypeOK
  BY OutOfKernelFacts DEF IInv, SchedOKNow, SchedOK, CurrentIn
<1>2. /\ pstate[pid] = "PRFREE"
      /\ nextproc' = NextProcAfter(pid)
      /\ numproc' = numproc + 1
      /\ freemem' = freemem - (ssize + MINSTK)
      /\ pstate' = [pstate EXCEPT ![pid] = "PRSUSP"]
      /\ pprio' = [pprio EXCEPT ![pid] = priority]
      /\ pstklen' = [pstklen EXCEPT ![pid] = ssize]
      /\ psem' = [psem EXCEPT ![pid] = 0]
      /\ phasmsg' = [phasmsg EXCEPT ![pid] = FALSE]
      /\ kctx' = [kctx EXCEPT ![pid] = OutOfKernel]
      /\ uctx' = [uctx EXCEPT ![pid] = Running]
      /\ UNCHANGED <<rdyq, qkey, currpid, preempt, exited>>
      /\ UNCHANGED <<sstate, semcnt, semq, nextsem, pmsg, clkVars>>
  BY DEF NewProcess, IsNewPid
<1>3. ssize \in Nat /\ priority \in 0 .. MAXINT /\ freemem' \in Nat
  <2>1. freemem \in Nat
    BY <1>1 DEF TabOK
  <2> QED BY <1>2, <2>1, ConstFacts
<1>4. nextproc' \in Procs
  BY <1>2, ConstFacts DEF NextProcAfter, Procs
<1>5. OutOfKernel \in [op : KernelOps, arg : Int, n : Int]
      /\ OutOfKernel.op = "none"
      /\ Running \in [op : UserOps, n : Nat]
  BY DEF OutOfKernel, InKernel, KernelOps, Running, InUser, UserOps
<1>6. TabOK'
  BY <1>1, <1>2, <1>3, <1>4, <1>5 DEF TabOK
<1>7. exited' = FALSE /\ NullOnlyRuns' /\ \A p \in Procs : kctx'[p].op \in Resumable
  <2>1. uctx[NULLPROC] = Running /\ uctx \in [Procs -> [op : UserOps, n : Nat]]
    BY SchedTypes
  <2>2. kctx \in [Procs -> [op : KernelOps, arg : Int, n : Int]]
    BY <1>1 DEF TabOK
  <2> QED BY <1>1, <1>2, <1>5, <2>1, <2>2, ConstFacts DEF NullOnlyRuns, Resumable
<1>8. SchedOKNext
  <2>1. pstate' \in [Procs -> States]
    BY <1>1, <1>2 DEF SchedOKNow, SchedOK, States
  <2>2. CurrentIn(pstate') = CurrentIn(pstate) /\ ReadyIn(pstate') = ReadyIn(pstate)
    BY <1>1, <1>2 DEF CurrentIn, ReadyIn, SchedOKNow, SchedOK
  <2>3. pstate'[NULLPROC] \in Runnable
    BY <1>1, <1>2, ConstFacts DEF SchedOKNow, SchedOK, Runnable
  <2> QED BY <1>1, <1>2, <2>1, <2>2, <2>3 DEF SchedOKNow, SchedOKNext, SchedOK
<1>9. SchedInv'
  BY <1>6, <1>7, <1>8, SchedInvAfter
<1>10. /\ \A p \in Procs : pstate'[p] = "PRWAIT" <=> pstate[p] = "PRWAIT"
       /\ ClkKept /\ Op' = "none"
  BY <1>1, <1>2, <1>5, SchedTypes DEF ClkKept, Op, TabOK
<1>11. ClkInv'
  BY <1>1, <1>2, <1>10, ClkFrame DEF ClkDrains
<1>12. MsgTypeOK'
  BY <1>1, <1>2 DEF MsgTypeOK
<1>13. SemTypeOK'
  <2>1. 0 \in Sems
    BY ConstFacts DEF Sems
  <2> QED BY <1>1, <1>2, <2>1 DEF SemInv, SemTypeOK
<1>14. SemQueuesAgree'
  <2>1. \A p \in Procs : pstate[p] = "PRWAIT" => psem'[p] = psem[p]
    BY <1>1, <1>2 DEF SemInv, SemTypeOK
  <2>2. \A s \in Sems : WaitingOn(s)' = WaitingOn(s)
    BY <1>10, <2>1 DEF WaitingOn, InState
  <2> QED BY <1>1, <1>2, <2>2 DEF SemInv, SemQueuesAgree
<1>15. SemaphoreCountOwesQueue' /\ SemSection'
  BY <1>1, <1>2, <1>10 DEF SemInv, SemaphoreCountOwesQueue, SemSection
<1> QED BY <1>9, <1>11, <1>12, <1>13, <1>14, <1>15 DEF IInv, SemInv

LEMMA CreateStep ==
    ASSUME IInv, NEW ssize \in Nat, NEW priority \in Int, priority <= MAXINT,
           Create(ssize, priority)
    PROVE  IInv'
<1>1. Interruptible /\ TabOK
  BY CallFacts, OutOfKernelFacts DEF Create
<1>2. CASE SemError /\ UNCHANGED <<msgVars, clkVars>>
  BY <1>1, <1>2, ExitStep DEF SemError
<1>3. CASE /\ ~CreateRefused(ssize, priority)
           /\ \E pid \in Procs : NewProcess(pid, ssize, priority)
  <2>1. PICK pid \in Procs : NewProcess(pid, ssize, priority)
    BY <1>3
  <2>2. priority \in 1 .. MAXINT /\ freemem >= ssize + MINSTK
    <3>1. freemem \in Nat
      BY <1>1 DEF TabOK
    <3> QED BY <1>3, <3>1, ConstFacts DEF CreateRefused
  <2> QED BY <1>1, <2>1, <2>2, NewProcessStep
<1> QED BY <1>2, <1>3 DEF Create

(* What kill does whatever the victim's state is.                          *)
LEMMA KillFacts ==
    ASSUME IInv, NEW pid \in PidArgs, Kill(pid)
    PROVE  /\ TabOK /\ SchedOKNow /\ Op = "none" /\ exited = FALSE
           /\ SemInv /\ ClkInv
           /\ currpid \in Procs /\ pstate[currpid] = "PRCURR"
           /\ pid \in Procs /\ pid # NULLPROC
           /\ TabOK' /\ NullOnlyRuns' /\ exited' = FALSE /\ MsgTypeOK'
           /\ \A p \in Procs : kctx'[p].op \in Resumable
<1>1. /\ TabOK /\ SchedOKNow /\ Op = "none" /\ exited = FALSE
      /\ SemInv /\ ClkInv
      /\ currpid \in Procs /\ pstate[currpid] = "PRCURR"
      /\ \A p \in Procs : kctx[p].op \in Resumable
  BY CallFacts, OutOfKernelFacts DEF Kill, IInv
<1>2. pid \in Procs /\ pid # NULLPROC
  BY ConstFacts DEF Kill, isbadpid, PidArgs, Procs, NULLPROC
<1>3. /\ numproc' = numproc - 1
      /\ freemem' = freemem + pstklen[pid]
      /\ kctx' = [kctx EXCEPT ![pid] = OutOfKernel]
      /\ uctx' = [uctx EXCEPT ![pid] = Running]
      /\ UNCHANGED <<pprio, pstklen, nextproc, exited, msgVars>>
  BY DEF Kill
<1>4. /\ OutOfKernel \in [op : KernelOps, arg : Int, n : Int]
      /\ OutOfKernel.op = "none"
      /\ Running \in [op : UserOps, n : Nat]
  BY DEF OutOfKernel, InKernel, KernelOps, Running, InUser, UserOps
<1>5. pstklen[pid] \in Nat
  BY <1>1, <1>2 DEF TabOK
<1>6. TabOK'
  BY <1>1, <1>2, <1>3, <1>4, <1>5 DEF TabOK
<1>7. uctx[NULLPROC] = Running /\ uctx \in [Procs -> [op : UserOps, n : Nat]]
  BY SchedTypes
<1>8. NullOnlyRuns' /\ \A p \in Procs : kctx'[p].op \in Resumable
  BY <1>1, <1>2, <1>3, <1>4, <1>7, ConstFacts DEF NullOnlyRuns, Resumable, TabOK
<1> QED BY <1>1, <1>2, <1>3, <1>6, <1>8, MsgFrame

(* A victim that is not runnable leaves who runs alone.                    *)
LEMMA FreedOffReadyList ==
    ASSUME SchedOKNow, NEW pid \in Procs, pid # NULLPROC, pstate[pid] \notin Runnable,
           pstate' = [pstate EXCEPT ![pid] = "PRFREE"],
           qkey' \in [Procs -> Int], UNCHANGED <<rdyq, currpid, preempt>>
    PROVE  SchedOKNext
<1> USE DEF SchedOKNow, SchedOK
<1>1. /\ pstate' \in [Procs -> States]
      /\ ReadyIn(pstate') = ReadyIn(pstate)
      /\ CurrentIn(pstate') = CurrentIn(pstate)
      /\ pstate'[NULLPROC] \in Runnable
  BY ConstFacts DEF ReadyIn, CurrentIn, Runnable, States
<1> QED BY <1>1 DEF SchedOKNext

LEMMA KillEnds ==
    ASSUME IInv, NEW pid \in PidArgs, Kill(pid), SchedOKNext,
           (SemKept /\ UNCHANGED semVars) \/ SemInv',
           (ClkKept /\ UNCHANGED clkVars) \/ ClkInv'
    PROVE  IInv'
<1>1. Op' \in Resumable
  BY KillFacts DEF SchedOKNext, SchedOK, Op
<1>2. SchedInv'
  BY KillFacts, SchedInvAfter
<1>3. SemInv' /\ ClkInv'
  BY <1>1, KillFacts, SemFrame, ClkFrame DEF SemDrains, ClkDrains, Resumable
<1> QED BY <1>2, <1>3, KillFacts DEF IInv

LEMMA KillWaitingStep ==
    ASSUME IInv, NEW pid \in PidArgs, Kill(pid), KillWaiting(pid)
    PROVE  SchedOKNext /\ SemInv' /\ ClkKept
<1> DEFINE s == psem[pid]
           nq == Dequeue(semq[s], pid)
<1>1. /\ pstate[pid] = "PRWAIT" /\ pid \in Procs /\ pid # NULLPROC
      /\ SchedOKNow /\ Op = "none" /\ SemInv /\ currpid \in Procs
  BY KillFacts DEF KillWaiting
<1>2. /\ semcnt' = [semcnt EXCEPT ![s] = semcnt[s] + 1]
      /\ semq' = [semq EXCEPT ![s] = nq]
      /\ pstate' = [pstate EXCEPT ![pid] = "PRFREE"]
      /\ UNCHANGED <<rdyq, qkey, currpid, preempt, sstate, psem, nextsem>>
  BY DEF KillWaiting
<1>3. s \in Sems
  BY <1>1 DEF SemInv, SemTypeOK
<1>4. SchedOKNext
  BY <1>1, <1>2, SchedTypes, FreedOffReadyList DEF Runnable
<1>5. SemKeptBut(pid) /\ ClkKeptBut(pid) /\ pstate'[pid] = "PRFREE"
  BY <1>1, <1>2 DEF SemKeptBut, ClkKeptBut, SchedOKNow, SchedOK
<1>6. ClkKept
  BY <1>1, <1>5, ButIsEnough
<1>7. pid \in WaitingOn(s) /\ semq[s] \in Seq(Procs) /\ Holds(semq[s], WaitingOn(s))
  BY <1>1, <1>3 DEF WaitingOn, InState, SemInv, SemTypeOK, SemQueuesAgree
<1>8. /\ nq \in Seq(Procs) /\ Len(nq) = Len(semq[s]) - 1
      /\ Holds(nq, WaitingOn(s) \ {pid})
  BY <1>7, DequeueHolds
<1>9. \A t \in Sems : Len(semq[t]) = IF sstate[t] = "SUSED" /\ semcnt[t] < 0
                                     THEN -semcnt[t] ELSE 0
  BY <1>1 DEF SemInv, SemaphoreCountOwesQueue
<1>10. Len(semq[s]) # 0
  BY <1>7, <1>8, LenProperties
<1>11. sstate[s] = "SUSED" /\ semcnt[s] < 0 /\ semcnt[s] \in Int
  BY <1>1, <1>3, <1>9, <1>10 DEF SemInv, SemTypeOK
<1> HIDE DEF nq, s
<1>12. SemQueuesAgree' /\ semq' \in [Sems -> Seq(Procs)]
  BY <1>1, <1>2, <1>3, <1>5, <1>8, WaiterLeaves DEF s
<1>13. /\ semcnt'[s] = semcnt[s] + 1 /\ semq'[s] = nq
       /\ \A t \in Sems \ {s} : semcnt'[t] = semcnt[t] /\ semq'[t] = semq[t]
  BY <1>1, <1>2, <1>3 DEF SemInv, SemTypeOK
<1>14. SemTypeOK'
  <2>1. semcnt' \in [Sems -> {n \in Int : n <= MaxCount}]
    BY <1>1, <1>2, <1>3, <1>11, ConstFacts DEF SemInv, SemTypeOK
  <2> QED BY <1>1, <1>2, <1>12, <2>1 DEF SemInv, SemTypeOK
<1>15. SemaphoreCountOwesQueue'
  BY <1>2, <1>3, <1>8, <1>9, <1>11, <1>13 DEF SemaphoreCountOwesQueue
<1>16. Op' \in Resumable
  BY <1>1, <1>2, KillFacts DEF Op
<1>17. SemSection'
  BY <1>16 DEF SemSection, Resumable
<1> QED BY <1>4, <1>6, <1>12, <1>14, <1>15, <1>17 DEF SemInv

LEMMA KillSleepingStep ==
    ASSUME IInv, NEW pid \in PidArgs, Kill(pid), KillSleeping(pid)
    PROVE  SchedOKNext /\ SemKept /\ ClkInv'
<1>1. /\ pstate[pid] = "PRSLEEP" /\ pid \in Procs /\ pid # NULLPROC
      /\ SchedOKNow /\ Op = "none" /\ ClkInv /\ currpid \in Procs
  BY KillFacts DEF KillSleeping
<1>2. /\ qkey' = [p \in Procs |-> IF p \in Successors(pid)
                                  THEN qkey[p] + qkey[pid] ELSE qkey[p]]
      /\ clockq' = Dequeue(clockq, pid)
      /\ slnempty' = (clockq' # <<>>)
      /\ sltop' = IF clockq' # <<>> THEN TopOf(clockq') ELSE NoEntry
      /\ pstate' = [pstate EXCEPT ![pid] = "PRFREE"]
      /\ UNCHANGED <<rdyq, currpid, preempt, countVars>>
  BY DEF KillSleeping
<1>3. /\ qkey \in [Procs -> Int] /\ clockq \in Seq(Procs) /\ Len(clockq) \in Nat
      /\ Holds(clockq, InState("PRSLEEP"))
      /\ \A i \in 1 .. Len(clockq) :
            clockq[i] \in Procs /\ qkey[clockq[i]] \in Int /\ qkey[clockq[i]] >= 0
      /\ pid \in InState("PRSLEEP")
  BY <1>1, SchedTypes, LenProperties DEF InState
<1>4. qkey[pid] \in Int /\ qkey[pid] >= 0
  BY <1>1, <1>3 DEF ClkInv, SleepKeysNotNegative
<1>5. /\ qkey' \in [Procs -> Int]
      /\ \A p \in Procs : qkey'[p] >= qkey[p]
      /\ \A p \in Successors(pid) \cap Procs : qkey'[p] = qkey[p] + qkey[pid]
  BY <1>2, <1>3, <1>4
<1>6. SchedOKNext
  BY <1>1, <1>2, <1>5, FreedOffReadyList DEF Runnable
<1>7. SemKept
  BY <1>1, <1>2 DEF SemKept, SchedOKNow, SchedOK
<1>8. InState("PRSLEEP")' = InState("PRSLEEP") \ {pid}
  BY <1>1, <1>2 DEF InState, SchedOKNow, SchedOK
<1>9. PICK i \in 1 .. Len(clockq) :
        /\ clockq[i] = pid /\ clockq' = RemoveAt(clockq, i)
  <2>1. \E j \in DOMAIN clockq : clockq[j] = pid
    BY <1>3 DEF Holds, ToSet
  <2>2. DOMAIN clockq = 1 .. Len(clockq)
    BY <1>3, LenProperties
  <2> QED BY <1>2, <2>1, <2>2 DEF Dequeue
<1>10. /\ clockq' \in Seq(Procs) /\ Len(clockq') = Len(clockq) - 1
       /\ Holds(clockq', InState("PRSLEEP")')
       /\ \A j \in 1 .. Len(clockq) - 1 :
             clockq'[j] = IF j < i THEN clockq[j] ELSE clockq[j + 1]
  <2>1. /\ RemoveAt(clockq, i) \in Seq(Procs)
        /\ Len(RemoveAt(clockq, i)) = Len(clockq) - 1
        /\ Holds(RemoveAt(clockq, i), InState("PRSLEEP") \ {clockq[i]})
    BY <1>3, RemoveAtHolds
  <2>2. \A j \in 1 .. Len(clockq) - 1 : RemoveAt(clockq, i)[j] =
            IF j < i THEN clockq[j] ELSE clockq[j + 1]
    BY <1>3, RemoveAtShape
  <2> QED BY <1>8, <1>9, <2>1, <2>2
<1>11. ASSUME clockq' # <<>>
       PROVE  Head(clockq') \in Procs /\ qkey'[Head(clockq')] > 0
  <2>1. Len(clockq') \in Nat /\ Len(clockq') # 0
    BY <1>10, <1>11, LenProperties, EmptySeq
  <2>2. 1 \in 1 .. Len(clockq) - 1 /\ 1 \in 1 .. Len(clockq) /\ 2 \in 1 .. Len(clockq)
    BY <1>3, <1>10, <2>1
  <2>3. Head(clockq') = IF 1 < i THEN clockq[1] ELSE clockq[2]
    BY <1>10, <2>2
  <2>4. qkey[clockq[1]] > 0
    <3>1. clockq # <<>> /\ Head(clockq) = clockq[1]
      BY <1>3, <2>2
    <3> QED BY <1>1, <3>1 DEF ClkInv, SleepTopAgrees
  <2>5. CASE 1 < i
    <3>1. clockq[1] \in Procs /\ qkey[clockq[1]] \in Int /\ qkey'[clockq[1]] \in Int
      BY <1>3, <1>5, <2>2
    <3> QED BY <1>5, <2>3, <2>4, <2>5, <3>1
  <2>6. CASE i = 1
    <3>1. clockq[1] = pid
      BY <1>9, <2>6
    <3>2. clockq[2] \in Successors(pid) /\ clockq[2] \in Procs
      <4>1. 2 - 1 = 1 /\ 2 \in 2 .. Len(clockq)
        BY <1>3, <2>2
      <4>2. 2 \in {j \in 2 .. Len(clockq) : clockq[j - 1] = pid}
        BY <3>1, <4>1
      <4> QED BY <1>3, <2>2, <4>2 DEF Successors
    <3>3. qkey[clockq[2]] \in Int /\ qkey[clockq[2]] >= 0
      BY <1>3, <2>2
    <3>4. qkey'[clockq[2]] = qkey[clockq[2]] + qkey[pid]
      BY <1>5, <3>2
    <3> QED BY <1>4, <2>3, <2>4, <2>6, <3>1, <3>2, <3>3, <3>4
  <2> QED BY <1>9, <2>5, <2>6
<1>12. ClkTypeOK' /\ SleepQueueAgrees'
  BY <1>1, <1>2, <1>10, <1>11
     DEF ClkInv, ClkTypeOK, SleepQueueAgrees, countVars, TopOf
<1>13. SleepKeysNotNegative'
  <2> SUFFICES ASSUME NEW p \in InState("PRSLEEP") PROVE qkey'[p] >= 0
    BY <1>8 DEF SleepKeysNotNegative
  <2>1. p \in Procs /\ qkey[p] \in Int /\ qkey[p] >= 0 /\ qkey'[p] \in Int
    BY <1>1, <1>3, <1>5 DEF ClkInv, SleepKeysNotNegative, InState
  <2> QED BY <1>5, <2>1
<1>14. SleepTopAgrees'
  BY <1>2, <1>11 DEF SleepTopAgrees, TopOf
<1>15. Op' \in Resumable
  BY <1>1, <1>2, KillFacts DEF Op
<1>16. ClkSection'
  BY <1>15 DEF ClkSection, Resumable
<1> QED BY <1>6, <1>7, <1>12, <1>13, <1>14, <1>16 DEF ClkInv

LEMMA KillStep ==
    ASSUME IInv, NEW pid \in PidArgs, Kill(pid)
    PROVE  IInv'
<1>1. /\ TabOK /\ SchedOKNow /\ currpid \in Procs /\ pstate[currpid] = "PRCURR"
      /\ pid \in Procs /\ pid # NULLPROC
  BY KillFacts
<1>2. CASE KillCurrent(pid)
  <2>1. pid = currpid /\ Block("PRFREE") /\ UNCHANGED <<semVars, clkVars>>
    BY <1>1, <1>2 DEF KillCurrent, SchedOKNow, SchedOK, CurrentIn
  <2>2. SchedOKNext /\ SemKept /\ ClkKept
    BY <1>1, <2>1, PprioInt, BlockedKept DEF States
  <2> QED BY <2>1, <2>2, KillEnds
<1>3. CASE KillWaiting(pid)
  BY <1>3, KillWaitingStep, KillEnds DEF KillWaiting
<1>4. CASE KillSleeping(pid)
  BY <1>4, KillSleepingStep, KillEnds DEF KillSleeping
<1>5. CASE KillReady(pid)
  <2>1. /\ pstate[pid] = "PRREADY" /\ rdyq' = Dequeue(rdyq, pid)
        /\ pstate' = [pstate EXCEPT ![pid] = "PRFREE"]
        /\ UNCHANGED <<qkey, currpid, preempt, semVars, clkVars>>
    BY <1>5 DEF KillReady
  <2>2. SchedOKNext
    BY <1>1, <2>1, UnreadyStep DEF States, Runnable
  <2>3. SemKept /\ ClkKept
    BY <1>1, <2>1 DEF SemKept, ClkKept, SchedOKNow, SchedOK
  <2> QED BY <2>1, <2>2, <2>3, KillEnds
<1>6. CASE KillOffQueues(pid)
  <2>1. /\ pstate[pid] \in {"PRSUSP", "PRRECV"}
        /\ pstate' = [pstate EXCEPT ![pid] = "PRFREE"]
        /\ UNCHANGED <<rdyq, qkey, currpid, preempt, semVars, clkVars>>
    BY <1>6 DEF KillOffQueues
  <2>2. SchedOKNext
    BY <1>1, <2>1, SchedTypes, FreedOffReadyList DEF Runnable
  <2>3. SemKept /\ ClkKept
    BY <1>1, <2>1 DEF SemKept, ClkKept, SchedOKNow, SchedOK
  <2> QED BY <2>1, <2>2, <2>3, KillEnds
<1> QED BY <1>2, <1>3, <1>4, <1>5, <1>6 DEF Kill

-----------------------------------------------------------------------------
(* The tty interrupt, and the program after it has exited.                 *)

LEMMA TtyInterruptStep ==
    ASSUME IInv, TtyInterrupt
    PROVE  IInv'
<1>1. PICK s \in TtySems : IOInterrupt(s)
  BY DEF TtyInterrupt
<1>2. s \in SemArgs
  BY ConstFacts DEF TtySems, ISEM, OSEM, SemArgs, Sems
<1>3. /\ Interruptible /\ UNCHANGED <<msgVars, clkVars>>
      /\ SignalBody(s) \/ \E count \in Counts : SignalNBody(s, count)
  BY <1>1 DEF TtyInterrupt, IOInterrupt
<1> QED BY <1>2, <1>3, SignalBodyStep, SignalNBodyStep

(* The state stays as it is.                                               *)
LEMMA StutterStep ==
    ASSUME IInv, UNCHANGED vars
    PROVE  IInv'
<1> USE DEF vars, procVars, semVars, msgVars, clkVars
<1>1. SchedInv'
  BY DEF IInv, SchedInv, ProcTypeOK, CurrentIsCurrpid, ReadyQueueAgrees,
         NullProcessReady, NullOnlyRuns, SwitchedOutCleanly, OutOfKernelAtExit,
         InState, Op
<1>2. SemInv'
  BY DEF IInv, SemInv, SemTypeOK, SemQueuesAgree, SemaphoreCountOwesQueue,
         SemSection, WaitingOn, InState, Op
<1>3. ClkInv'
  BY DEF IInv, ClkInv, ClkTypeOK, SleepQueueAgrees, SleepTopAgrees,
         SleepKeysNotNegative, ClkSection, InState, Op
<1>4. MsgTypeOK'
  BY DEF IInv, MsgTypeOK
<1> QED BY <1>1, <1>2, <1>3, <1>4 DEF IInv

-----------------------------------------------------------------------------
(* The initial state, and the theorems.                                    *)

LEMMA EmptyQueue ==
    ASSUME NEW S
    PROVE  <<>> \in Seq(S) /\ Len(<<>>) = 0 /\ Holds(<<>>, {})
<1>1. <<>> \in Seq(S) /\ Len(<<>>) = 0
  OBVIOUS
<1>2. DOMAIN <<>> = {}
  OBVIOUS
<1> QED BY <1>1, <1>2 DEF Holds, IsInjective, ToSet

LEMMA OneInQueue ==
    ASSUME NEW S, NEW e \in S
    PROVE  <<e>> \in Seq(S) /\ Holds(<<e>>, {e})
<1>1. <<e>> \in Seq(S)
  OBVIOUS
<1>2. DOMAIN <<e>> = {1} /\ <<e>>[1] = e
  OBVIOUS
<1> QED BY <1>1, <1>2 DEF Holds, IsInjective, ToSet

LEMMA InitIInv == Init => IInv
<1> SUFFICES ASSUME Init PROVE IInv
  OBVIOUS
<1> USE DEF Init
<1>1. /\ FirstUser \in Procs /\ FirstUser # NULLPROC
      /\ NextProcAfter(FirstUser) \in Procs
      /\ ISEM \in Sems /\ OSEM \in Sems /\ 0 \in Sems
      /\ NextSemAfter(OSEM) \in Sems
  BY ConstFacts DEF FirstUser, Procs, NULLPROC, NextProcAfter, Sems, ISEM, OSEM,
                    NextSemAfter
<1>2. /\ OutOfKernel \in [op : KernelOps, arg : Int, n : Int]
      /\ OutOfKernel.op = "none"
      /\ Running \in [op : UserOps, n : Nat]
  BY DEF OutOfKernel, InKernel, KernelOps, Running, InUser, UserOps
<1>3. /\ pstate \in [Procs -> States]
      /\ pstate[NULLPROC] = "PRREADY" /\ pstate[FirstUser] = "PRCURR"
      /\ \A p \in Procs \ {NULLPROC, FirstUser} : pstate[p] = "PRFREE"
      /\ currpid = FirstUser
  BY <1>1, ConstFacts DEF ProcInit, States
<1>4. Op = "none" /\ \A p \in Procs : kctx[p].op = "none"
  BY <1>1, <1>2 DEF ProcInit, Op
<1>5. TabOK
  <2>1. pprio \in [Procs -> 0 .. MAXINT]
    BY <1>1, ConstFacts DEF ProcInit
  <2>2. pstklen \in [Procs -> Nat] /\ freemem \in Nat
    BY <1>1, ConstFacts DEF ProcInit
  <2>3. /\ kctx \in [Procs -> [op : KernelOps, arg : Int, n : Int]]
        /\ uctx \in [Procs -> [op : UserOps, n : Nat]]
    BY <1>2 DEF ProcInit
  <2>4. numproc = 2 /\ nextproc = NextProcAfter(FirstUser) /\ exited = FALSE
    BY DEF ProcInit
  <2> HIDE DEF Init
  <2>5. numproc \in Int
    BY <2>4
  <2>6. nextproc \in Procs
    BY <1>1, <2>4
  <2>7. exited \in BOOLEAN
    BY <2>4, Zenon
  <2> QED BY <2>1, <2>2, <2>3, <2>5, <2>6, <2>7 DEF TabOK
<1>6. SchedOKNow
  <2>1. ReadyIn(pstate) = {NULLPROC} /\ CurrentIn(pstate) = {currpid}
    BY <1>1, <1>3, ConstFacts DEF ReadyIn, CurrentIn
  <2>2. rdyq \in Seq(Procs) /\ Holds(rdyq, {NULLPROC})
    BY OneInQueue, ConstFacts DEF ProcInit
  <2>3. qkey \in [Procs -> Int] /\ preempt \in -1 .. QUANTUM
    BY ConstFacts DEF ProcInit
  <2> QED BY <1>1, <1>3, <2>1, <2>2, <2>3 DEF SchedOKNow, SchedOK, Runnable
<1>7. SchedInv
  BY <1>4, <1>5, <1>6, SchedInvParts, ConstFacts
     DEF NullOnlyRuns, SwitchedOutCleanly, OutOfKernelAtExit, Resumable, ProcInit
<1>8. InState("PRWAIT") = {} /\ InState("PRSLEEP") = {}
  BY <1>3 DEF InState
<1>9. SemInv
  <2>1. SemTypeOK
    BY <1>1, EmptyQueue, ConstFacts DEF SemInit, SemTypeOK
  <2>2. SemQueuesAgree
    BY <1>8, EmptyQueue DEF SemInit, SemQueuesAgree, WaitingOn
  <2>3. SemaphoreCountOwesQueue
    <3>1. \A s \in Sems : semq[s] = <<>> /\ semcnt[s] >= 0
      BY ConstFacts DEF SemInit
    <3> QED BY <3>1, EmptyQueue, <2>1 DEF SemaphoreCountOwesQueue, SemTypeOK
  <2> QED BY <1>4, <2>1, <2>2, <2>3 DEF SemInv, SemSection
<1>10. MsgTypeOK
  BY DEF MsgInit, MsgTypeOK
<1>11. ClkInv
  <2>1. ClkTypeOK
    <3>1. clockq \in Seq(Procs)
      BY EmptyQueue DEF ClkInit
    <3>2. /\ count6 = TICKS /\ defclk = 0 /\ clkdiff = 0
          /\ slnempty = FALSE /\ sltop \in Procs \cup {NoEntry}
      BY DEF ClkInit
    <3> HIDE DEF Init
    <3>3. count6 \in 1 .. TICKS /\ defclk \in Nat /\ clkdiff \in 0 .. MaxDiff
      BY <3>2, ConstFacts
    <3>4. slnempty \in BOOLEAN
      BY <3>2, Zenon
    <3> QED BY <3>1, <3>2, <3>3, <3>4 DEF ClkTypeOK
  <2>2. SleepQueueAgrees
    BY <1>8, EmptyQueue DEF ClkInit, SleepQueueAgrees
  <2>3. SleepTopAgrees
    BY DEF ClkInit, SleepTopAgrees
  <2> QED BY <1>4, <1>8, <2>1, <2>2, <2>3
          DEF ClkInv, SleepKeysNotNegative, ClkSection
<1> QED BY <1>7, <1>9, <1>10, <1>11 DEF IInv

LEMMA CallStep == ASSUME IInv, Call PROVE IInv'
<1>1. CASE ProcCall
  <2>1. PICK pid \in PidArgs :
            \/ Suspend(pid)
            \/ Resume(pid)
            \/ \E priority \in Prios : ChPrio(pid, priority)
    BY <1>1 DEF ProcCall
  <2> QED BY <1>1, <2>1, SuspendStep, ResumeStep, ChPrioStep DEF ProcCall
<1>2. CASE SemCall
  <2>1. CASE \E s \in SemArgs : SDelete(s) \/ Wait(s) \/ Signal(s)
    <3>1. PICK s \in SemArgs : SDelete(s) \/ Wait(s) \/ Signal(s)
      BY <2>1
    <3>2. CASE Signal(s)
      <4>1. Interruptible /\ SignalBody(s)
        BY <3>2, CallFacts DEF Signal
      <4> QED BY <1>2, <4>1, SignalBodyStep DEF SemCall
    <3> QED BY <1>2, <3>1, <3>2, SDeleteStep, WaitStep DEF SemCall
  <2>2. CASE \E count \in Counts : SCreate(count)
    <3>1. PICK count \in Counts : SCreate(count)
      BY <2>2
    <3>2. count \in Int
      BY SemaphoresAssumption
    <3> QED BY <1>2, <3>1, <3>2, SCreateStep DEF SemCall
  <2>3. CASE \E s \in SemArgs, count \in Counts : SReset(s, count) \/ SignalN(s, count)
    <3>1. PICK s \in SemArgs, count \in Counts : SReset(s, count) \/ SignalN(s, count)
      BY <2>3
    <3>2. CASE SignalN(s, count)
      <4>1. Interruptible /\ SignalNBody(s, count)
        BY <3>2, CallFacts DEF SignalN
      <4> QED BY <1>2, <4>1, SignalNBodyStep DEF SemCall
    <3> QED BY <1>2, <3>1, <3>2, SResetStep DEF SemCall
  <2> QED BY <1>2, <2>1, <2>2, <2>3 DEF SemCall
<1>3. CASE MsgCall
  BY <1>3, SendStep, ReceiveStep, RecvClrStep DEF MsgCall
<1>4. CASE ClkCall
  <2>1. \A n \in Seconds : n \in Int
    BY RealClockAssumption
  <2> QED BY <1>4, <2>1, SleepStep, StopClkLoadStep, StrtClkStep DEF ClkCall
<1>5. CASE \E ssize \in StkSizes, priority \in Prios : Create(ssize, priority)
  <2>1. PICK ssize \in StkSizes, priority \in Prios : Create(ssize, priority)
    BY <1>5
  <2>2. ssize \in Nat /\ priority \in Int /\ priority <= MAXINT
    BY ProcTabAssumption
  <2> QED BY <2>1, <2>2, CreateStep
<1>6. CASE \E pid \in PidArgs : Kill(pid)
  BY <1>6, KillStep
<1> QED BY <1>1, <1>2, <1>3, <1>4, <1>5, <1>6 DEF Call

LEMMA KernelStepStep == ASSUME IInv, KernelStep PROVE IInv'
<1>1. CASE SemKernelStep /\ UNCHANGED <<msgVars, clkVars>>
  BY <1>1, ReleaseWaiterStep, SDeleteEndStep, SResetEndStep, SignalNStepStep,
     SignalNEndStep DEF SemKernelStep
<1>2. CASE ReceiveEnd /\ UNCHANGED <<semVars, clkVars>>
  BY <1>2, ReceiveEndStep
<1>3. CASE ClkKernelStep /\ UNCHANGED <<semVars, msgVars>>
  BY <1>3, InsertdWalkStep, InsertdEndStep, WakeupFirstStep, WakeupEndStep,
     ClkIntEndStep, StrtClkWalkStep, StrtClkWalkDoneStep, StrtClkEndStep
     DEF ClkKernelStep
<1> QED BY <1>1, <1>2, <1>3 DEF KernelStep

LEMMA IInvKept == IInv /\ [Next]_vars => IInv'
<1> SUFFICES ASSUME IInv, [Next]_vars PROVE IInv'
  OBVIOUS
<1>1. CASE Call
  BY <1>1, CallStep
<1>2. CASE KernelStep
  BY <1>2, KernelStepStep
<1>3. CASE UserStep
  BY <1>3, SleepNextStep, StopClkStoreStep DEF UserStep
<1>4. CASE ClockInterrupt
  BY <1>4, ClkIntStep DEF ClockInterrupt
<1>5. CASE TtyInterrupt
  BY <1>5, TtyInterruptStep
<1>6. CASE UNCHANGED vars
  BY <1>6, StutterStep
<1> QED BY <1>1, <1>2, <1>3, <1>4, <1>5, <1>6 DEF Next, Gone

-----------------------------------------------------------------------------
(* The inductive invariant holds for every value of the constants.         *)
THEOREM KernelInvariant == Spec => []IInv
BY InitIInv, IInvKept, PTL DEF Spec

(* Every variable keeps its type: no free memory below zero, no count over *)
(* the bound, no process id outside the table, whatever is called when.    *)
THEOREM TypesCorrect == Spec => []TypeOK
<1>1. IInv => TypeOK
  BY DEF IInv, SchedInv, SemInv, ClkInv, TypeOK
<1> QED BY <1>1, KernelInvariant, PTL

(* Each process is on the queue its state names, once, and on no other:    *)
(* the relinking in ready, resched, suspend, chprio, kill, the semaphores  *)
(* and the clock never loses a process or links it twice.                  *)
THEOREM QueuesAlwaysAgree == Spec => []QueuesAgree
<1>1. IInv => QueuesAgree
  BY DEF IInv, SchedInv, SemInv, ClkInv, QueuesAgree
<1> QED BY <1>1, KernelInvariant, PTL

(* resched always finds a process: the null process is ready or runs.      *)
THEOREM NullProcessAlwaysReady == Spec => []NullProcessReady
<1>1. IInv => NullProcessReady
  BY DEF IInv, SchedInv
<1> QED BY <1>1, KernelInvariant, PTL

(* A semaphore's count and its queue agree outside the loops that empty    *)
(* the queue, so signal never takes a waiter from an empty queue.          *)
THEOREM CountsAlwaysOweQueues == Spec => []SemaphoreCountOwesQueue
<1>1. IInv => SemaphoreCountOwesQueue
  BY DEF IInv, SemInv
<1> QED BY <1>1, KernelInvariant, PTL

(* "--*sltop" in clkint always counts down the key of the first sleeper.   *)
THEOREM SleepTopAlwaysAgrees == Spec => []SleepTopAgrees
<1>1. IInv => SleepTopAgrees
  BY DEF IInv, ClkInv
<1> QED BY <1>1, KernelInvariant, PTL

=============================================================================
