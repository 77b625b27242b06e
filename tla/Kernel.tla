------------------------------- MODULE Kernel -------------------------------
(***************************************************************************)
(* The kernel as a whole: processes, semaphores, messages and the clock,   *)
(* with the two calls that touch all of them, create.c and kill.c, the     *)
(* next-state relation, its fairness and the properties of the kernel.     *)
(***************************************************************************)
EXTENDS Semaphores, Messages, RealClock

vars == <<procVars, semVars, msgVars, clkVars>>

-----------------------------------------------------------------------------
(* Init: initialize.c has built the tables, ttyinit has taken its two      *)
(* semaphores, and the null process has created and resumed the first user *)
(* process, which has taken the processor from it.                         *)

FirstUser == NPROC - 1

ProcInit ==
    /\ pstate = [p \in Procs |-> CASE p = NULLPROC  -> "PRREADY"
                                   [] p = FirstUser -> "PRCURR"
                                   [] OTHER         -> "PRFREE"]
    /\ pprio = [p \in Procs |-> IF p = FirstUser THEN INITPRIO ELSE 0]
    /\ pstklen = [p \in Procs |-> IF p = FirstUser THEN INITSTK ELSE 0]
    /\ rdyq = <<NULLPROC>>
    /\ qkey = [p \in Procs |-> IF p = FirstUser THEN INITPRIO ELSE 0]
    /\ currpid = FirstUser
    /\ preempt = QUANTUM
    /\ numproc = 2
    /\ nextproc = NextProcAfter(FirstUser)
    /\ freemem = MemUnits - (INITSTK + MINSTK)
    /\ kctx = [p \in Procs |-> OutOfKernel]
    /\ uctx = [p \in Procs |-> Running]
    /\ exited = FALSE

SemInit ==
    /\ sstate = [s \in Sems |-> IF s \in TtySems THEN "SUSED" ELSE "SFREE"]
    /\ semcnt = [s \in Sems |-> IF s = OSEM THEN OBUFLEN ELSE 0]
    /\ semq = [s \in Sems |-> <<>>]
    /\ psem = [p \in Procs |-> 0]
    /\ nextsem = NextSemAfter(OSEM)

MsgInit ==
    /\ phasmsg = [p \in Procs |-> FALSE]
    /\ pmsg = [p \in Procs |-> NoMsg]

ClkInit ==
    /\ clockq = <<>>
    /\ slnempty = FALSE
    /\ sltop = NoEntry
    /\ count6 = TICKS
    /\ defclk = 0
    /\ clkdiff = 0

Init == ProcInit /\ SemInit /\ MsgInit /\ ClkInit

-----------------------------------------------------------------------------
(* create.  It takes memory for two stacks: the process's own, and one of  *)
(* MINSTK for the context it returns to when its procedure ends.           *)

(* Mutation of CreateRefused: no memory is asked for the link stack.        *)
CreateRefusedForItsStackOnly(ssize, priority) ==
    \/ ssize < MINSTK
    \/ \A p \in Procs : pstate[p] # "PRFREE"
    \/ priority < 1
    \/ freemem < ssize

CreateRefused(ssize, priority) ==
    \/ ssize < MINSTK
    \/ \A p \in Procs : pstate[p] # "PRFREE"
    \/ priority < 1
    \/ freemem < ssize + MINSTK

NewProcess(pid, ssize, priority) ==
    /\ IsNewPid(pid)
    /\ nextproc' = NextProcAfter(pid)
    /\ numproc' = numproc + 1
    /\ freemem' = freemem - (ssize + MINSTK)
    /\ pstate' = [pstate EXCEPT ![pid] = "PRSUSP"]
    /\ pprio' = [pprio EXCEPT ![pid] = priority]
    /\ pstklen' = [pstklen EXCEPT ![pid] = ssize]
    /\ psem' = [psem EXCEPT ![pid] = 0]
    /\ phasmsg' = [phasmsg EXCEPT ![pid] = FALSE]
    /\ kctx' = [kctx EXCEPT ![pid] = OutOfKernel]
    /\ uctx' = [uctx EXCEPT ![pid] = Running]
    /\ UNCHANGED <<rdyq, qkey, currpid, preempt, exited>>
    /\ UNCHANGED <<sstate, semcnt, semq, nextsem, pmsg, clkVars>>

Create(ssize, priority) ==
    /\ Calling("create")
    /\ \/ /\ CreateRefused(ssize, priority)
          /\ SemError
          /\ UNCHANGED <<msgVars, clkVars>>
       \/ /\ ~CreateRefused(ssize, priority)
          /\ \E pid \in Procs : NewProcess(pid, ssize, priority)

-----------------------------------------------------------------------------
(* kill, also called (userret) when the procedure of a process returns.    *)
(* One operator for each state the victim may be in.                       *)

KillCurrent(pid) ==
    /\ pstate[pid] = "PRCURR"
    /\ Block("PRFREE")
    /\ UNCHANGED <<semVars, clkVars>>

(* Mutation of KillWaiting: the semaphore still counts the victim.         *)
KillWaitingKeepingCount(pid) ==
    /\ pstate[pid] = "PRWAIT"
    /\ semq' = [semq EXCEPT ![psem[pid]] = Dequeue(@, pid)]
    /\ pstate' = [pstate EXCEPT ![pid] = "PRFREE"]
    /\ UNCHANGED <<rdyq, qkey, currpid, preempt>>
    /\ UNCHANGED <<sstate, semcnt, psem, nextsem, clkVars>>

KillWaiting(pid) ==
    /\ pstate[pid] = "PRWAIT"
    /\ semcnt' = [semcnt EXCEPT ![psem[pid]] = @ + 1]
    /\ semq' = [semq EXCEPT ![psem[pid]] = Dequeue(@, pid)]
    /\ pstate' = [pstate EXCEPT ![pid] = "PRFREE"]
    /\ UNCHANGED <<rdyq, qkey, currpid, preempt>>
    /\ UNCHANGED <<sstate, psem, nextsem, clkVars>>

(* The time the victim had to sleep goes to the one behind it.             *)
Successors(pid) ==
    {clockq[i] : i \in {j \in 2 .. Len(clockq) : clockq[j - 1] = pid}}

(* Mutation of KillSleeping: sltop stays where it was.                     *)
KillSleepingKeepingTop(pid) ==
    /\ pstate[pid] = "PRSLEEP"
    /\ qkey' = [p \in Procs |-> IF p \in Successors(pid)
                                THEN qkey[p] + qkey[pid] ELSE qkey[p]]
    /\ clockq' = Dequeue(clockq, pid)
    /\ slnempty' = (clockq' # <<>>)
    /\ pstate' = [pstate EXCEPT ![pid] = "PRFREE"]
    /\ UNCHANGED <<rdyq, currpid, preempt, semVars, sltop, countVars>>

(* Mutation of KillSleeping: the victim stays on the sleep queue.          *)
KillSleepingStillQueued(pid) ==
    /\ pstate[pid] = "PRSLEEP"
    /\ pstate' = [pstate EXCEPT ![pid] = "PRFREE"]
    /\ UNCHANGED <<rdyq, qkey, currpid, preempt, semVars, clkVars>>

KillSleeping(pid) ==
    /\ pstate[pid] = "PRSLEEP"
    /\ qkey' = [p \in Procs |-> IF p \in Successors(pid)
                                THEN qkey[p] + qkey[pid] ELSE qkey[p]]
    /\ clockq' = Dequeue(clockq, pid)
    /\ slnempty' = (clockq' # <<>>)
    /\ sltop' = IF clockq' # <<>> THEN TopOf(clockq') ELSE NoEntry
    /\ pstate' = [pstate EXCEPT ![pid] = "PRFREE"]
    /\ UNCHANGED <<rdyq, currpid, preempt, semVars, countVars>>

KillReady(pid) ==
    /\ pstate[pid] = "PRREADY"
    /\ rdyq' = Dequeue(rdyq, pid)
    /\ pstate' = [pstate EXCEPT ![pid] = "PRFREE"]
    /\ UNCHANGED <<qkey, currpid, preempt, semVars, clkVars>>

(* A suspended process, or one that waits for a message, is on no queue.   *)
KillOffQueues(pid) ==
    /\ pstate[pid] \in {"PRSUSP", "PRRECV"}
    /\ pstate' = [pstate EXCEPT ![pid] = "PRFREE"]
    /\ UNCHANGED <<rdyq, qkey, currpid, preempt, semVars, clkVars>>

Kill(pid) ==
    /\ Calling("kill")
    /\ ~isbadpid(pid)
    /\ \/ KillCurrent(pid) \/ KillWaiting(pid) \/ KillSleeping(pid)
       \/ KillReady(pid) \/ KillOffQueues(pid)
    /\ numproc' = numproc - 1
    /\ freemem' = freemem + pstklen[pid]
    /\ kctx' = [kctx EXCEPT ![pid] = OutOfKernel]
    /\ uctx' = [uctx EXCEPT ![pid] = Running]
    /\ UNCHANGED <<pprio, pstklen, nextproc, exited, msgVars>>

-----------------------------------------------------------------------------
ProcCall ==
    /\ \E pid \in PidArgs :
          \/ Suspend(pid)
          \/ Resume(pid)
          \/ \E priority \in Prios : ChPrio(pid, priority)
    /\ UNCHANGED <<semVars, msgVars, clkVars>>

SemCall ==
    /\ \/ \E s \in SemArgs : SDelete(s) \/ Wait(s) \/ Signal(s)
       \/ \E count \in Counts : SCreate(count)
       \/ \E s \in SemArgs, count \in Counts : SReset(s, count) \/ SignalN(s, count)
    /\ UNCHANGED <<msgVars, clkVars>>

MsgCall ==
    /\ \/ \E pid \in PidArgs, msg \in Msgs : Send(pid, msg)
       \/ Receive
       \/ RecvClr
    /\ UNCHANGED <<semVars, clkVars>>

ClkCall ==
    /\ (\E n \in Seconds : Sleep(n)) \/ StopClkLoad \/ StrtClk
    /\ UNCHANGED <<semVars, msgVars>>

Call ==
    \/ ProcCall \/ SemCall \/ MsgCall \/ ClkCall
    \/ \E ssize \in StkSizes, priority \in Prios : Create(ssize, priority)
    \/ \E pid \in PidArgs : Kill(pid)

(* The steps with interrupts blocked, on the way out of a call or handler. *)
KernelStep ==
    \/ SemKernelStep /\ UNCHANGED <<msgVars, clkVars>>
    \/ ReceiveEnd /\ UNCHANGED <<semVars, clkVars>>
    \/ ClkKernelStep /\ UNCHANGED <<semVars, msgVars>>

(* The steps of sleep and stopclk with interrupts enabled.                 *)
UserStep == (SleepNext \/ StopClkStore) /\ UNCHANGED <<semVars, msgVars>>

ClockInterrupt == ClkInt /\ UNCHANGED <<semVars, msgVars>>

TtyInterrupt ==
    /\ \E s \in TtySems : IOInterrupt(s)
    /\ UNCHANGED <<msgVars, clkVars>>

(* The program has exited.                                                 *)
Gone == exited /\ UNCHANGED vars

Next ==
    \/ Call \/ KernelStep \/ UserStep \/ ClockInterrupt \/ TtyInterrupt \/ Gone

Spec == Init /\ [][Next]_vars

(* The processor goes on with what it is in the middle of; a clock signal  *)
(* that comes while signals are blocked stays pending until they are not.  *)
Fairness ==
    /\ WF_vars(KernelStep)
    /\ SF_vars(ClockInterrupt)

FairSpec == Spec /\ Fairness

-----------------------------------------------------------------------------
(* Properties.                                                             *)

TypeOK == ProcTypeOK /\ SemTypeOK /\ MsgTypeOK /\ ClkTypeOK

InState(s) == {p \in Procs : pstate[p] = s}
WaitingOn(s) == {p \in InState("PRWAIT") : psem[p] = s}

(* A process is on the queue that its state names, once, and on no other;  *)
(* exactly one is current.  Calls relink q[] entries from five files, and  *)
(* kill dequeues from whatever queue the victim is on.                     *)
CurrentIsCurrpid == InState("PRCURR") = {currpid}
ReadyQueueAgrees == Holds(rdyq, InState("PRREADY"))
SleepQueueAgrees == Holds(clockq, InState("PRSLEEP"))
SemQueuesAgree == \A s \in Sems : Holds(semq[s], WaitingOn(s))

QueuesAgree ==
    /\ CurrentIsCurrpid
    /\ ReadyQueueAgrees
    /\ SleepQueueAgrees
    /\ SemQueuesAgree

(* getlast takes the ready process of highest priority: the list is in the *)
(* order of its keys and no key is a priority that chprio has changed      *)
(* since.                                                                  *)
ReadyListByPriority ==
    /\ Ordered(rdyq, qkey)
    /\ \A p \in InState("PRREADY") : qkey[p] = pprio[p]

(* The kernel is in a loop of ready(.., RESCHNO) that ends with resched.   *)
ReschedPending ==
    Op \in {"sdelete", "sreset", "signaln", "wakeup_clkint", "wakeup_strtclk"}

(* No ready process outranks the running one, as resched.c promises        *)
(* ("reschedule processor to highest priority ready process"), whichever   *)
(* call or interrupt changed priorities or states last.                    *)
HighestPriorityRuns ==
    ~ReschedPending =>
        \A p \in InState("PRREADY") : pprio[p] <= pprio[currpid]

(* The null process never leaves the ready list but to run, so resched     *)
(* always finds a process to run.                                          *)
NullProcessReady == pstate[NULLPROC] \in {"PRREADY", "PRCURR"}

(* A negative count is the number of waiters; nobody waits on a semaphore  *)
(* with a count of zero or more or on a free one.  kill, sreset, sdelete   *)
(* and the tty interrupts all change one side of it.                       *)
SemaphoreCountOwesQueue ==
    \A s \in Sems :
        ~(Op \in {"sdelete", "sreset"} /\ kctx[currpid].arg = s) =>
            Len(semq[s]) = IF sstate[s] = "SUSED" /\ semcnt[s] < 0
                           THEN -semcnt[s] ELSE 0

(* A process that runs on in receive finds a message, and one that waits   *)
(* for a message has none.                                                 *)
ReceiverFindsMessage ==
    \A p \in Procs :
        /\ kctx[p].op = "receive" =>
              (phasmsg[p] <=> pstate[p] # "PRRECV")
        /\ pstate[p] = "PRRECV" => kctx[p].op = "receive"

(* A message that is not received yet is never replaced by another one.    *)
MessageNotOverwritten ==
    [][\A p \in Procs :
          phasmsg[p] /\ phasmsg'[p] => pmsg'[p] = pmsg[p]]_vars

(* Semaphores serve in order of arrival: when a waiter is let go (not      *)
(* killed), none that came before it still waits.                          *)
Before(q, a, b) ==
    \E i, j \in DOMAIN q : i < j /\ q[i] = a /\ q[j] = b
WaitersServedInOrder ==
    [][\A s \in Sems : \A a, b \in Procs :
          /\ Before(semq[s], a, b)
          /\ pstate'[b] \in {"PRREADY", "PRCURR"}
          => pstate'[a] # "PRWAIT"]_vars

(* Equal processes take turns: one that becomes ready goes behind those of *)
(* its priority that are ready, and none runs before an equal that became  *)
(* ready earlier.                                                          *)
EqualsTakeTurns ==
    [][\A p, c \in Procs :
          /\ pstate[p] = "PRREADY" /\ pstate'[p] = "PRREADY"
          /\ pprio'[p] = pprio[p] /\ pprio'[c] = pprio[p]
          => /\ pstate[c] # "PRREADY" /\ pstate'[c] = "PRREADY"
                   => Before(rdyq', c, p)
             /\ Before(rdyq, c, p) => pstate'[c] # "PRCURR"]_vars

(* Whenever the clock may interrupt, slnempty and sltop agree with the     *)
(* sleep queue, and the first sleeper has time left, so that "--*sltop"    *)
(* in clkint counts a sleeper's time down and meets zero.                  *)
SleepTopAgrees ==
    Op \notin {"strtclk", "wakeup_clkint", "wakeup_strtclk"} =>
        /\ slnempty <=> clockq # <<>>
        /\ clockq # <<>> => sltop = Head(clockq) /\ qkey[sltop] > 0

(* A process with a ready equal has a number of ticks left that will run   *)
(* out: preempt has not been counted past zero while nobody was equal.     *)
(* Only chprio can bring the two together otherwise.                       *)
QuantumRunsOut ==
    Op = "none" /\ (\E p \in InState("PRREADY") : pprio[p] = pprio[currpid])
        => preempt \in 1 .. QUANTUM

(* A ready process that no process outranks gets the processor.            *)
NotOutranked(p) ==
    \A o \in InState("PRREADY") \cup InState("PRCURR") : pprio[o] <= pprio[p]
ReadyProcessRuns ==
    \A p \in Procs :
        pstate[p] = "PRREADY" /\ NotOutranked(p)
            ~> pstate[p] # "PRREADY" \/ ~NotOutranked(p) \/ exited

(* A process that sleeps wakes up (or is killed).                          *)
SleepersWake ==
    \A p \in Procs : pstate[p] = "PRSLEEP" ~> pstate[p] # "PRSLEEP" \/ exited

-----------------------------------------------------------------------------
(* The inductive invariant.  It adds to the properties above what a        *)
(* process may have left to do in the kernel when another one runs, and    *)
(* what the sections of the kernel rely on while they are passed through.  *)

Resumable == {"none", "receive", "clkint", "strtclk_tail"}

(* A process that is switched out has only the tail of receive, of clkint  *)
(* or of strtclk left when it runs again, or is out of the kernel: no loop *)
(* over a queue is ever left in the middle.                                *)
SwitchedOutCleanly == \A p \in Procs \ {currpid} : kctx[p].op \in Resumable

OutOfKernelAtExit == exited => Op = "none"

(* The null process only loops: it is never inside sleep or stopclk.       *)
NullOnlyRuns == uctx[NULLPROC] = Running

SemSection ==
    LET s == kctx[currpid].arg
        n == kctx[currpid].n
    IN  /\ Op = "sdelete" => s \in Sems /\ sstate[s] = "SFREE"
        /\ Op = "sreset" =>
              s \in Sems /\ sstate[s] = "SUSED" /\ n \in 0 .. MaxCount
        /\ Op = "signaln" =>
              /\ s \in Sems /\ sstate[s] = "SUSED"
              /\ n \in Nat /\ semcnt[s] + n <= MaxCount

ClkSection ==
    LET i == kctx[currpid].arg
        n == kctx[currpid].n
    IN  /\ Op = "insertd" =>
              i \in 1 .. Len(clockq) + 1 /\ n > 0 /\ currpid # NULLPROC
        /\ Op = "strtclk" => i \in 1 .. Len(clockq) + 1 /\ n >= 0

SleepKeysNotNegative == \A p \in InState("PRSLEEP") : qkey[p] >= 0

SchedInv ==
    /\ ProcTypeOK
    /\ CurrentIsCurrpid
    /\ ReadyQueueAgrees
    /\ NullProcessReady
    /\ NullOnlyRuns
    /\ SwitchedOutCleanly
    /\ OutOfKernelAtExit

SemInv == SemTypeOK /\ SemQueuesAgree /\ SemaphoreCountOwesQueue /\ SemSection

ClkInv ==
    /\ ClkTypeOK
    /\ SleepQueueAgrees
    /\ SleepTopAgrees
    /\ SleepKeysNotNegative
    /\ ClkSection

IInv == SchedInv /\ SemInv /\ MsgTypeOK /\ ClkInv

=============================================================================
