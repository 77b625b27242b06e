------------------------------ MODULE ProcTab ------------------------------
(***************************************************************************)
(* The process table and the scheduler of the kernel: proc.h, ready.c,     *)
(* resched.c, suspend.c, resume.c, chprio.c and newpid of create.c.        *)
(* create and kill touch every part of the kernel and are in Kernel.       *)
(*                                                                         *)
(* The kernel runs on one processor.  disable() blocks the clock and tty   *)
(* signals, and signal handlers run with every signal blocked, so a system *)
(* call runs to its end, or to the ctxsw in resched, in one piece.  A call *)
(* that only leaves by returning after resched is one action; where code   *)
(* that changes state follows resched, or a loop readies processes one by  *)
(* one, kctx[p] records where process p is in the kernel.  A call the code *)
(* refuses with SYSERR changes nothing: it is a stuttering step, and is    *)
(* left out.  One that ends in handle_error ends the program (HandleError).*)
(***************************************************************************)
EXTENDS QueueOps, FiniteSets

CONSTANTS
    NPROC,      \* entries of the process table (kernel.h)
    QUANTUM,    \* ticks a process runs before its equals get a turn
    INITPRIO,   \* priority of the first user process
    MINSTK,     \* units of memory of the least stack and of a link stack
    INITSTK,    \* units of memory of the first user process's stack
    MemUnits,   \* units of memory getstk hands out of
    Prios,      \* priorities that programs pass to create and chprio
    StkSizes,   \* stack sizes that programs pass to create
    Calls       \* the system calls that the programs of an instance make

NULLPROC == 0
Procs == 0 .. NPROC - 1
PidArgs == Procs \cup {NPROC}   \* NPROC stands for the pids out of range

(* Three entries: the null process, the first user process, one to create. *)
(* pprio is a short, and a key above MAXINT would pass the tail of a queue,*)
(* so programs must keep priorities below MAXINT.                          *)
ASSUME ProcTabAssumption ==
    /\ NPROC \in Nat /\ NPROC > 2
    /\ QUANTUM \in Nat \ {0}
    /\ INITPRIO \in 1 .. MAXINT
    /\ MINSTK \in Nat /\ INITSTK \in Nat /\ MemUnits \in Nat
    /\ INITSTK + MINSTK <= MemUnits
    /\ Prios \subseteq {n \in Int : n <= MAXINT}
    /\ StkSizes \subseteq Nat

States == {"PRCURR", "PRFREE", "PRREADY", "PRRECV", "PRSLEEP", "PRSUSP", "PRWAIT"}

VARIABLES
    pstate,     \* pstate[p]: state of table entry p
    pprio,      \* pprio[p]: its priority
    pstklen,    \* pstklen[p]: the size of its stack
    rdyq,       \* ready list, from rdyhead to rdytail
    qkey,       \* qkey[p]: key of p's entry, in the ready or the sleep queue
    currpid,    \* the running process
    preempt,    \* ticks left to it
    numproc,    \* number of live processes
    nextproc,   \* where newpid starts to look
    freemem,    \* units of memory left to getstk
    kctx,       \* kctx[p]: where p is in the kernel (part of run_env)
    uctx,       \* uctx[p]: where p is in the calls that can be interrupted
    exited      \* TRUE once handle_error has ended the whole program

procVars == <<pstate, pprio, pstklen, rdyq, qkey, currpid, preempt, numproc,
              nextproc, freemem, kctx, uctx, exited>>

-----------------------------------------------------------------------------
(* Contexts.  "none": not in the kernel, interrupts are enabled.           *)

KernelOps == {"none", "receive", "sdelete", "sreset", "signaln", "insertd",
              "clkint", "wakeup_clkint", "strtclk", "wakeup_strtclk",
              "strtclk_tail"}
UserOps == {"run", "sleep", "stopclk"}

InKernel(op, a, n) == [op |-> op, arg |-> a, n |-> n]
OutOfKernel == InKernel("none", 0, 0)
InUser(op, n) == [op |-> op, n |-> n]
Running == InUser("run", 0)

Op == kctx[currpid].op

Interruptible == ~exited /\ Op = "none"     \* the clock and the ttys may interrupt

(* The running process makes the system call "name".  The null process only *)
(* loops, so it makes none.                                                *)
Calling(name) ==
    /\ Interruptible
    /\ name \in Calls
    /\ currpid # NULLPROC
    /\ uctx[currpid] = Running

(* The running process is inside the kernel, at the point "op".            *)
At(op) == ~exited /\ Op = op

Enter(op, a, n) == kctx' = [kctx EXCEPT ![currpid] = InKernel(op, a, n)]
Leave == kctx' = [kctx EXCEPT ![currpid] = OutOfKernel]

(* handle_error: perror and exit, of the whole program.                    *)
HandleError ==
    /\ exited' = TRUE
    /\ UNCHANGED <<pstate, pprio, pstklen, rdyq, qkey, currpid, preempt,
                   numproc, nextproc, freemem, kctx, uctx>>

ProcTypeOK ==
    /\ pstate \in [Procs -> States]
    /\ pprio \in [Procs -> 0 .. MAXINT]
    /\ pstklen \in [Procs -> Nat]
    /\ rdyq \in Seq(Procs)
    /\ qkey \in [Procs -> Int]
    /\ currpid \in Procs
    /\ preempt \in -1 .. QUANTUM
    /\ numproc \in Int
    /\ nextproc \in Procs
    /\ freemem \in Nat
    /\ kctx \in [Procs -> [op : KernelOps, arg : Int, n : Int]]
    /\ uctx \in [Procs -> [op : UserOps, n : Nat]]
    /\ exited \in BOOLEAN

-----------------------------------------------------------------------------
(* resched and ready.  The arguments are the values the caller has given   *)
(* the variables so far.  optr is the current process, which resched keeps *)
(* only if it is still PRCURR and above all ready ones.                    *)

(* Mutation of KeepsCpu: a process gives way only to higher priorities.    *)
KeepsCpuOnTie(ps, rq, k, pr) ==
    ps[currpid] = "PRCURR" /\ LastKey(rq, k) <= pr[currpid]

KeepsCpu(ps, rq, k, pr) ==
    ps[currpid] = "PRCURR" /\ LastKey(rq, k) < pr[currpid]

(* Give the processor to the last process of the ready list.               *)
SwitchToLast(ps, rq, k) ==
    /\ currpid' = Last(rq)
    /\ rdyq' = Front(rq)
    /\ pstate' = [ps EXCEPT ![Last(rq)] = "PRCURR"]
    /\ qkey' = k
    /\ preempt' = QUANTUM

Resched(ps, rq, k, pr, left) ==
    \/ /\ KeepsCpu(ps, rq, k, pr)
       /\ pstate' = ps /\ rdyq' = rq /\ qkey' = k
       /\ preempt' = left
       /\ UNCHANGED currpid
    \/ /\ ~KeepsCpu(ps, rq, k, pr)
       /\ ps[currpid] = "PRCURR"
       /\ SwitchToLast([ps EXCEPT ![currpid] = "PRREADY"],
                       Insert(rq, currpid, pr[currpid], k),
                       [k EXCEPT ![currpid] = pr[currpid]])
    \/ /\ ps[currpid] # "PRCURR"
       /\ SwitchToLast(ps, rq, k)

(* ready(pid, RESCHNO)                                                     *)
ReadyNoResched(pid) ==
    /\ pstate' = [pstate EXCEPT ![pid] = "PRREADY"]
    /\ rdyq' = Insert(rdyq, pid, pprio[pid], qkey)
    /\ qkey' = [qkey EXCEPT ![pid] = pprio[pid]]
    /\ UNCHANGED <<currpid, preempt>>

(* ready(pid, RESCHYES)                                                    *)
Ready(pid) ==
    Resched([pstate EXCEPT ![pid] = "PRREADY"],
            Insert(rdyq, pid, pprio[pid], qkey),
            [qkey EXCEPT ![pid] = pprio[pid]],
            pprio, preempt)

(* The current process gives up the processor in state s.                  *)
Block(s) ==
    Resched([pstate EXCEPT ![currpid] = s], rdyq, qkey, pprio, preempt)

(* A call to resched with nothing changed.                                 *)
Yield == Resched(pstate, rdyq, qkey, pprio, preempt)

(* What ready and resched leave alone.                                     *)
tabVars == <<pprio, pstklen, numproc, nextproc, freemem, exited>>
schedVars == <<pstate, rdyq, qkey, currpid, preempt>>

-----------------------------------------------------------------------------
(* Mutation of isbadpid: it lets the null process pass.                    *)
isbadpidPassingNull(pid) == pid < 0 \/ pid >= NPROC

isbadpid(pid) == pid <= 0 \/ pid >= NPROC

(* newpid: the first free entry going down from nextproc, cyclically.      *)
Distance(pid) == (nextproc - pid) % NPROC
IsNewPid(pid) ==
    /\ pstate[pid] = "PRFREE"
    /\ \A o \in Procs : pstate[o] = "PRFREE" => Distance(pid) <= Distance(o)
NextProcAfter(pid) == IF pid <= 0 THEN NPROC - 1 ELSE pid - 1

(* Mutation of Suspend: a ready process stays on the ready list.           *)
SuspendWithoutDequeue(pid) ==
    /\ Calling("suspend")
    /\ ~isbadpid(pid)
    /\ \/ /\ pstate[pid] = "PRREADY"
          /\ pstate' = [pstate EXCEPT ![pid] = "PRSUSP"]
          /\ UNCHANGED <<rdyq, qkey, currpid, preempt>>
       \/ /\ pstate[pid] = "PRCURR"
          /\ Block("PRSUSP")
    /\ UNCHANGED <<tabVars, kctx, uctx>>

Suspend(pid) ==
    /\ Calling("suspend")
    /\ ~isbadpid(pid)
    /\ \/ /\ pstate[pid] = "PRREADY"
          /\ rdyq' = Dequeue(rdyq, pid)
          /\ pstate' = [pstate EXCEPT ![pid] = "PRSUSP"]
          /\ UNCHANGED <<qkey, currpid, preempt>>
       \/ /\ pstate[pid] = "PRCURR"
          /\ Block("PRSUSP")
    /\ UNCHANGED <<tabVars, kctx, uctx>>

(* resume of a process that is not suspended ends the program.             *)
Suspended(pid) == ~isbadpid(pid) /\ pstate[pid] = "PRSUSP"

Resume(pid) ==
    /\ Calling("resume")
    /\ \/ /\ ~Suspended(pid)
          /\ HandleError
       \/ /\ Suspended(pid)
          /\ Ready(pid)
          /\ UNCHANGED <<tabVars, kctx, uctx>>

(* A ready process is put at its new place in the ready list.              *)
Requeue(pid, newprio) == Insert(Dequeue(rdyq, pid), pid, newprio, qkey)

(* Mutation of ChPrio: a ready process keeps its place in the ready list.  *)
ChPrioInPlace(pid, newprio) ==
    /\ Calling("chprio")
    /\ ~isbadpid(pid) /\ newprio > 0 /\ pstate[pid] # "PRFREE"
    /\ pprio' = [pprio EXCEPT ![pid] = newprio]
    /\ UNCHANGED schedVars
    /\ UNCHANGED <<pstklen, numproc, nextproc, freemem, exited, kctx, uctx>>

ChPrio(pid, newprio) ==
    /\ Calling("chprio")
    /\ ~isbadpid(pid) /\ newprio > 0 /\ pstate[pid] # "PRFREE"
    /\ pprio' = [pprio EXCEPT ![pid] = newprio]
    /\ \/ /\ pstate[pid] = "PRCURR" /\ newprio < pprio[pid]
          /\ Resched(pstate, rdyq, qkey, pprio', preempt)
       \/ /\ pstate[pid] = "PRREADY"
          /\ LET rq == Requeue(pid, newprio)
                 k  == [qkey EXCEPT ![pid] = newprio]
             IN  \/ /\ pprio'[currpid] < newprio
                    /\ Resched(pstate, rq, k, pprio', preempt)
                 \/ /\ pprio'[currpid] >= newprio
                    /\ rdyq' = rq /\ qkey' = k
                    /\ UNCHANGED <<pstate, currpid, preempt>>
       \/ /\ pstate[pid] = "PRCURR" => newprio >= pprio[pid]
          /\ pstate[pid] # "PRREADY"
          /\ UNCHANGED schedVars
    /\ UNCHANGED <<pstklen, numproc, nextproc, freemem, exited, kctx, uctx>>

=============================================================================
