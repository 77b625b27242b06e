----------------------------- MODULE Semaphores -----------------------------
(***************************************************************************)
(* Counting semaphores: sem.h, screate.c, sdelete.c, sreset.c, semwait.c,  *)
(* semsignal.c, semsignaln.c.                                              *)
(*                                                                         *)
(* A loop that readies processes one by one (sdelete, sreset, signaln) is  *)
(* entered by the call and then takes one step for each iteration and one  *)
(* to leave.  No interrupt and no other process comes between the steps.   *)
(***************************************************************************)
EXTENDS ProcTab

CONSTANTS
    NSEM,       \* entries of the semaphore table (conf.h)
    OBUFLEN,    \* initial count of the semaphore of the output buffer
    Counts,     \* counts that programs pass to screate, sreset and signaln
    MaxCount    \* bound: no call raises a count above this one

(* The tty driver takes two semaphores when the system starts.             *)
ASSUME SemaphoresAssumption ==
    /\ NSEM \in Nat /\ NSEM >= 2
    /\ OBUFLEN \in Nat
    /\ Counts \subseteq Int
    /\ MaxCount \in Nat /\ OBUFLEN <= MaxCount

Sems == 0 .. NSEM - 1
SemArgs == Sems \cup {NSEM}     \* NSEM stands for the ids out of range

(* ttyinit gets these two from screate: input and output of the console.   *)
ISEM == NSEM - 1
OSEM == NSEM - 2

VARIABLES
    sstate,     \* sstate[s]: "SFREE" or "SUSED"
    semcnt,     \* semcnt[s]: its count, a short in the code
    semq,       \* semq[s]: the processes waiting on s, first comes first
    psem,       \* psem[p]: the semaphore p waits on
    nextsem     \* where newsem starts to look

semVars == <<sstate, semcnt, semq, psem, nextsem>>

SemTypeOK ==
    /\ sstate \in [Sems -> {"SFREE", "SUSED"}]
    /\ semcnt \in [Sems -> {n \in Int : n <= MaxCount}]
    /\ semq \in [Sems -> Seq(Procs)]
    /\ psem \in [Procs -> Sems]
    /\ nextsem \in Sems

isbadsem(s) == s < 0 \/ s >= NSEM
SemUsed(s) == ~isbadsem(s) /\ sstate[s] # "SFREE"

SemError == HandleError /\ UNCHANGED semVars

-----------------------------------------------------------------------------
(* newsem: the first free entry going down from nextsem, cyclically.       *)
SemDistance(s) == (nextsem - s) % NSEM
IsNewSem(s) ==
    /\ sstate[s] = "SFREE"
    /\ \A o \in Sems : sstate[o] = "SFREE" => SemDistance(s) <= SemDistance(o)
NextSemAfter(s) == IF s - 1 < 0 THEN NSEM - 1 ELSE s - 1

SCreateBody(count) ==
    \/ /\ count < 0 \/ \A s \in Sems : sstate[s] = "SUSED"
       /\ SemError
    \/ /\ count >= 0
       /\ \E s \in Sems :
             /\ IsNewSem(s)
             /\ sstate' = [sstate EXCEPT ![s] = "SUSED"]
             /\ semcnt' = [semcnt EXCEPT ![s] = count]
             /\ nextsem' = NextSemAfter(s)
       /\ UNCHANGED <<procVars, semq, psem>>

SCreate(count) == Calling("screate") /\ count <= MaxCount /\ SCreateBody(count)

-----------------------------------------------------------------------------
(* sdelete.  The entry is freed before its waiters are let go.             *)
SDelete(s) ==
    /\ Calling("sdelete")
    /\ SemUsed(s)
    /\ sstate' = [sstate EXCEPT ![s] = "SFREE"]
    /\ \/ semq[s] = <<>> /\ UNCHANGED kctx
       \/ semq[s] # <<>> /\ Enter("sdelete", s, 0)
    /\ UNCHANGED <<tabVars, schedVars, uctx, semcnt, semq, psem, nextsem>>

(* Mutation of ReadyFirstWaiter: getlast for getfirst.                     *)
ReadyLastWaiter(s) ==
    /\ ReadyNoResched(Last(semq[s]))
    /\ semq' = [semq EXCEPT ![s] = Front(semq[s])]

(* ready(getfirst(sqhead), RESCHNO)                                        *)
ReadyFirstWaiter(s) ==
    /\ ReadyNoResched(Head(semq[s]))
    /\ semq' = [semq EXCEPT ![s] = Tail(semq[s])]

(* One round of the loops of sdelete and sreset.                           *)
ReleaseWaiter ==
    \E op \in {"sdelete", "sreset"} :
        /\ At(op)
        /\ LET s == kctx[currpid].arg
           IN  semq[s] # <<>> /\ ReadyFirstWaiter(s)
        /\ UNCHANGED <<tabVars, kctx, uctx, sstate, semcnt, psem, nextsem>>

(* Mutation of SDeleteEnd: the processor is not given to who was let go.   *)
SDeleteEndWithoutResched ==
    /\ At("sdelete")
    /\ semq[kctx[currpid].arg] = <<>>
    /\ Leave
    /\ UNCHANGED <<tabVars, schedVars, uctx, semVars>>

SDeleteEnd ==
    /\ At("sdelete")
    /\ semq[kctx[currpid].arg] = <<>>
    /\ Leave
    /\ Yield
    /\ UNCHANGED <<tabVars, uctx, semVars>>

-----------------------------------------------------------------------------
SReset(s, count) ==
    /\ Calling("sreset")
    /\ count <= MaxCount
    /\ \/ /\ ~SemUsed(s) \/ count < 0
          /\ SemError
       \/ /\ SemUsed(s) /\ count >= 0
          /\ Enter("sreset", s, count)
          /\ UNCHANGED <<tabVars, schedVars, uctx, semVars>>

SResetEnd ==
    /\ At("sreset")
    /\ LET s == kctx[currpid].arg
       IN  /\ semq[s] = <<>>
           /\ semcnt' = [semcnt EXCEPT ![s] = kctx[currpid].n]
    /\ Leave
    /\ Yield
    /\ UNCHANGED <<tabVars, uctx, sstate, semq, psem, nextsem>>

-----------------------------------------------------------------------------
(* Mutation of Wait: the process does not note what it waits on.           *)
WaitWithoutPsem(s) ==
    /\ Calling("wait")
    /\ \/ /\ ~SemUsed(s)
          /\ SemError
       \/ /\ SemUsed(s)
          /\ semcnt' = [semcnt EXCEPT ![s] = @ - 1]
          /\ \/ /\ semcnt'[s] < 0
                /\ semq' = [semq EXCEPT ![s] = Append(@, currpid)]
                /\ Block("PRWAIT")
             \/ /\ semcnt'[s] >= 0
                /\ UNCHANGED <<schedVars, semq>>
          /\ UNCHANGED <<tabVars, kctx, uctx, sstate, psem, nextsem>>

Wait(s) ==
    /\ Calling("wait")
    /\ \/ /\ ~SemUsed(s)
          /\ SemError
       \/ /\ SemUsed(s)
          /\ semcnt' = [semcnt EXCEPT ![s] = @ - 1]
          /\ \/ /\ semcnt'[s] < 0
                /\ psem' = [psem EXCEPT ![currpid] = s]
                /\ semq' = [semq EXCEPT ![s] = Append(@, currpid)]
                /\ Block("PRWAIT")
             \/ /\ semcnt'[s] >= 0
                /\ UNCHANGED <<schedVars, semq, psem>>
          /\ UNCHANGED <<tabVars, kctx, uctx, sstate, nextsem>>

(* The body of signal.  When the count was negative somebody waits: the    *)
(* invariant SemaphoreCountOwesQueue is what makes Head meaningful.        *)
SignalBody(s) ==
    \/ /\ ~SemUsed(s)
       /\ SemError
    \/ /\ SemUsed(s)
       /\ semcnt[s] < MaxCount
       /\ semcnt' = [semcnt EXCEPT ![s] = @ + 1]
       /\ \/ /\ semcnt[s] < 0
             /\ semq' = [semq EXCEPT ![s] = Tail(@)]
             /\ Ready(Head(semq[s]))
          \/ /\ semcnt[s] >= 0
             /\ UNCHANGED <<schedVars, semq>>
       /\ UNCHANGED <<tabVars, kctx, uctx, sstate, psem, nextsem>>

Signal(s) == Calling("signal") /\ SignalBody(s)

(* signaln.  n counts the iterations left.                                 *)
SignalNBody(s, count) ==
    \/ /\ ~SemUsed(s) \/ count <= 0
       /\ SemError
    \/ /\ SemUsed(s) /\ count > 0
       /\ semcnt[s] + count <= MaxCount
       /\ Enter("signaln", s, count)
       /\ UNCHANGED <<tabVars, schedVars, uctx, semVars>>

SignalN(s, count) == Calling("signaln") /\ SignalNBody(s, count)

SignalNStep ==
    /\ At("signaln")
    /\ LET s == kctx[currpid].arg
           n == kctx[currpid].n
       IN  /\ n > 0
           /\ Enter("signaln", s, n - 1)
           /\ semcnt' = [semcnt EXCEPT ![s] = @ + 1]
           /\ \/ /\ semcnt[s] < 0
                 /\ ReadyFirstWaiter(s)
              \/ /\ semcnt[s] >= 0
                 /\ UNCHANGED <<schedVars, semq>>
    /\ UNCHANGED <<tabVars, uctx, sstate, psem, nextsem>>

SignalNEnd ==
    /\ At("signaln")
    /\ kctx[currpid].n = 0
    /\ Leave
    /\ Yield
    /\ UNCHANGED <<tabVars, uctx, semVars>>

-----------------------------------------------------------------------------
(* A tty interrupt in any context whose handler signals one of the tty     *)
(* semaphores (IOdispatcher, ttyiin, ttyoin): once, or several times.      *)
TtySems == {ISEM, OSEM}

IOInterrupt(s) ==
    /\ Interruptible
    /\ "IOdispatcher" \in Calls
    /\ \/ SignalBody(s)
       \/ \E count \in Counts : count > 0 /\ SignalNBody(s, count)

SemKernelStep ==
    \/ ReleaseWaiter \/ SDeleteEnd \/ SResetEnd \/ SignalNStep \/ SignalNEnd

=============================================================================
