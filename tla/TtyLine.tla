------------------------------ MODULE TtyLine ------------------------------
(***************************************************************************)
(* A serial line and those who use it: the control block of tty.h, what    *)
(* ttyinit puts in it, and the two semaphores of the line.                 *)
(*                                                                         *)
(* The upper half of the driver runs in a process with the signals blocked *)
(* and gives up the processor only inside wait and inside sreset (whose    *)
(* resched may run any process of the same priority, with the signals      *)
(* unblocked).  So an action here is the code from one such place to the   *)
(* next, and actions of different processes and interrupts come in any     *)
(* order.  A process on a semaphore queue makes no step until it is let go;*)
(* the scheduler is not repeated here (Kernel).                            *)
(*                                                                         *)
(* A character that is written is named by its writer and its place in all *)
(* that this process writes; one that is typed, by the order of typing.    *)
(***************************************************************************)
EXTENDS Integers, Sequences, SequencesExt, FiniteSets

CONSTANTS
    Users,      \* processes that use the line
    IBUFLEN,    \* characters in the input buffer
    OBUFLEN,    \* characters in the output buffer
    OBMINSP,    \* space there must be before writers are let go
    EBUFLEN     \* characters in the echo queue

ASSUME TtyAssumption ==
    /\ IBUFLEN \in Nat \ {0} /\ EBUFLEN \in Nat \ {0}
    /\ OBMINSP \in Nat \ {0} /\ OBUFLEN \in Nat
    /\ OBUFLEN > 2 * OBMINSP
    /\ IsFiniteSet(Users) /\ 0 \notin Users

Nobody == 0             \* who wrote what a buffer holds at first

VARIABLES
    osem, isem,         \* the semaphores, as [cnt, queue]
    obuff, ohead, otail,\* the output ring
    odsend,             \* characters sent that osem does not count yet
    ibuff, ihead, itail,\* the input ring
    icursor,            \* characters of the line that is being typed
    echo,               \* characters in the echo queue (ehead - etail)
    imode, iecho,       \* input mode, and whether input is echoed
    oheld,              \* output is stopped (^S)
    ctstat,             \* the transmitter may interrupt (SLUENABLE)
    pc,                 \* pc[p]: where user p is, and what it has left to do
    wrote,              \* wrote[p]: what p has asked to write so far
    sent,               \* sent[p]: the places of p's characters sent so far
    typed               \* number of keys typed so far

outVars == <<osem, obuff, ohead, otail, odsend, sent>>
inVars == <<isem, ibuff, ihead, itail, icursor, imode, typed>>
ttyVars == <<outVars, inVars, echo, iecho, oheld, ctstat, pc, wrote>>

(* A writer has characters left, a reader a number of them.                *)
Goto(p, op, left, n) ==
    pc' = [pc EXCEPT ![p] = [op |-> op, left |-> left, n |-> n]]
Return(p) == Goto(p, "idle", <<>>, 0)

Char(p, n, c) == [by |-> p, n |-> n, c |-> c]

ttyinit ==
    /\ isem = [cnt |-> 0, queue |-> <<>>]
    /\ osem = [cnt |-> OBUFLEN, queue |-> <<>>]
    /\ obuff = [i \in 0 .. OBUFLEN - 1 |-> Char(Nobody, 0, "c")]
    /\ ohead = 0 /\ otail = 0 /\ odsend = 0
    /\ ibuff = [i \in 0 .. IBUFLEN - 1 |-> 0]
    /\ ihead = 0 /\ itail = 0 /\ icursor = 0
    /\ echo = 0
    /\ imode = "IMCOOKED" /\ iecho = TRUE
    /\ oheld = FALSE
    /\ ctstat = FALSE

TtyInit ==
    /\ ttyinit
    /\ pc = [p \in Users |-> [op |-> "idle", left |-> <<>>, n |-> 0]]
    /\ wrote = [p \in Users |-> <<>>]
    /\ sent = [p \in Users \cup {Nobody} |-> <<>>]
    /\ typed = 0

-----------------------------------------------------------------------------
(* Semaphores (semwait.c, semsignaln.c, sreset.c).                         *)

AtLeast0(n) == IF n > 0 THEN n ELSE 0
AtMost(n, m) == IF n < m THEN n ELSE m

(* Process p takes n units that are there.                                 *)
Taken(sem, n) == [sem EXCEPT !.cnt = @ - n]

(* Process p waits for a unit when there is none.                          *)
Queued(sem, p) == [cnt |-> sem.cnt - 1, queue |-> Append(sem.queue, p)]

Signalled(sem, n) ==
    [cnt |-> sem.cnt + n,
     queue |-> SubSeq(sem.queue, 1 + AtMost(n, Len(sem.queue)), Len(sem.queue))]

(* sreset lets every waiter go, whatever the new count.                    *)
Reset(n) == [cnt |-> n, queue |-> <<>>]

(* A process that is not waiting, or has been let go.                      *)
Awake(p) == ~Contains(osem.queue, p) /\ ~Contains(isem.queue, p)

AtPc(p, op) == pc[p].op = op /\ Awake(p)

=============================================================================
