------------------------------- MODULE System -------------------------------
(***************************************************************************)
(* The whole system, from sysinit on: initialize.c builds it, the null     *)
(* process starts the first user process, and the programs of Programs run *)
(* on the kernel, under clock interrupts, with somebody who types commands *)
(* at the console or sends SIGTERM, until it is shut down.                 *)
(***************************************************************************)
EXTENDS Programs

CONSTANTS
    PACE,           \* statements a program makes, at least, between two clock
                    \* interrupts (thousands, for a millisecond)
    MaxEvents       \* bound: lines typed and SIGTERMs

ASSUME SystemAssumption ==
    /\ NPROC > 5 /\ NSEM > 2
    /\ SLEEPTIME \in Nat /\ CliSeconds \subseteq Int /\ CliCounts \subseteq Int
    /\ CliPids \subseteq PidArgs /\ CliSems \subseteq SemArgs
    /\ PACE \in Nat /\ MaxEvents \in Nat

VARIABLES
    phase,      \* how far the null process has come in initialize.c
    code,       \* code[p]: what p has left to do
    named,      \* results that initial_process and CLI keep in locals
    handling,   \* processes in the handler of SIGTERM, all signals blocked
    shutdown,   \* set by halt_system, read by the null process
    since,      \* statements since the last clock interrupt, up to PACE
    events      \* lines typed and SIGTERMs so far

sysVars == <<phase, code, named, handling, shutdown, since, events>>
allVars == <<vars, sysVars>>

-----------------------------------------------------------------------------
(* initialize.c.  sysinit has filled the tables; the clock has not been    *)
(* started yet.  Signals have been unblocked before any of this.           *)

SysInit ==
    /\ phase = "clkinit"
    /\ pstate = [p \in Procs |-> IF p = NULLPROC THEN "PRCURR" ELSE "PRFREE"]
    /\ pprio = [p \in Procs |-> 0]
    /\ pstklen = [p \in Procs |-> 0]
    /\ rdyq = <<>> /\ qkey = [p \in Procs |-> 0]
    /\ currpid = NULLPROC
    /\ preempt = 0
    /\ numproc = 1 /\ nextproc = NPROC - 1
    /\ freemem = MemUnits
    /\ kctx = [p \in Procs |-> OutOfKernel]
    /\ uctx = [p \in Procs |-> Running]
    /\ exited = FALSE
    /\ sstate = [s \in Sems |-> "SFREE"] /\ semcnt = [s \in Sems |-> 0]
    /\ semq = [s \in Sems |-> <<>>] /\ psem = [p \in Procs |-> 0]
    /\ nextsem = NSEM - 1
    /\ MsgInit
    /\ ClkInit
    /\ code = [p \in Procs |-> <<>>]
    /\ named = [name \in {"sem", "INIT", "A", "B", "C", "CLI", "new"} |-> 0]
    /\ handling = {}
    /\ shutdown = FALSE
    /\ since = 0 /\ events = 0

(* clkinit: from here on the clock may interrupt.                          *)
clkinit ==
    /\ phase = "clkinit" /\ phase' = "isem"
    /\ preempt' = QUANTUM
    /\ UNCHANGED <<tabVars, pstate, rdyq, qkey, currpid, kctx, uctx>>
    /\ UNCHANGED <<semVars, msgVars, clkVars, code, named, handling, shutdown, events>>

(* Mutation of ttyinit: osem first.                                        *)
ttyinitSwapped ==
    /\ Interruptible
    /\ \/ phase = "isem" /\ phase' = "osem" /\ SCreateBody(OBUFLEN)
       \/ phase = "osem" /\ phase' = "create" /\ SCreateBody(0)
    /\ UNCHANGED <<msgVars, clkVars, code, named, handling, shutdown, events>>

(* ttyinit: screate(0) for isem, screate(OBUFLEN) for osem.                *)
ttyinit ==
    /\ Interruptible
    /\ \/ phase = "isem" /\ phase' = "osem" /\ SCreateBody(0)
       \/ phase = "osem" /\ phase' = "create" /\ SCreateBody(OBUFLEN)
    /\ UNCHANGED <<msgVars, clkVars, code, named, handling, shutdown, events>>

(* nulluser up to its loop.                                                *)
nulluserCreate ==
    /\ Interruptible
    /\ phase = "create" /\ phase' = "resume"
    /\ \E pid \in Procs :
          /\ NewProcess(pid, INITSTK, INITPRIO)
          /\ code' = [code EXCEPT ![pid] = initial_process]
          /\ named' = [named EXCEPT !["INIT"] = pid]
    /\ UNCHANGED <<handling, shutdown, events>>

nulluserResume ==
    /\ Interruptible
    /\ phase = "resume" /\ phase' = "up"
    /\ Ready(named["INIT"])
    /\ UNCHANGED <<tabVars, kctx, uctx, semVars, msgVars, clkVars>>
    /\ UNCHANGED <<code, named, handling, shutdown, events>>

Boot == (clkinit \/ ttyinit \/ nulluserCreate \/ nulluserResume) /\ UNCHANGED since

-----------------------------------------------------------------------------
(* A statement of the running program.                                     *)

Current == Head(code[currpid])
Argument == IF Current.name = "" THEN Current.n ELSE named[Current.name]

Reaches(op) == phase = "up" /\ code[currpid] # <<>> /\ Current.op = op

Continue(rest) == code' = [code EXCEPT ![currpid] = rest]
Advance == Continue(Tail(code[currpid]))

restVars == <<phase, handling, shutdown, events>>

(* Called by the null process too, once it is told to stop.                *)
WriteStmt ==
    /\ Reaches("write") /\ Interruptible /\ uctx[currpid] = Running
    /\ Yield
    /\ Advance
    /\ UNCHANGED <<tabVars, kctx, uctx, semVars, msgVars, clkVars, named, restVars>>

Live == {p \in Procs : ~isbadpid(p) /\ pstate[p] # "PRFREE"}

(* The calls that refuse without ending the program change nothing.        *)
SuspendStmt ==
    /\ Reaches("suspend")
    /\ \/ Suspend(Argument)
       \/ /\ Calling("suspend")
          /\ Argument \notin {p \in Live : pstate[p] \in {"PRREADY", "PRCURR"}}
          /\ UNCHANGED procVars
    /\ Advance
    /\ UNCHANGED <<semVars, msgVars, clkVars, named, restVars>>

ResumeStmt ==
    /\ Reaches("resume")
    /\ Resume(Argument)
    /\ Advance
    /\ UNCHANGED <<semVars, msgVars, clkVars, named, restVars>>

SemStmt ==
    /\ \/ Reaches("wait") /\ Wait(Argument)
       \/ Reaches("signal") /\ Signal(Argument)
    /\ Advance
    /\ UNCHANGED <<msgVars, clkVars, named, restVars>>

SCreateStmt ==
    /\ Reaches("screate")
    /\ SCreate(Argument)
    /\ named' = [named EXCEPT !["sem"] =
                    IF exited' THEN @ ELSE CHOOSE s \in Sems : IsNewSem(s)]
    /\ Advance
    /\ UNCHANGED <<msgVars, clkVars, restVars>>

(* B returns when send fails: the other end has gone or is not read.       *)
MsgStmt ==
    /\ \/ Reaches("receive") /\ Receive /\ Advance
       \/ Reaches("send") /\ (\E msg \in Msgs : Send(Argument, msg)) /\ Advance
       \/ /\ Reaches("send") /\ Calling("send")
          /\ Argument \notin {p \in Live : ~phasmsg[p]}
          /\ UNCHANGED <<procVars, msgVars>>
          /\ Continue(<<>>)
    /\ UNCHANGED <<semVars, clkVars, named, restVars>>

(* The sleeper does not look whether sleep has failed.                     *)
SleepStmt ==
    /\ Reaches("sleep")
    /\ \/ Sleep(Argument)
       \/ Calling("sleep") /\ Argument < 0 /\ UNCHANGED <<procVars, clkVars>>
    /\ Advance
    /\ UNCHANGED <<semVars, msgVars, named, restVars>>

Program(name, n) ==
    CASE name = "A"         -> funcA(named["sem"])
      [] name = "B"         -> funcB(named["sem"], named["A"])
      [] name = "C"         -> funcC(currpid, SLEEPTIME)
      [] name = "CLI"       -> CLI
      [] name = "sleeper"   -> sleeper_program(n)
      [] name = "semwaiter" -> semwaiter_program(n)
      [] name = "looper"    -> loop_program

CreateStmt ==
    /\ Reaches("create")
    /\ LET keep == IF Current.name \in DOMAIN named THEN Current.name ELSE "new"
           ssize == IF Current.name = "CLI" THEN 10 * INITSTK ELSE INITSTK
       IN  /\ Create(ssize, INITPRIO)
           /\ \/ exited' /\ UNCHANGED named /\ Advance
              \/ \E pid \in Procs :
                    /\ ~exited' /\ IsNewPid(pid)
                    /\ named' = [named EXCEPT ![keep] = pid]
                    /\ code' = [code EXCEPT
                                  ![currpid] = Tail(@),
                                  ![pid] = Program(Current.name, Current.n)]
    /\ UNCHANGED restVars

(* kill(pid), after which the caller, if it is still there, goes on with   *)
(* rest.                                                                   *)
KillThen(pid, rest) ==
    \/ /\ Kill(pid)
       /\ code' = [code EXCEPT ![currpid] = rest, ![pid] = <<>>]
       /\ handling' = handling \ {pid}
    \/ /\ Calling("kill") /\ pid \notin Live
       /\ Continue(rest)
       /\ UNCHANGED <<vars, handling>>

KillStmt ==
    /\ Reaches("kill")
    /\ KillThen(Argument, Tail(code[currpid]))
    /\ UNCHANGED <<phase, named, shutdown, events>>

(* The procedure of a process has returned: userret.                       *)
userret ==
    /\ phase = "up" /\ code[currpid] = <<>>
    /\ Kill(currpid)
    /\ UNCHANGED <<code, named, restVars>>

-----------------------------------------------------------------------------
(* CLI reads a line: the scanner waits for the console until there is one. *)
YylexStmt ==
    /\ Reaches("yylex")
    /\ Wait(ISEM)
    /\ Continue(<<Stmt("command", 0)>>)
    /\ UNCHANGED <<msgVars, clkVars, named, restVars>>

CommandStmt ==
    /\ Reaches("command") /\ Calling("command")
    /\ \E command \in Commands : Continue(command \o Prompt)
    /\ UNCHANGED <<vars, named, restVars>>

(* Mutation of NextToKill: the pid is counted twice a round.               *)
NextToKillTwice(pid) == pid + 2

NextToKill(pid) == pid + 1

(* halt_system: kill 0, 1, 2 ... until the pid is out of range and one's   *)
(* own, which only the null process's is.                                  *)
HaltStmt ==
    /\ Reaches("halt") /\ Interruptible
    /\ LET pid == Current.n
       IN  \/ /\ isbadpid(pid) /\ pid = currpid
              /\ shutdown' = TRUE
              /\ handling' = handling \ {currpid}
              /\ Advance
              /\ UNCHANGED vars
           \/ /\ ~(isbadpid(pid) /\ pid = currpid)
              /\ KillThen(pid, <<Stmt("halt", NextToKill(pid))>>)
              /\ UNCHANGED shutdown
    /\ UNCHANGED <<phase, named, events>>

(* The null process looks at shutdown in its loop, writes and returns; no  *)
(* context is linked to its own, so that ends the program.                 *)
NullLoop ==
    /\ phase = "up" /\ currpid = NULLPROC /\ Interruptible
    /\ \/ /\ code[NULLPROC] = <<>> /\ shutdown
          /\ Continue(<<Write, Stmt("return", 0)>>)
          /\ UNCHANGED vars
       \/ /\ Reaches("return")
          /\ HandleError
          /\ UNCHANGED <<semVars, msgVars, clkVars, code>>
    /\ UNCHANGED <<named, restVars>>

Statement ==
    /\ \/ WriteStmt \/ SuspendStmt \/ ResumeStmt \/ SemStmt \/ SCreateStmt \/ MsgStmt
       \/ SleepStmt \/ CreateStmt \/ KillStmt \/ YylexStmt \/ CommandStmt \/ HaltStmt
       \/ NullLoop \/ userret
    /\ since' = IF since < PACE THEN since + 1 ELSE since

-----------------------------------------------------------------------------
(* What comes from outside.  In the handler of SIGTERM all other signals   *)
(* are blocked.                                                            *)

NotHandling == currpid \notin handling

ClockSignal ==
    /\ phase # "clkinit" /\ NotHandling
    /\ since = PACE \/ currpid = NULLPROC \/ Reaches("loop")
    /\ ClockInterrupt
    /\ since' = 0
    /\ UNCHANGED <<phase, code, named, handling, shutdown, events>>

(* A line typed: ttyiin signals the input semaphore.                       *)
TypeLine ==
    /\ phase = "up" /\ NotHandling /\ Interruptible
    /\ events < MaxEvents /\ events' = events + 1
    /\ SignalBody(ISEM)
    /\ UNCHANGED <<msgVars, clkVars, phase, code, named, handling, shutdown, since>>

(* kill_XINU runs in the context of the process that SIGTERM interrupts.   *)
kill_XINU ==
    /\ phase = "up" /\ NotHandling /\ Interruptible /\ uctx[currpid] = Running
    /\ events < MaxEvents /\ events' = events + 1
    /\ handling' = handling \cup {currpid}
    /\ Continue(<<Write>> \o halt_system \o code[currpid])
    /\ UNCHANGED <<vars, phase, named, shutdown, since>>

SystemStep == (KernelStep \/ UserStep) /\ UNCHANGED sysVars

Ended == Gone /\ UNCHANGED sysVars

SystemNext ==
    \/ Boot \/ Statement \/ SystemStep
    \/ ClockSignal \/ TypeLine \/ kill_XINU \/ Ended

SystemSpec == SysInit /\ [][SystemNext]_allVars

(* Between two clock interrupts the processor gets on with what it is at:  *)
(* the interval is a millisecond of its own time (ITIMER_VIRTUAL).         *)
SystemFairness ==
    /\ WF_allVars(SystemStep /\ Op # "none")
    /\ SF_allVars(Boot \/ Statement \/ (SystemStep /\ Op = "none"))
    /\ SF_allVars(ClockSignal)

SystemFairSpec == SystemSpec /\ SystemFairness

-----------------------------------------------------------------------------
(* Properties.                                                             *)

(* What initialize.c builds step by step, with the clock already running   *)
(* and the null process calling create, screate and resume before it is a  *)
(* process like others, is the state that Kernel starts from (but for the  *)
(* interrupts counted so far).                                             *)
BootBuildsInit ==
    [][phase # "up" /\ phase' = "up"
          => /\ ProcInit' /\ SemInit' /\ MsgInit'
             /\ clockq' = <<>> /\ ~slnempty' /\ defclk' = 0 /\ clkdiff' = 0]_allVars

(* Left to itself, no program runs into handle_error: C, for one, resumes  *)
(* INIT when INIT has suspended itself (user_program.c).                   *)
DemoNeverFails == events = 0 => ~exited

ToDo(name, op) ==
    \E i \in DOMAIN code[named[name]] : code[named[name]][i].op = op

(* Left to themselves, A, B, C and INIT meet in the order that the         *)
(* semaphore, the message and the resume give: A goes on when B has        *)
(* signalled and ends when B has sent, INIT goes on when C has resumed it. *)
DemoInOrder ==
    events = 0 /\ named["CLI"] # 0 =>
        /\ ToDo("B", "signal") => ToDo("A", "receive")
        /\ ToDo("B", "send") => Live \cap {named["A"]} # {}
        /\ ToDo("C", "resume") => Live \cap {named["INIT"]} # {}

(* And they all finish, with only the clock to share the processor by.     *)
DemoCompletes ==
    []<>(events = 0) => <>(named["CLI"] # 0 /\ Live = {named["CLI"]})

(* After any command the console gets its prompt back, whatever else runs, *)
(* unless the command has stopped CLI or ended the program.                *)
CliAt(op) ==
    LET cli == named["CLI"]
    IN  code[cli] # <<>> /\ Head(code[cli]).op = op
CliPrompts ==
    CliAt("command") /\ pstate[named["CLI"]] # "PRWAIT"
        ~> CliAt("yylex") \/ pstate[named["CLI"]] \in {"PRFREE", "PRSUSP"} \/ exited

(* halt_system, when it comes to the pid it runs in, has killed all the    *)
(* lower ones, although it can be interrupted between any two.             *)
HaltKillsLower ==
    [][\A p \in Procs :
          /\ currpid = p /\ Reaches("halt") /\ pstate'[p] = "PRFREE"
          => \A o \in 1 .. p : pstate'[o] = "PRFREE"]_allVars

(* "GoodBye--shutting down" (CLI), "Xinu going down on signal"             *)
(* (kill_XINU): halt_system ends the program.                              *)
Halting == \E p \in Procs : code[p] # <<>> /\ Head(code[p]).op = "halt"
HaltEndsProgram == Halting ~> exited

=============================================================================
