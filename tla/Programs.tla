------------------------------ MODULE Programs ------------------------------
(***************************************************************************)
(* The programs of user_program.c and CLI_funcs.c: the calls each of them  *)
(* makes, in order.  A write to the console is one statement; what it says *)
(* is left out.                                                            *)
(*                                                                         *)
(* A statement has an operation, an argument n, and perhaps the name of a  *)
(* result that an earlier statement has kept: then n is not used.          *)
(***************************************************************************)
EXTENDS Kernel

CONSTANTS
    SLEEPTIME,      \* seconds C sleeps (30 in initial_process)
    CliSeconds,     \* seconds typed after "create slp"
    CliCounts,      \* counts typed after "create semaphore"
    CliPids,        \* pids typed after "resume", "kill", "suspend"
    CliSems         \* semaphores typed after "signal", "create wtr"

Stmt(op, n) == [op |-> op, name |-> "", n |-> n]
OnNamed(op, name) == [op |-> op, name |-> name, n |-> 0]

Write == Stmt("write", 0)
Writes(n) == [i \in 1 .. n |-> Write]

-----------------------------------------------------------------------------
(* user_program.c                                                          *)

funcA(sem) ==
    Writes(2) \o <<Stmt("wait", sem), Write, Stmt("receive", 0)>> \o Writes(2)

(* Mutation of funcB: it does not signal.                                  *)
funcBWithoutSignal(sem, pid) ==
    Writes(2) \o <<Stmt("sleep", 2), Write, Write, Stmt("sleep", 2), Write,
                   Stmt("send", pid), Write, Stmt("sleep", 2), Write>>

funcB(sem, pid) ==
    Writes(2) \o <<Stmt("sleep", 2), Write, Stmt("signal", sem),
                   Write, Stmt("sleep", 2), Write, Stmt("send", pid),
                   Write, Stmt("sleep", 2), Write>>

(* Mutation of funcC: it does not sleep.                                   *)
funcCAwake(pid, seconds) == Writes(3) \o <<Stmt("resume", pid), Write>>

funcC(pid, seconds) ==
    Writes(2) \o <<Stmt("sleep", seconds), Write, Stmt("resume", pid), Write>>

(* Mutation of CreateSem: A finds the semaphore open.                      *)
CreateSemOpen == Stmt("screate", 1)

CreateSem == Stmt("screate", 0)

initial_process ==
    <<Write, CreateSem, OnNamed("create", "A"), OnNamed("create", "B"),
      OnNamed("create", "C"), OnNamed("create", "CLI"), Write,
      OnNamed("resume", "A"), OnNamed("resume", "B"), OnNamed("resume", "C"),
      OnNamed("resume", "CLI"), Write, OnNamed("suspend", "INIT")>> \o Writes(2)

(* CLI_funcs.c                                                             *)

loop_program == <<Write, Stmt("loop", 0)>>
sleeper_program(seconds) == <<Write, Stmt("sleep", seconds), Write>>
semwaiter_program(sem) == <<Write, Stmt("wait", sem), Write>>

halt_system == <<Stmt("halt", 0)>>

show_proc_table == Writes(NPROC)
show_Q(length) == IF length = 0 THEN <<Write>> ELSE Writes(length)
resume_proc(pid) == <<Write, Stmt("resume", pid)>>
kill_proc(pid) == <<Write, Stmt("kill", pid)>>
suspend_proc(pid) == <<Write, Stmt("suspend", pid)>>
signal_sem(sem) == <<Write, Stmt("signal", sem)>>

-----------------------------------------------------------------------------
(* CLI: it waits for a line, does what the line says and prints its prompt.*)
(* What the scanner makes of a line is one of these.                       *)

Launch(name, n) ==
    <<[op |-> "create", name |-> name, n |-> n], OnNamed("resume", "new")>>

CreateCommands ==
    {Launch("sleeper", n) : n \in CliSeconds}
        \cup {Launch("semwaiter", s) : s \in CliSems}
        \cup {Launch("looper", 0)}
        \cup {<<Stmt("screate", n), Write>> : n \in CliCounts}

ShowCommands == {show_proc_table} \cup {show_Q(n) : n \in 0 .. NPROC - 1}

ProcCommands ==
    UNION {{resume_proc(pid), kill_proc(pid), suspend_proc(pid)} : pid \in CliPids}

SemCommands == {signal_sem(s) : s \in CliSems}

ExitCommand == <<Write>> \o halt_system
JunkCommand == <<Write>>

Commands ==
    CreateCommands \cup ShowCommands \cup ProcCommands \cup SemCommands
        \cup {ExitCommand, JunkCommand}

Prompt == <<Write, Stmt("yylex", 0)>>
CLI == <<Write>> \o Prompt

=============================================================================
