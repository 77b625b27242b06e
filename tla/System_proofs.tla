---------------------------- MODULE System_proofs ----------------------------
(***************************************************************************)
(* The theorems about System: the inductive invariant of Kernel holds in   *)
(* the whole system from clkinit on, what initialize.c builds is the state *)
(* that Kernel starts from, halt_system leaves nobody behind below its own *)
(* pid, and the first programs meet in their order.  First what programs   *)
(* are made of: every argument of a call is a number, so a statement makes *)
(* one of the calls that Kernel_proofs is about.  Then the invariant of    *)
(* the boot, which says what the tables hold at each point of nulluser     *)
(* while clock interrupts come and go; then who makes processes and who    *)
(* halts, from what the programs have left to do.  Last the stages that    *)
(* initial_process, A, B, C and CLI go through.                            *)
(***************************************************************************)
EXTENDS System, Kernel_proofs

-----------------------------------------------------------------------------
(* Statements and programs.                                                *)

Names == {"sem", "INIT", "A", "B", "C", "CLI", "new"}
Launched == {"A", "B", "C", "CLI", "sleeper", "semwaiter", "looper"}
OtherOps == {"write", "wait", "receive", "sleep", "signal", "send", "screate", "resume",
           "suspend", "yylex", "command", "loop", "kill", "halt", "return"}

Statements ==
    [op : OtherOps, name : Names \cup {""}, n : Int]
        \cup [op : {"create"}, name : Launched, n : Int]

ProgramsOK == code \in [Procs -> Seq(Statements)] /\ named \in [Names -> Int]

(* Most programs neither read commands nor halt, and those that create     *)
(* have the create where it can be seen: the rest is built from these.     *)
QuietOps == OtherOps \ {"yylex", "command", "halt"}

Builds(S) ==
    /\ \A op \in QuietOps : \A n \in Int : Stmt(op, n) \in S
    /\ \A op \in QuietOps : \A name \in Names : OnNamed(op, name) \in S

LEMMA StmtTypes ==
    /\ Builds(Statements)
    /\ \A n \in Int : \A op \in OtherOps : Stmt(op, n) \in Statements
    /\ \A n \in Int : \A name \in Launched :
          [op |-> "create", name |-> name, n |-> n] \in Statements
    /\ \A name \in Launched : OnNamed("create", name) \in Statements
<1>1. \A op \in OtherOps : \A n \in Int : Stmt(op, n) \in Statements
  BY DEF Statements, Stmt, OtherOps
<1>2. \A op \in OtherOps : \A name \in Names : OnNamed(op, name) \in Statements
  <2> SUFFICES ASSUME NEW op \in OtherOps, NEW name \in Names
               PROVE  OnNamed(op, name) \in [op : OtherOps, name : Names \cup {""}, n : Int]
    BY DEF Statements
  <2>1. /\ op \in OtherOps
        /\ name \in Names \cup {""}
        /\ 0 \in Int
    <3>1. op \in OtherOps
      OBVIOUS
    <3>2. name \in Names \cup {""}
      OBVIOUS
    <3>3. 0 \in Int
      OBVIOUS
    <3> QED BY <3>1, <3>2, <3>3
  <2>2. [op |-> op, name |-> name, n |-> 0] \in [op : OtherOps, name : Names \cup {""}, n : Int]
    BY <2>1
  <2> QED BY <2>2 DEF OnNamed
<1>3. \A n \in Int : \A name \in Launched :
          [op |-> "create", name |-> name, n |-> n] \in Statements
  BY DEF Statements
<1>4. \A name \in Launched : OnNamed("create", name) \in Statements
  BY <1>3 DEF OnNamed
<1> QED BY <1>1, <1>2, <1>3, <1>4 DEF Builds, QuietOps

LEMMA WritesBuilt ==
    ASSUME NEW S, Builds(S)
    PROVE  Write \in S /\ \A n \in Nat : Writes(n) \in Seq(S)
<1>1. Write \in S
  BY DEF Builds, QuietOps, OtherOps, Write
<1> QED BY <1>1 DEF Writes

LEMMA QuietPrograms ==
    ASSUME NEW S, Builds(S), NEW m \in Int, NEW n \in Int
    PROVE  /\ funcA(m) \in Seq(S)
           /\ funcB(m, n) \in Seq(S)
           /\ funcC(m, n) \in Seq(S)
           /\ sleeper_program(n) \in Seq(S)
           /\ semwaiter_program(n) \in Seq(S)
           /\ loop_program \in Seq(S)
<1>0. Write \in S /\ \A op \in QuietOps : \A i \in Int : Stmt(op, i) \in S
  BY WritesBuilt DEF Builds
<1>1. Writes(2) \in Seq(S)
  BY WritesBuilt
<1>2. funcA(m) \in Seq(S)
  <2>1. <<Stmt("wait", m), Write, Stmt("receive", 0)>> \in Seq(S)
    BY <1>0 DEF QuietOps, OtherOps
  <2> QED BY <1>1, <2>1, ConcatProperties DEF funcA
<1>3. funcB(m, n) \in Seq(S)
  <2>1. <<Stmt("sleep", 2), Write, Stmt("signal", m),
          Write, Stmt("sleep", 2), Write, Stmt("send", n),
          Write, Stmt("sleep", 2), Write>> \in Seq(S)
    BY <1>0 DEF QuietOps, OtherOps
  <2> QED BY <1>1, <2>1, ConcatProperties DEF funcB
<1>4. funcC(m, n) \in Seq(S)
  <2>1. <<Stmt("sleep", n), Write, Stmt("resume", m), Write>> \in Seq(S)
    BY <1>0 DEF QuietOps, OtherOps
  <2> QED BY <1>1, <2>1, ConcatProperties DEF funcC
<1>5. /\ sleeper_program(n) \in Seq(S) /\ semwaiter_program(n) \in Seq(S)
      /\ loop_program \in Seq(S)
  BY <1>0 DEF sleeper_program, semwaiter_program, loop_program, QuietOps, OtherOps
<1> QED BY <1>2, <1>3, <1>4, <1>5

LEMMA CliBuilt ==
    ASSUME NEW S, Builds(S), Stmt("yylex", 0) \in S, Stmt("halt", 0) \in S
    PROVE  Prompt \in Seq(S) /\ CLI \in Seq(S) /\ halt_system \in Seq(S)
<1>1. Prompt \in Seq(S) /\ <<Write>> \in Seq(S) /\ halt_system \in Seq(S)
  BY WritesBuilt DEF Prompt, halt_system
<1> QED BY <1>1, ConcatProperties DEF CLI

LEMMA CommandsBuilt ==
    ASSUME NEW S, Builds(S), Stmt("halt", 0) \in S,
           \A n \in Int : \A name \in {"sleeper", "semwaiter", "looper"} :
               [op |-> "create", name |-> name, n |-> n] \in S,
           NEW command \in Commands
    PROVE  command \in Seq(S)
<1>1. /\ CliSeconds \subseteq Int /\ CliCounts \subseteq Int
      /\ CliPids \subseteq Int /\ CliSems \subseteq Int
  BY SystemAssumption, ConstFacts DEF PidArgs, SemArgs, Procs, Sems
<1>0. /\ Write \in S
      /\ \A op \in QuietOps : \A i \in Int : Stmt(op, i) \in S
      /\ \A op \in QuietOps : \A name \in Names : OnNamed(op, name) \in S
  BY WritesBuilt DEF Builds
<1>2. \A n \in Nat : Writes(n) \in Seq(S)
  BY WritesBuilt
<1>3. CASE command \in CreateCommands
  <2>1. \A n \in Int, name \in {"sleeper", "semwaiter", "looper"} :
            Launch(name, n) \in Seq(S)
    <3> TAKE n \in Int, name \in {"sleeper", "semwaiter", "looper"}
    <3>1. [op |-> "create", name |-> name, n |-> n] \in S
      OBVIOUS
    <3>2. OnNamed("resume", "new") \in S
      BY <1>0 DEF QuietOps, OtherOps, Names
    <3> QED BY <3>1, <3>2 DEF Launch
  <2>2. \A n \in Int : <<Stmt("screate", n), Write>> \in Seq(S)
    BY <1>0 DEF QuietOps, OtherOps
  <2>3. \/ \E n \in Int, name \in {"sleeper", "semwaiter", "looper"} :
               command = Launch(name, n)
        \/ \E n \in Int : command = <<Stmt("screate", n), Write>>
    BY <1>1, <1>3 DEF CreateCommands
  <2> QED BY <2>1, <2>2, <2>3
<1>4. CASE command \in ShowCommands
  <2>1. \A n \in 0 .. NPROC - 1 : show_Q(n) \in Seq(S)
    BY <1>0, <1>2, ConstFacts DEF show_Q
  <2>2. show_proc_table \in Seq(S)
    BY <1>2, ConstFacts DEF show_proc_table
  <2> QED BY <1>4, <2>1, <2>2 DEF ShowCommands
<1>5. CASE command \in ProcCommands
  <2>1. \A pid \in CliPids : /\ resume_proc(pid) \in Seq(S)
                             /\ kill_proc(pid) \in Seq(S)
                             /\ suspend_proc(pid) \in Seq(S)
    BY <1>0, <1>1 DEF resume_proc, kill_proc, suspend_proc, QuietOps, OtherOps
  <2> QED BY <1>5, <2>1 DEF ProcCommands
<1>6. CASE command \in SemCommands
  <2>1. \A s \in Int : signal_sem(s) \in Seq(S)
    BY <1>0 DEF signal_sem, QuietOps, OtherOps
  <2> QED BY <1>1, <1>6, <2>1 DEF SemCommands
<1>7. CASE command = ExitCommand
  <2>1. <<Write>> \in Seq(S) /\ halt_system \in Seq(S)
    BY <1>0 DEF halt_system
  <2> QED BY <1>7, <2>1, ConcatProperties DEF ExitCommand
<1>8. CASE command = JunkCommand
  BY <1>0, <1>8 DEF JunkCommand
<1> QED BY <1>3, <1>4, <1>5, <1>6, <1>7, <1>8 DEF Commands

(* The program of the first user process: it makes CLI after all the       *)
(* others.                                                                 *)
BeforeCLI == <<Write, CreateSem, OnNamed("create", "A"), OnNamed("create", "B"),
               OnNamed("create", "C")>>
AfterCLI == <<Write, OnNamed("resume", "A"), OnNamed("resume", "B"),
              OnNamed("resume", "C"), OnNamed("resume", "CLI"), Write,
              OnNamed("suspend", "INIT")>> \o Writes(2)

LEMMA InitialBuilt ==
    ASSUME NEW S, Builds(S)
    PROVE  /\ AfterCLI \in Seq(S)
           /\ (\A name \in {"A", "B", "C"} : OnNamed("create", name) \in S)
                => BeforeCLI \in Seq(S)
<1>1. /\ Write \in S
      /\ \A op \in QuietOps : \A i \in Int : Stmt(op, i) \in S
      /\ \A op \in QuietOps : \A name \in Names : OnNamed(op, name) \in S
  BY WritesBuilt DEF Builds
<1>2. Writes(2) \in Seq(S)
  BY WritesBuilt
<1>3. <<Write, OnNamed("resume", "A"), OnNamed("resume", "B"), OnNamed("resume", "C"),
        OnNamed("resume", "CLI"), Write, OnNamed("suspend", "INIT")>> \in Seq(S)
  BY <1>1 DEF QuietOps, OtherOps, Names
<1>4. AfterCLI \in Seq(S)
  BY <1>2, <1>3, ConcatProperties DEF AfterCLI
<1>5. ASSUME \A name \in {"A", "B", "C"} : OnNamed("create", name) \in S
      PROVE  BeforeCLI \in Seq(S)
  BY <1>1, <1>5 DEF BeforeCLI, CreateSem, QuietOps, OtherOps
<1> QED BY <1>4, <1>5

LEMMA InitialProcess ==
    initial_process = BeforeCLI \o <<OnNamed("create", "CLI")>> \o AfterCLI
BY DEF initial_process, BeforeCLI, AfterCLI

LEMMA ProgramTypes ==
    ASSUME NEW m \in Int, NEW n \in Int
    PROVE  /\ funcA(m) \in Seq(Statements)
           /\ funcB(m, n) \in Seq(Statements)
           /\ funcC(m, n) \in Seq(Statements)
           /\ CLI \in Seq(Statements)
           /\ sleeper_program(n) \in Seq(Statements)
           /\ semwaiter_program(n) \in Seq(Statements)
           /\ loop_program \in Seq(Statements)
           /\ initial_process \in Seq(Statements)
           /\ halt_system \in Seq(Statements)
           /\ Prompt \in Seq(Statements)
<1> DEFINE S == Statements
<1>1. /\ Builds(S)
      /\ \A op \in OtherOps : \A i \in Int : Stmt(op, i) \in S
      /\ \A name \in Launched : OnNamed("create", name) \in S
  BY StmtTypes
<1> HIDE DEF S
<1>2. Stmt("yylex", 0) \in S /\ Stmt("halt", 0) \in S
  BY <1>1 DEF OtherOps
<1>3. CLI \in Seq(S) /\ Prompt \in Seq(S) /\ halt_system \in Seq(S)
  BY <1>1, <1>2, CliBuilt
<1>4. AfterCLI \in Seq(S) /\ BeforeCLI \in Seq(S) /\ <<OnNamed("create", "CLI")>> \in Seq(S)
  BY <1>1, InitialBuilt DEF Launched
<1>5. initial_process \in Seq(S)
  BY <1>4, InitialProcess, ConcatProperties
<1>6. /\ funcA(m) \in Seq(S) /\ funcB(m, n) \in Seq(S) /\ funcC(m, n) \in Seq(S)
      /\ sleeper_program(n) \in Seq(S) /\ semwaiter_program(n) \in Seq(S)
      /\ loop_program \in Seq(S)
  BY <1>1, QuietPrograms
<1> QED BY <1>3, <1>5, <1>6 DEF S

LEMMA CommandTypes ==
    ASSUME NEW command \in Commands
    PROVE  command \in Seq(Statements)
<1>1. /\ Builds(Statements) /\ Stmt("halt", 0) \in Statements
      /\ \A n \in Int : \A name \in {"sleeper", "semwaiter", "looper"} :
             [op |-> "create", name |-> name, n |-> n] \in Statements
  <2>1. {"sleeper", "semwaiter", "looper"} \subseteq Launched /\ "halt" \in OtherOps
    BY DEF Launched, OtherOps
  <2> QED BY <2>1, StmtTypes
<1> QED BY <1>1, CommandsBuilt

-----------------------------------------------------------------------------
(* The calls of Kernel_proofs with any number for an argument: what is out *)
(* of range is refused in the same way whatever it is.                     *)

LEMMA ArgumentTypes ==
    /\ Procs \subseteq PidArgs /\ NPROC \in PidArgs /\ isbadpid(NPROC)
    /\ Sems \subseteq SemArgs /\ NSEM \in SemArgs /\ isbadsem(NSEM)
    /\ \A pid \in Int : ~isbadpid(pid) => pid \in Procs
    /\ \A s \in Int : ~isbadsem(s) => s \in Sems
    /\ Sems \subseteq Int /\ Procs \subseteq Int
BY ConstFacts DEF PidArgs, SemArgs, Procs, Sems, isbadpid, isbadsem

LEMMA SuspendAny ==
    ASSUME IInv, NEW pid \in Int, Suspend(pid), UNCHANGED <<semVars, msgVars, clkVars>>
    PROVE  IInv'
<1>1. pid \in PidArgs
  BY ArgumentTypes DEF Suspend
<1> QED BY <1>1, SuspendStep

LEMMA ResumeAny ==
    ASSUME IInv, NEW pid \in Int, Resume(pid), UNCHANGED <<semVars, msgVars, clkVars>>
    PROVE  IInv'
<1>1. CASE isbadpid(pid)
  <2>1. Resume(NPROC)
    BY <1>1, ArgumentTypes DEF Resume, Suspended
  <2> QED BY <2>1, ArgumentTypes, ResumeStep
<1>2. CASE ~isbadpid(pid)
  BY <1>2, ArgumentTypes, ResumeStep
<1> QED BY <1>1, <1>2

LEMMA WaitAny ==
    ASSUME IInv, NEW s \in Int, Wait(s), UNCHANGED <<msgVars, clkVars>>
    PROVE  IInv'
<1>1. CASE isbadsem(s)
  <2>1. Wait(NSEM)
    BY <1>1, ArgumentTypes DEF Wait, SemUsed
  <2> QED BY <2>1, ArgumentTypes, WaitStep
<1>2. CASE ~isbadsem(s)
  BY <1>2, ArgumentTypes, WaitStep
<1> QED BY <1>1, <1>2

LEMMA SignalAny ==
    ASSUME IInv, Interruptible, NEW s \in Int, SignalBody(s),
           UNCHANGED <<msgVars, clkVars>>
    PROVE  IInv'
<1>1. CASE isbadsem(s)
  <2>1. SignalBody(NSEM)
    BY <1>1, ArgumentTypes DEF SignalBody, SemUsed
  <2> QED BY <2>1, ArgumentTypes, SignalBodyStep
<1>2. CASE ~isbadsem(s)
  BY <1>2, ArgumentTypes, SignalBodyStep
<1> QED BY <1>1, <1>2

LEMMA SendAny ==
    ASSUME IInv, NEW pid \in Int, NEW msg \in Msgs, Send(pid, msg),
           UNCHANGED <<semVars, clkVars>>
    PROVE  IInv'
<1>1. pid \in PidArgs
  BY ArgumentTypes DEF Send
<1> QED BY <1>1, SendStep

LEMMA KillAny ==
    ASSUME IInv, NEW pid \in Int, Kill(pid)
    PROVE  IInv' /\ pid \in Procs
<1>1. pid \in PidArgs /\ pid \in Procs
  BY ArgumentTypes DEF Kill
<1> QED BY <1>1, KillStep

-----------------------------------------------------------------------------
(* The statements.                                                         *)

LEMMA CurrentTypes ==
    ASSUME ProgramsOK, IInv, code[currpid] # <<>>
    PROVE  /\ currpid \in Procs
           /\ Current \in Statements /\ Current.n \in Int
           /\ Tail(code[currpid]) \in Seq(Statements)
           /\ Current.op # "create" => Argument \in Int
           /\ Current.op = "create" => Current.name \in Launched
<1>1. currpid \in Procs
  BY DEF IInv, SchedInv, ProcTypeOK
<1>2. code[currpid] \in Seq(Statements) /\ named \in [Names -> Int]
  BY <1>1 DEF ProgramsOK
<1>3. Current \in Statements /\ Tail(code[currpid]) \in Seq(Statements)
  BY <1>2, HeadTailProperties DEF Current
<1>4. /\ Current.n \in Int
      /\ Current.op = "create" => Current.name \in Launched
      /\ Current.op # "create" => Current.name \in Names \cup {""}
  <2>1. CASE Current \in [op : OtherOps, name : Names \cup {""}, n : Int]
    BY <2>1 DEF OtherOps
  <2>2. CASE Current \in [op : {"create"}, name : Launched, n : Int]
    BY <2>2
  <2> QED BY <1>3, <2>1, <2>2 DEF Statements
<1> QED BY <1>1, <1>2, <1>3, <1>4 DEF Argument

(* The program that a process goes on with is one.                         *)
LEMMA Continues ==
    ASSUME ProgramsOK, NEW rest \in Seq(Statements), Continue(rest),
           named' = named
    PROVE  ProgramsOK'
BY DEF ProgramsOK, Continue

LEMMA Advances ==
    ASSUME ProgramsOK, IInv, code[currpid] # <<>>, Advance, named' = named
    PROVE  ProgramsOK'
BY CurrentTypes, Continues DEF Advance

LEMMA CallStutters ==
    ASSUME IInv, UNCHANGED procVars, UNCHANGED <<semVars, msgVars, clkVars>>
    PROVE  IInv'
BY StutterStep DEF vars

LEMMA WriteStmtStep ==
    ASSUME IInv, ProgramsOK, WriteStmt
    PROVE  IInv' /\ ProgramsOK'
BY YieldOnly, Advances DEF WriteStmt, Reaches

LEMMA SuspendStmtStep ==
    ASSUME IInv, ProgramsOK, SuspendStmt
    PROVE  IInv' /\ ProgramsOK'
<1>1. /\ code[currpid] # <<>> /\ Current.op = "suspend"
      /\ Advance /\ named' = named /\ UNCHANGED <<semVars, msgVars, clkVars>>
      /\ Suspend(Argument) \/ UNCHANGED procVars
  BY DEF SuspendStmt, Reaches
<1>2. Argument \in Int
  BY <1>1, CurrentTypes
<1> HIDE DEF Argument
<1>3. IInv'
  BY <1>1, <1>2, SuspendAny, CallStutters
<1> QED BY <1>1, <1>3, Advances

LEMMA ResumeStmtStep ==
    ASSUME IInv, ProgramsOK, ResumeStmt
    PROVE  IInv' /\ ProgramsOK'
<1>1. /\ code[currpid] # <<>> /\ Current.op = "resume"
      /\ Advance /\ named' = named /\ UNCHANGED <<semVars, msgVars, clkVars>>
      /\ Resume(Argument)
  BY DEF ResumeStmt, Reaches
<1>2. Argument \in Int
  BY <1>1, CurrentTypes
<1>3. IInv'
  BY <1>1, <1>2, ResumeAny
<1> QED BY <1>1, <1>3, Advances

LEMMA SemStmtStep ==
    ASSUME IInv, ProgramsOK, SemStmt
    PROVE  IInv' /\ ProgramsOK'
<1>1. /\ code[currpid] # <<>> /\ Current.op \in {"wait", "signal"}
      /\ Advance /\ named' = named /\ UNCHANGED <<msgVars, clkVars>>
      /\ Wait(Argument) \/ Signal(Argument)
  BY DEF SemStmt, Reaches
<1>2. Argument \in Int
  BY <1>1, CurrentTypes
<1>3. CASE Signal(Argument)
  <2>1. Interruptible /\ SignalBody(Argument)
    BY <1>3 DEF Signal, Calling
  <2> QED BY <1>1, <1>2, <2>1, SignalAny, Advances
<1>4. CASE Wait(Argument)
  BY <1>1, <1>2, <1>4, WaitAny, Advances
<1> QED BY <1>1, <1>3, <1>4

LEMMA SCreateStmtStep ==
    ASSUME IInv, ProgramsOK, SCreateStmt
    PROVE  IInv' /\ ProgramsOK'
<1>1. /\ code[currpid] # <<>> /\ Current.op = "screate"
      /\ Advance /\ UNCHANGED <<msgVars, clkVars>>
      /\ SCreate(Argument)
      /\ named' = [named EXCEPT !["sem"] =
                      IF exited' THEN @ ELSE CHOOSE s \in Sems : IsNewSem(s)]
  BY DEF SCreateStmt, Reaches
<1>2. Argument \in Int
  BY <1>1, CurrentTypes
<1>3. IInv'
  BY <1>1, <1>2, SCreateStep
<1>4. ~exited' => (CHOOSE s \in Sems : IsNewSem(s)) \in Int
  <2>1. ~exited' => \E s \in Sems : IsNewSem(s)
    BY <1>1 DEF SCreate, SCreateBody, SemError, HandleError
  <2>2. ~exited' => (CHOOSE s \in Sems : IsNewSem(s)) \in Sems
    BY <2>1
  <2> QED BY <2>2, ArgumentTypes
<1>5. named' \in [Names -> Int]
  BY <1>1, <1>4 DEF ProgramsOK, Names
<1>6. code' \in [Procs -> Seq(Statements)]
  BY <1>1, CurrentTypes DEF Advance, Continue, ProgramsOK
<1> QED BY <1>3, <1>5, <1>6 DEF ProgramsOK

LEMMA MsgStmtStep ==
    ASSUME IInv, ProgramsOK, MsgStmt
    PROVE  IInv' /\ ProgramsOK'
<1>1. /\ code[currpid] # <<>> /\ named' = named /\ UNCHANGED <<semVars, clkVars>>
      /\ <<>> \in Seq(Statements)
  BY EmptySeq DEF MsgStmt, Reaches
<1>2. CASE Receive /\ Advance
  BY <1>1, <1>2, ReceiveStep, Advances
<1>3. CASE Reaches("send") /\ (\E msg \in Msgs : Send(Argument, msg)) /\ Advance
  <2>1. Argument \in Int
    BY <1>1, <1>3, CurrentTypes DEF Reaches
  <2>2. PICK msg \in Msgs : Send(Argument, msg)
    BY <1>3
  <2> QED BY <1>1, <1>3, <2>1, <2>2, SendAny, Advances
<1>4. CASE UNCHANGED <<procVars, msgVars>> /\ Continue(<<>>)
  <2>1. ProgramsOK'
    BY <1>1, <1>4, Continues
  <2> QED BY <1>1, <1>4, <2>1, CallStutters
<1> QED BY <1>2, <1>3, <1>4 DEF MsgStmt

LEMMA SleepStmtStep ==
    ASSUME IInv, ProgramsOK, SleepStmt
    PROVE  IInv' /\ ProgramsOK'
<1>1. /\ code[currpid] # <<>> /\ Current.op = "sleep"
      /\ Advance /\ named' = named /\ UNCHANGED <<semVars, msgVars>>
      /\ Sleep(Argument) \/ UNCHANGED <<procVars, clkVars>>
  BY DEF SleepStmt, Reaches
<1>2. Argument \in Int
  BY <1>1, CurrentTypes
<1>3. IInv'
  BY <1>1, <1>2, SleepStep, CallStutters
<1> QED BY <1>1, <1>3, Advances

LEMMA ProgramType ==
    ASSUME ProgramsOK, IInv, NEW name \in Launched, NEW n \in Int
    PROVE  Program(name, n) \in Seq(Statements)
<1>1. /\ currpid \in Int /\ SLEEPTIME \in Int
      /\ named["sem"] \in Int /\ named["A"] \in Int
  BY ArgumentTypes, SystemAssumption DEF ProgramsOK, Names, IInv, SchedInv, ProcTypeOK
<1> QED BY <1>1, ProgramTypes DEF Program, Launched

LEMMA CreateStmtStep ==
    ASSUME IInv, ProgramsOK, CreateStmt
    PROVE  IInv' /\ ProgramsOK'
<1> DEFINE keep == IF Current.name \in DOMAIN named THEN Current.name ELSE "new"
           ssize == IF Current.name = "CLI" THEN 10 * INITSTK ELSE INITSTK
<1>1. /\ code[currpid] # <<>> /\ Current.op = "create"
      /\ Create(ssize, INITPRIO)
      /\ \/ named' = named /\ Advance
         \/ \E pid \in Procs :
               /\ named' = [named EXCEPT ![keep] = pid]
               /\ code' = [code EXCEPT
                             ![currpid] = Tail(code[currpid]),
                             ![pid] = Program(Current.name, Current.n)]
  BY DEF CreateStmt, Reaches
<1>2. ssize \in Nat /\ INITPRIO \in Int /\ INITPRIO <= MAXINT
  BY ConstFacts
<1> HIDE DEF ssize
<1>3. IInv'
  BY <1>1, <1>2, CreateStep
<1>4. keep \in Names
  BY DEF ProgramsOK, Names
<1> HIDE DEF keep
<1>5. ASSUME NEW pid \in Procs,
             named' = [named EXCEPT ![keep] = pid],
             code' = [code EXCEPT ![currpid] = Tail(code[currpid]),
                                  ![pid] = Program(Current.name, Current.n)]
      PROVE  ProgramsOK'
  <2>1. Current.name \in Launched /\ Current.n \in Int
    BY <1>1, CurrentTypes
  <2>2. /\ Program(Current.name, Current.n) \in Seq(Statements)
        /\ Tail(code[currpid]) \in Seq(Statements) /\ pid \in Int
    BY <1>1, <2>1, ProgramType, CurrentTypes, ArgumentTypes
  <2> QED BY <1>4, <1>5, <2>2 DEF ProgramsOK
<1> QED BY <1>1, <1>3, <1>5, Advances

LEMMA KillThenStep ==
    ASSUME IInv, ProgramsOK, NEW pid \in Int, NEW rest \in Seq(Statements),
           KillThen(pid, rest), named' = named
    PROVE  IInv' /\ ProgramsOK'
<1>1. CASE /\ Kill(pid)
           /\ code' = [code EXCEPT ![currpid] = rest, ![pid] = <<>>]
  <2>1. IInv' /\ pid \in Procs
    BY <1>1, KillAny
  <2>2. <<>> \in Seq(Statements)
    BY EmptySeq
  <2> QED BY <1>1, <2>1, <2>2 DEF ProgramsOK
<1>2. CASE Continue(rest) /\ UNCHANGED vars
  BY <1>2, Continues, StutterStep
<1> QED BY <1>1, <1>2 DEF KillThen

LEMMA KillStmtStep ==
    ASSUME IInv, ProgramsOK, KillStmt
    PROVE  IInv' /\ ProgramsOK'
<1>1. /\ code[currpid] # <<>> /\ Current.op = "kill" /\ named' = named
      /\ KillThen(Argument, Tail(code[currpid]))
  BY DEF KillStmt, Reaches
<1>2. Argument \in Int /\ Tail(code[currpid]) \in Seq(Statements)
  BY <1>1, CurrentTypes
<1> QED BY <1>1, <1>2, KillThenStep

LEMMA userretStep ==
    ASSUME IInv, ProgramsOK, userret
    PROVE  IInv' /\ ProgramsOK'
<1>1. Kill(currpid) /\ code' = code /\ named' = named
  BY DEF userret
<1>2. currpid \in Int
  BY ArgumentTypes DEF IInv, SchedInv, ProcTypeOK
<1> QED BY <1>1, <1>2, KillAny DEF ProgramsOK

LEMMA YylexStmtStep ==
    ASSUME IInv, ProgramsOK, YylexStmt
    PROVE  IInv' /\ ProgramsOK'
<1>1. /\ Wait(ISEM) /\ Continue(<<Stmt("command", 0)>>)
      /\ named' = named /\ UNCHANGED <<msgVars, clkVars>>
  BY DEF YylexStmt
<1>2. ISEM \in Int
  BY ConstFacts DEF ISEM
<1>3. Stmt("command", 0) \in Statements
  BY StmtTypes DEF OtherOps
<1>4. <<Stmt("command", 0)>> \in Seq(Statements)
  BY <1>3
<1> QED BY <1>1, <1>2, <1>4, WaitAny, Continues

LEMMA CommandStmtStep ==
    ASSUME IInv, ProgramsOK, CommandStmt
    PROVE  IInv' /\ ProgramsOK'
<1>1. PICK command \in Commands : Continue(command \o Prompt)
  BY DEF CommandStmt
<1>2. named' = named /\ UNCHANGED vars
  BY DEF CommandStmt
<1>3. command \o Prompt \in Seq(Statements)
  <2>1. command \in Seq(Statements)
    BY CommandTypes
  <2>2. Prompt \in Seq(Statements)
    BY ProgramTypes
  <2> QED BY <2>1, <2>2, ConcatProperties
<1> QED BY <1>1, <1>2, <1>3, Continues, StutterStep

LEMMA HaltStmtStep ==
    ASSUME IInv, ProgramsOK, HaltStmt
    PROVE  IInv' /\ ProgramsOK'
<1> DEFINE pid == Current.n
<1>1. /\ code[currpid] # <<>> /\ named' = named
      /\ \/ Advance /\ UNCHANGED vars
         \/ KillThen(pid, <<Stmt("halt", NextToKill(pid))>>)
  BY DEF HaltStmt, Reaches
<1>2. pid \in Int
  BY <1>1, CurrentTypes
<1> HIDE DEF pid
<1>3. Stmt("halt", NextToKill(pid)) \in Statements
  BY <1>2, StmtTypes DEF OtherOps, NextToKill
<1>4. <<Stmt("halt", NextToKill(pid))>> \in Seq(Statements)
  BY <1>3
<1> QED BY <1>1, <1>2, <1>4, KillThenStep, Advances, StutterStep

LEMMA NullLoopStep ==
    ASSUME IInv, ProgramsOK, NullLoop
    PROVE  IInv' /\ ProgramsOK'
<1>1. currpid = NULLPROC /\ Interruptible /\ named' = named
  BY DEF NullLoop
<1>2. CASE Continue(<<Write, Stmt("return", 0)>>) /\ UNCHANGED vars
  <2>1. Write \in Statements /\ Stmt("return", 0) \in Statements
    BY StmtTypes, WritesBuilt DEF OtherOps
  <2>2. <<Write, Stmt("return", 0)>> \in Seq(Statements)
    BY <2>1
  <2> QED BY <1>1, <1>2, <2>2, Continues, StutterStep
<1>3. CASE HandleError /\ UNCHANGED <<semVars, msgVars, clkVars, code>>
  <2>1. IInv'
    BY <1>1, <1>3, ExitStep
  <2> QED BY <1>1, <1>3, <2>1 DEF ProgramsOK
<1> QED BY <1>2, <1>3 DEF NullLoop

LEMMA StatementStep ==
    ASSUME IInv, ProgramsOK, Statement
    PROVE  IInv' /\ ProgramsOK'
BY WriteStmtStep, SuspendStmtStep, ResumeStmtStep, SemStmtStep, SCreateStmtStep,
   MsgStmtStep, SleepStmtStep, CreateStmtStep, KillStmtStep, YylexStmtStep,
   CommandStmtStep, HaltStmtStep, NullLoopStep, userretStep
   DEF Statement

-----------------------------------------------------------------------------
(* What comes from outside, and the steps inside the kernel.               *)

LEMMA OutsideStmtStep ==
    ASSUME IInv, ProgramsOK, ClockSignal \/ TypeLine \/ SystemStep \/ Ended
    PROVE  IInv' /\ ProgramsOK'
<1>1. ProgramsOK'
  BY DEF ClockSignal, TypeLine, SystemStep, Ended, sysVars, ProgramsOK
<1>2. CASE ClockSignal
  BY <1>1, <1>2, ClkIntStep DEF ClockSignal, ClockInterrupt
<1>3. CASE TypeLine
  <2>1. /\ Interruptible /\ SignalBody(ISEM) /\ ISEM \in Int
        /\ UNCHANGED <<msgVars, clkVars>>
    BY <1>3, ConstFacts DEF TypeLine, ISEM
  <2> QED BY <1>1, <2>1, SignalAny
<1>4. CASE SystemStep
  BY <1>1, <1>4, KernelStepStep, SleepNextStep, StopClkStoreStep
     DEF SystemStep, UserStep
<1>5. CASE Ended
  BY <1>1, <1>5, StutterStep DEF Ended, Gone
<1> QED BY <1>2, <1>3, <1>4, <1>5

LEMMA kill_XINUStep ==
    ASSUME IInv, ProgramsOK, kill_XINU
    PROVE  IInv' /\ ProgramsOK'
<1>1. /\ named' = named /\ UNCHANGED vars
      /\ Continue(<<Write>> \o halt_system \o code[currpid])
  BY DEF kill_XINU
<1>2. <<Write>> \o halt_system \o code[currpid] \in Seq(Statements)
  <2>1. Write \in Statements /\ halt_system \in Seq(Statements)
    BY StmtTypes, WritesBuilt, ProgramTypes
  <2>2. <<Write>> \in Seq(Statements) /\ code[currpid] \in Seq(Statements)
    BY <2>1 DEF ProgramsOK, IInv, SchedInv, ProcTypeOK
  <2> QED BY <2>1, <2>2, ConcatProperties
<1> QED BY <1>1, <1>2, Continues, StutterStep

-----------------------------------------------------------------------------
(* The boot.  Until nulluser has resumed the first user process, nothing   *)
(* runs but the null process, and all that the clock does is enter and     *)
(* leave clkint.                                                           *)

Created == phase = "resume"
IsemTaken == phase \in {"osem", "create", "resume"}
OsemTaken == phase \in {"create", "resume"}

BootProcs ==
    /\ pstate = [p \in Procs |-> IF p = NULLPROC THEN "PRCURR"
                                 ELSE IF p = FirstUser /\ Created THEN "PRSUSP"
                                 ELSE "PRFREE"]
    /\ pprio = [p \in Procs |-> IF p = FirstUser /\ Created THEN INITPRIO ELSE 0]
    /\ pstklen = [p \in Procs |-> IF p = FirstUser /\ Created THEN INITSTK ELSE 0]
    /\ numproc = IF Created THEN 2 ELSE 1
    /\ nextproc = IF Created THEN NextProcAfter(FirstUser) ELSE FirstUser
    /\ freemem = IF Created THEN MemUnits - (INITSTK + MINSTK) ELSE MemUnits
    /\ Created => named["INIT"] = FirstUser

BootSched ==
    /\ currpid = NULLPROC
    /\ rdyq = <<>> /\ qkey = [p \in Procs |-> 0]
    /\ uctx = [p \in Procs |-> Running]
    /\ ~exited
    /\ \A p \in Procs \ {NULLPROC} : kctx[p] = OutOfKernel
    /\ kctx[NULLPROC] \in {OutOfKernel, InKernel("clkint", 0, 0)}

BootSems ==
    /\ sstate = [s \in Sems |->
                   IF (s = ISEM /\ IsemTaken) \/ (s = OSEM /\ OsemTaken)
                   THEN "SUSED" ELSE "SFREE"]
    /\ semcnt = [s \in Sems |-> IF s = OSEM /\ OsemTaken THEN OBUFLEN ELSE 0]
    /\ semq = [s \in Sems |-> <<>>]
    /\ psem = [p \in Procs |-> 0]
    /\ nextsem = IF OsemTaken THEN NextSemAfter(OSEM)
                 ELSE IF IsemTaken THEN OSEM ELSE ISEM

BootClock == clockq = <<>> /\ slnempty = FALSE /\ defclk = 0 /\ clkdiff = 0

Booting == BootProcs /\ BootSched /\ BootSems /\ MsgInit /\ BootClock

Phases == {"clkinit", "isem", "osem", "create", "resume", "up"}

BootInv == phase \in Phases /\ (phase # "up" => Booting)

SysInv == IInv /\ ProgramsOK /\ BootInv

LEMMA BootConstants ==
    /\ FirstUser \in Procs /\ FirstUser # NULLPROC /\ FirstUser = NPROC - 1
    /\ NextProcAfter(FirstUser) \in Procs
    /\ ISEM \in Sems /\ OSEM \in Sems /\ 0 \in Sems /\ ISEM # OSEM
    /\ ISEM = NSEM - 1 /\ NextSemAfter(ISEM) = OSEM /\ NextSemAfter(OSEM) \in Sems
    /\ OutOfKernel \in [op : KernelOps, arg : Int, n : Int]
    /\ OutOfKernel.op = "none" /\ InKernel("clkint", 0, 0).op = "clkint"
    /\ Running \in [op : UserOps, n : Nat] /\ Running.op = "run"
BY ConstFacts DEF FirstUser, Procs, NULLPROC, NextProcAfter, Sems, ISEM, OSEM,
                  NextSemAfter, OutOfKernel, InKernel, KernelOps, Running, InUser, UserOps

LEMMA SysInitBoots == SysInit => ProgramsOK /\ BootInv
<1> SUFFICES ASSUME SysInit PROVE ProgramsOK /\ BootInv
  OBVIOUS
<1>1. ProgramsOK
  BY EmptySeq DEF SysInit, ProgramsOK, Names
<1>2. phase = "clkinit" /\ ~Created /\ ~IsemTaken /\ ~OsemTaken
  BY DEF SysInit, Created, IsemTaken, OsemTaken
<1>3. BootProcs
  <2>1. pstate = [p \in Procs |-> IF p = NULLPROC THEN "PRCURR"
                                  ELSE IF p = FirstUser /\ Created THEN "PRSUSP"
                                  ELSE "PRFREE"]
    BY <1>2 DEF SysInit
  <2>2. /\ pprio = [p \in Procs |-> IF p = FirstUser /\ Created THEN INITPRIO ELSE 0]
        /\ pstklen = [p \in Procs |-> IF p = FirstUser /\ Created THEN INITSTK ELSE 0]
    BY <1>2 DEF SysInit
  <2>3. numproc = 1 /\ nextproc = FirstUser /\ freemem = MemUnits
    BY DEF SysInit, FirstUser
  <2> QED BY <1>2, <2>1, <2>2, <2>3 DEF BootProcs
<1>4. BootSched
  <2>1. /\ currpid = NULLPROC /\ rdyq = <<>> /\ qkey = [p \in Procs |-> 0]
        /\ uctx = [p \in Procs |-> Running] /\ ~exited
    BY DEF SysInit
  <2>2. \A p \in Procs : kctx[p] = OutOfKernel
    BY DEF SysInit
  <2> QED BY <2>1, <2>2, ConstFacts DEF BootSched
<1>5. BootSems
  BY <1>2 DEF SysInit, BootSems, ISEM
<1>6. BootClock /\ MsgInit
  BY DEF SysInit, BootClock, ClkInit
<1> QED BY <1>1, <1>2, <1>3, <1>4, <1>5, <1>6 DEF BootInv, Booting, Phases

LEMMA SysInitIInv == SysInit => IInv
<1> SUFFICES ASSUME SysInit PROVE IInv
  OBVIOUS
<1>1. /\ NULLPROC \in Procs /\ NPROC - 1 \in Procs /\ 0 \in Sems /\ NSEM - 1 \in Sems
  BY ConstFacts DEF Procs, Sems, NULLPROC
<1>2. /\ pstate \in [Procs -> States]
      /\ pstate[NULLPROC] = "PRCURR"
      /\ \A p \in Procs \ {NULLPROC} : pstate[p] = "PRFREE"
      /\ currpid = NULLPROC
  BY <1>1 DEF SysInit, States
<1>3. Op = "none" /\ \A p \in Procs : kctx[p].op = "none"
  BY <1>1, BootConstants DEF SysInit, Op
<1>4. TabOK
  <2>1. /\ pprio \in [Procs -> 0 .. MAXINT] /\ pstklen \in [Procs -> Nat]
        /\ freemem \in Nat
    BY ConstFacts DEF SysInit
  <2>2. /\ kctx \in [Procs -> [op : KernelOps, arg : Int, n : Int]]
        /\ uctx \in [Procs -> [op : UserOps, n : Nat]]
    BY BootConstants DEF SysInit
  <2>3. numproc = 1 /\ nextproc = NPROC - 1 /\ exited = FALSE
    BY DEF SysInit
  <2>4. numproc \in Int /\ nextproc \in Procs
    BY <1>1, <2>3
  <2>5. exited \in BOOLEAN
    BY <2>3, Zenon
  <2> QED BY <2>1, <2>2, <2>4, <2>5 DEF TabOK
<1>5. SchedOKNow
  <2>1. ReadyIn(pstate) = {} /\ CurrentIn(pstate) = {currpid}
    BY <1>1, <1>2 DEF ReadyIn, CurrentIn
  <2>2. rdyq \in Seq(Procs) /\ Holds(rdyq, {})
    BY EmptyQueue DEF SysInit
  <2>3. qkey \in [Procs -> Int] /\ preempt \in -1 .. QUANTUM
    BY ConstFacts DEF SysInit
  <2> QED BY <1>1, <1>2, <2>1, <2>2, <2>3 DEF SchedOKNow, SchedOK, Runnable
<1>6. SchedInv
  BY <1>1, <1>3, <1>4, <1>5, SchedInvParts
     DEF NullOnlyRuns, SwitchedOutCleanly, OutOfKernelAtExit, Resumable, SysInit
<1>7. InState("PRWAIT") = {} /\ InState("PRSLEEP") = {}
  BY <1>2 DEF InState
<1>8. SemInv
  <2>1. SemTypeOK
    BY <1>1, EmptyQueue, ConstFacts DEF SysInit, SemTypeOK
  <2>2. SemQueuesAgree
    BY <1>7, EmptyQueue DEF SysInit, SemQueuesAgree, WaitingOn
  <2>3. SemaphoreCountOwesQueue
    <3>1. \A s \in Sems : semq[s] = <<>> /\ semcnt[s] >= 0
      BY DEF SysInit
    <3> QED BY <3>1, EmptyQueue, <2>1 DEF SemaphoreCountOwesQueue, SemTypeOK
  <2> QED BY <1>3, <2>1, <2>2, <2>3 DEF SemInv, SemSection
<1>9. MsgTypeOK
  BY DEF SysInit, MsgInit, MsgTypeOK
<1>10. ClkInv
  <2> HIDE DEF SysInit
  <2>1. ClkInit
    BY DEF SysInit
  <2>2. ClkTypeOK
    <3>1. clockq \in Seq(Procs)
      BY <2>1, EmptyQueue DEF ClkInit
    <3>2. /\ count6 = TICKS /\ defclk = 0 /\ clkdiff = 0
          /\ slnempty = FALSE /\ sltop \in Procs \cup {NoEntry}
      BY <2>1 DEF ClkInit
    <3>3. count6 \in 1 .. TICKS /\ defclk \in Nat /\ clkdiff \in 0 .. MaxDiff
      BY <3>2, ConstFacts
    <3>4. slnempty \in BOOLEAN
      BY <3>2, Zenon
    <3> QED BY <3>1, <3>2, <3>3, <3>4 DEF ClkTypeOK
  <2>3. SleepQueueAgrees
    BY <1>7, <2>1, EmptyQueue DEF ClkInit, SleepQueueAgrees
  <2>4. SleepTopAgrees
    BY <2>1 DEF ClkInit, SleepTopAgrees
  <2> QED BY <1>3, <1>7, <2>2, <2>3, <2>4
          DEF ClkInv, SleepKeysNotNegative, ClkSection
<1> QED BY <1>6, <1>8, <1>9, <1>10 DEF IInv

LEMMA SmallModulus ==
    ASSUME NEW N \in Nat, N > 0, NEW a \in 0 .. N - 1
    PROVE  a % N = a
OBVIOUS

(* What is so at every point of the boot.                                  *)
LEMMA BootFacts ==
    ASSUME SysInv, phase # "up"
    PROVE  /\ Booting /\ TabOK /\ SchedOKNow
           /\ currpid = NULLPROC /\ currpid \in Procs
           /\ pstate[NULLPROC] = "PRCURR"
           /\ kctx[NULLPROC] = OutOfKernel \/ kctx[NULLPROC] = InKernel("clkint", 0, 0)
           /\ exited = FALSE
           /\ Op \in {"none", "clkint"}
           /\ \A p \in Procs : kctx[p].op \in {"none", "clkint"}
           /\ \A p \in Procs : uctx[p] = Running
<1>1. Booting /\ TabOK /\ SchedOKNow
  BY SchedInvParts DEF SysInv, BootInv, IInv
<1>2. currpid = NULLPROC /\ currpid \in Procs
  BY <1>1, ConstFacts DEF Booting, BootSched
<1>3. pstate[NULLPROC] = "PRCURR"
  BY <1>1, ConstFacts DEF Booting, BootProcs
<1>4. kctx[NULLPROC] = OutOfKernel \/ kctx[NULLPROC] = InKernel("clkint", 0, 0)
  BY <1>1 DEF Booting, BootSched
<1>5. exited = FALSE
  BY <1>1 DEF Booting, BootSched, TabOK
<1>6. \A p \in Procs : kctx[p].op \in {"none", "clkint"}
  BY <1>1, <1>4, BootConstants DEF Booting, BootSched
<1>7. Op \in {"none", "clkint"}
  BY <1>2, <1>6 DEF Op
<1>8. \A p \in Procs : uctx[p] = Running
  BY <1>1 DEF Booting, BootSched
<1> QED BY <1>1, <1>2, <1>3, <1>4, <1>5, <1>6, <1>7, <1>8

LEMMA clkinitStep ==
    ASSUME SysInv, clkinit
    PROVE  SysInv'
<1> USE DEF clkinit
<1>1. /\ phase = "clkinit" /\ phase' = "isem" /\ preempt' = QUANTUM
      /\ UNCHANGED tabVars
      /\ pstate' = pstate /\ rdyq' = rdyq /\ qkey' = qkey /\ currpid' = currpid
      /\ kctx' = kctx /\ uctx' = uctx
      /\ UNCHANGED <<semVars, msgVars, clkVars>> /\ code' = code /\ named' = named
  OBVIOUS
<1> HIDE DEF clkinit
<1>2. phase # "up"
  BY <1>1
<1>3. IInv'
  <2>1. SchedOKNext
    BY <1>1, <1>2, BootFacts, ConstFacts DEF SchedOKNow, SchedOKNext, SchedOK
  <2>2. TabOK'
    BY <1>1, <1>2, BootFacts, TabKept DEF TabOK
  <2>3. NullOnlyRuns' /\ MsgTypeOK'
    BY <1>1, NullKept, MsgFrame DEF SysInv
  <2>4. exited' = FALSE /\ \A p \in Procs : kctx'[p].op \in Resumable
    BY <1>1, <1>2, BootFacts DEF tabVars, Resumable
  <2>5. SemKept /\ ClkKept
    BY <1>1 DEF SemKept, ClkKept
  <2>6. Op \notin SemDrains \cup ClkDrains
    BY <1>2, BootFacts DEF SemDrains, ClkDrains
  <2> QED BY <1>1, <2>1, <2>2, <2>3, <2>4, <2>5, <2>6, PlainStep DEF SysInv
<1>4. ProgramsOK'
  BY <1>1 DEF SysInv, ProgramsOK
<1>5. /\ ~Created /\ ~IsemTaken /\ ~OsemTaken
      /\ ~Created' /\ ~IsemTaken' /\ ~OsemTaken'
  BY <1>1 DEF Created, IsemTaken, OsemTaken
<1>6. Booting
  BY <1>2, BootFacts
<1>7. BootProcs' /\ BootSched'
  BY <1>1, <1>5, <1>6 DEF Booting, BootProcs, BootSched, tabVars
<1>8. BootSems' /\ MsgInit' /\ BootClock'
  BY <1>1, <1>5, <1>6 DEF Booting, BootSems, MsgInit, BootClock, semVars, msgVars, clkVars
<1> QED BY <1>1, <1>3, <1>4, <1>7, <1>8 DEF SysInv, BootInv, Booting, Phases

(* The clock during the boot.                                              *)
LEMMA BootTick ==
    ASSUME SysInv, phase # "up", ClockSignal
    PROVE  SysInv'
<1>1. /\ ClkInt /\ phase' = phase /\ code' = code /\ named' = named
      /\ UNCHANGED <<semVars, msgVars>>
  BY DEF ClockSignal, ClockInterrupt
<1>2. IInv' /\ ProgramsOK'
  BY OutsideStmtStep DEF SysInv
<1>3. /\ Booting /\ BootClock /\ currpid = NULLPROC
  BY BootFacts DEF Booting
<1>4. /\ UNCHANGED <<tabVars, pstate, rdyq, currpid, preempt, uctx>>
      /\ UNCHANGED <<clockq, slnempty, defclk>>
      /\ qkey' = qkey /\ clkdiff' = clkdiff
      /\ kctx' = kctx \/ Enter("clkint", 0, 0)
  BY <1>1, <1>3 DEF ClkInt, BootClock
<1>5. BootProcs'
  BY <1>1, <1>3, <1>4 DEF Booting, BootProcs, Created, tabVars
<1>6. BootSems' /\ MsgInit' /\ BootClock'
  BY <1>1, <1>3, <1>4 DEF Booting, BootSems, MsgInit, BootClock, IsemTaken, OsemTaken,
                          semVars, msgVars
<1>7. /\ \A p \in Procs \ {NULLPROC} : kctx'[p] = OutOfKernel
      /\ kctx'[NULLPROC] \in {OutOfKernel, InKernel("clkint", 0, 0)}
  BY <1>3, <1>4, BootFacts, ConstFacts DEF Booting, BootSched, Enter, TabOK
<1>8. BootSched'
  BY <1>3, <1>4, <1>7 DEF Booting, BootSched, tabVars
<1> QED BY <1>1, <1>2, <1>5, <1>6, <1>8, Zenon DEF SysInv, BootInv, Booting

LEMMA QueueOfNone ==
    ASSUME NEW S, NEW q \in Seq(S), Holds(q, {})
    PROVE  q = <<>>
<1>1. Len(q) \in Nat /\ DOMAIN q = 1 .. Len(q)
  BY LenProperties
<1>2. \A i \in 1 .. Len(q) : q[i] \in {}
  BY <1>1 DEF Holds, ToSet
<1>3. Len(q) = 0
  BY <1>1, <1>2
<1> QED BY <1>3, EmptySeq

LEMMA QueueOfOne ==
    ASSUME NEW S, NEW e \in S, NEW q \in Seq(S), Holds(q, {e})
    PROVE  q = <<e>>
<1>1. Len(q) \in Nat /\ DOMAIN q = 1 .. Len(q)
  BY LenProperties
<1>2. \A i \in 1 .. Len(q) : q[i] = e
  BY <1>1 DEF Holds, ToSet
<1>3. Len(q) # 0
  BY <1>1 DEF Holds, ToSet
<1>4. \A i, j \in 1 .. Len(q) : i = j
  BY <1>1, <1>2 DEF Holds, IsInjective
<1>5. Len(q) = 1
  BY <1>1, <1>3, <1>4
<1>6. <<e>> \in Seq(S) /\ Len(<<e>>) = 1 /\ <<e>>[1] = e
  OBVIOUS
<1> QED BY <1>2, <1>5, <1>6, SeqEqual

LEMMA FirstOnReadyList ==
    ASSUME NEW p \in Procs, NEW key \in Int, NEW k \in [Procs -> Int]
    PROVE  Insert(<<>>, p, key, k) = <<p>>
<1> DEFINE none == {}
           r == Insert(<<>>, p, key, k)
<1>1. <<>> \in Seq(Procs) /\ Holds(<<>>, none) /\ p \notin none
  BY EmptyQueue
<1> HIDE DEF none
<1>2. r \in Seq(Procs) /\ Holds(r, none \cup {p})
  BY <1>1, InsertHolds
<1>3. none \cup {p} = {p}
  BY DEF none
<1> HIDE DEF r
<1>4. Holds(r, {p})
  BY <1>2, <1>3
<1>5. r = <<p>>
  BY <1>2, <1>4, QueueOfOne
<1> QED BY <1>5 DEF r

LEMMA OnlyOneReady ==
    ASSUME NEW p \in Procs
    PROVE  Last(<<p>>) = p /\ Front(<<p>>) = <<>>
<1> DEFINE q == <<p>>
           one == {p}
<1>1. q \in Seq(Procs) /\ Holds(q, one) /\ one # {}
  BY OneInQueue
<1> HIDE DEF q, one
<1>2. /\ Last(q) \in one /\ Front(q) \in Seq(Procs)
      /\ Holds(Front(q), one \ {Last(q)})
  BY <1>1, LastFrontHolds
<1>3. Last(q) = p /\ one \ {Last(q)} = {}
  BY <1>2 DEF one
<1>4. Front(q) = <<>>
  BY <1>2, <1>3, QueueOfNone
<1> QED BY <1>3, <1>4 DEF q

(* resched, called when nothing is ready but the null process: MININT is   *)
(* not below its priority, so it goes to the ready list and comes back.    *)
LEMMA NullKeepsProcessor ==
    ASSUME SysInv, phase # "up", NEW left,
           Resched(pstate, rdyq, qkey, pprio, left)
    PROVE  UNCHANGED <<pstate, rdyq, qkey, currpid>>
<1>1. /\ currpid = NULLPROC /\ NULLPROC \in Procs
      /\ pstate[NULLPROC] = "PRCURR" /\ pprio[NULLPROC] = 0
      /\ rdyq = <<>> /\ qkey = [p \in Procs |-> 0]
      /\ pstate \in [Procs -> States] /\ qkey \in [Procs -> Int]
  <2>1. Booting /\ TabOK /\ SchedOKNow /\ currpid = NULLPROC /\ pstate[NULLPROC] = "PRCURR"
    BY BootFacts
  <2>2. pprio[NULLPROC] = 0
    BY <2>1, BootConstants, ConstFacts DEF Booting, BootProcs
  <2> QED BY <2>1, <2>2, ConstFacts DEF Booting, BootSched, SchedOKNow, SchedOK
<1>2. ~KeepsCpu(pstate, rdyq, qkey, pprio)
  BY <1>1 DEF KeepsCpu, LastKey, MININT
<1>3. SwitchToLast([pstate EXCEPT ![currpid] = "PRREADY"],
                   Insert(rdyq, currpid, pprio[currpid], qkey),
                   [qkey EXCEPT ![currpid] = pprio[currpid]])
  BY <1>1, <1>2 DEF Resched
<1>4. Insert(rdyq, currpid, pprio[currpid], qkey) = <<NULLPROC>>
  BY <1>1, FirstOnReadyList
<1>5. /\ currpid' = NULLPROC /\ rdyq' = <<>>
      /\ pstate' = [[pstate EXCEPT ![NULLPROC] = "PRREADY"] EXCEPT ![NULLPROC] = "PRCURR"]
      /\ qkey' = [qkey EXCEPT ![NULLPROC] = 0]
  BY <1>1, <1>3, <1>4, OnlyOneReady DEF SwitchToLast
<1>6. pstate' = pstate /\ qkey' = qkey
  BY <1>1, <1>5
<1> QED BY <1>1, <1>5, <1>6

LEMMA BootTickEnd ==
    ASSUME SysInv, phase # "up", SystemStep
    PROVE  SysInv'
<1>1. IInv' /\ ProgramsOK'
  BY OutsideStmtStep DEF SysInv
<1>2. /\ Booting /\ currpid = NULLPROC /\ currpid \in Procs
      /\ Op \in {"none", "clkint"} /\ uctx[currpid] = Running
      /\ phase' = phase /\ code' = code /\ named' = named
  BY BootFacts DEF SystemStep, sysVars
<1>3. ClkIntEnd /\ UNCHANGED <<semVars, msgVars>>
  <2>1. ~UserStep
    BY <1>2, BootConstants DEF UserStep, SleepNext, StopClkStore
  <2>2. ~SemKernelStep
    BY <1>2 DEF SemKernelStep, ReleaseWaiter, SDeleteEnd, SResetEnd, SignalNStep,
                SignalNEnd, At
  <2>3. ~ReceiveEnd
    BY <1>2 DEF ReceiveEnd, At
  <2>4. ClkKernelStep => ClkIntEnd
    BY <1>2 DEF ClkKernelStep, InsertdWalk, InsertdEnd, WakeupFirst, WakeupEnd,
                StrtClkWalk, StrtClkWalkDone, StrtClkEnd, At
  <2> QED BY <2>1, <2>2, <2>3, <2>4 DEF SystemStep, KernelStep
<1>4. UNCHANGED <<pstate, rdyq, qkey, currpid>>
  BY <1>3, NullKeepsProcessor DEF ClkIntEnd
<1>5. UNCHANGED <<tabVars, uctx, clkVars>> /\ Leave
  BY <1>3 DEF ClkIntEnd
<1>6. \A p \in Procs : kctx'[p] = OutOfKernel
  BY <1>2, <1>5, BootFacts DEF Booting, BootSched, Leave, TabOK
<1>7. BootProcs'
  BY <1>2, <1>4, <1>5 DEF Booting, BootProcs, Created, tabVars
<1>8. BootSems' /\ MsgInit' /\ BootClock'
  BY <1>2, <1>3, <1>5 DEF Booting, BootSems, MsgInit, BootClock, IsemTaken, OsemTaken,
                          semVars, msgVars, clkVars
<1>9. BootSched'
  BY <1>2, <1>4, <1>5, <1>6, ConstFacts DEF Booting, BootSched, tabVars
<1> QED BY <1>1, <1>2, <1>7, <1>8, <1>9, Zenon DEF SysInv, BootInv, Booting

LEMMA NoDistance ==
    ASSUME NEW N \in Nat, NEW a \in 0 .. N - 1, NEW b \in 0 .. N - 1
    PROVE  (a - a) % N = 0 /\ ((a - b) % N <= 0 => a = b)
<1>1. CASE a >= b
  <2>1. a - b \in 0 .. N - 1 /\ a - a \in 0 .. N - 1 /\ N > 0
    BY <1>1
  <2> QED BY <1>1, <2>1, SmallModulus
<1>2. CASE a < b
  <2>1. (a - a) % N = 0
    BY <1>2, SmallModulus
  <2>2. (a - b) % N > 0
    BY <1>2
  <2> QED BY <2>1, <2>2
<1> QED BY <1>1, <1>2

(* newsem and newpid take the first entry they look at when it is free.    *)
LEMMA FirstSemLookedAt ==
    ASSUME nextsem \in Sems, sstate[nextsem] = "SFREE", NEW s \in Sems, IsNewSem(s)
    PROVE  s = nextsem
<1>1. SemDistance(s) <= SemDistance(nextsem)
  BY DEF IsNewSem
<1>2. NSEM \in Nat /\ nextsem \in 0 .. NSEM - 1 /\ s \in 0 .. NSEM - 1
  BY ConstFacts DEF Sems
<1> QED BY <1>1, <1>2, NoDistance DEF SemDistance

LEMMA FirstPidLookedAt ==
    ASSUME nextproc \in Procs, pstate[nextproc] = "PRFREE", NEW p \in Procs, IsNewPid(p)
    PROVE  p = nextproc
<1>1. Distance(p) <= Distance(nextproc)
  BY DEF IsNewPid
<1>2. NPROC \in Nat /\ nextproc \in 0 .. NPROC - 1 /\ p \in 0 .. NPROC - 1
  BY ConstFacts DEF Procs
<1> QED BY <1>1, <1>2, NoDistance DEF Distance

(* One screate of ttyinit takes the semaphore that newsem looks at.        *)
LEMMA BootSCreate ==
    ASSUME SysInv, phase # "up", NEW count \in Nat, sstate[nextsem] = "SFREE",
           SCreateBody(count)
    PROVE  /\ sstate' = [sstate EXCEPT ![nextsem] = "SUSED"]
           /\ semcnt' = [semcnt EXCEPT ![nextsem] = count]
           /\ nextsem' = NextSemAfter(nextsem)
           /\ UNCHANGED <<procVars, semq, psem>>
<1>1. nextsem \in Sems
  BY DEF SysInv, IInv, SemInv, SemTypeOK
<1>2. ~(count < 0 \/ \A s \in Sems : sstate[s] = "SUSED")
  BY <1>1
<1>3. PICK s \in Sems : /\ IsNewSem(s)
                        /\ sstate' = [sstate EXCEPT ![s] = "SUSED"]
                        /\ semcnt' = [semcnt EXCEPT ![s] = count]
                        /\ nextsem' = NextSemAfter(s)
  BY <1>2 DEF SCreateBody
<1>4. s = nextsem
  BY <1>1, <1>3, FirstSemLookedAt
<1>5. UNCHANGED <<procVars, semq, psem>>
  BY <1>2 DEF SCreateBody
<1> QED BY <1>3, <1>4, <1>5

LEMMA ttyinitStep ==
    ASSUME SysInv, ttyinit
    PROVE  SysInv'
<1>1. /\ Interruptible /\ UNCHANGED <<msgVars, clkVars>>
      /\ code' = code /\ named' = named
      /\ \/ phase = "isem" /\ phase' = "osem" /\ SCreateBody(0)
         \/ phase = "osem" /\ phase' = "create" /\ SCreateBody(OBUFLEN)
  BY DEF ttyinit
<1>2. phase # "up" /\ Booting
  BY <1>1, BootFacts
<1>3. IInv'
  <2>1. 0 \in Int /\ 0 <= MaxCount /\ OBUFLEN \in Int /\ OBUFLEN <= MaxCount
    BY ConstFacts
  <2> QED BY <1>1, <2>1, SCreateBodyStep DEF SysInv
<1>4. ProgramsOK'
  BY <1>1 DEF SysInv, ProgramsOK
<1>5. BootSems' /\ UNCHANGED procVars
  <2>1. CASE phase = "isem" /\ phase' = "osem" /\ SCreateBody(0)
    <3>1. /\ ~IsemTaken /\ ~OsemTaken /\ IsemTaken' /\ ~OsemTaken'
      BY <2>1 DEF IsemTaken, OsemTaken
    <3>2. /\ nextsem = ISEM /\ sstate[ISEM] = "SFREE"
          /\ sstate = [s \in Sems |-> "SFREE"] /\ semcnt = [s \in Sems |-> 0]
          /\ semq = [s \in Sems |-> <<>>] /\ psem = [p \in Procs |-> 0]
      BY <1>2, <3>1, BootConstants DEF Booting, BootSems
    <3>3. /\ sstate' = [sstate EXCEPT ![ISEM] = "SUSED"]
          /\ semcnt' = [semcnt EXCEPT ![ISEM] = 0]
          /\ nextsem' = OSEM
          /\ UNCHANGED <<procVars, semq, psem>>
      BY <1>2, <2>1, <3>2, BootSCreate, BootConstants
    <3> QED BY <3>1, <3>2, <3>3, BootConstants DEF BootSems
  <2>2. CASE phase = "osem" /\ phase' = "create" /\ SCreateBody(OBUFLEN)
    <3>1. /\ IsemTaken /\ ~OsemTaken /\ IsemTaken' /\ OsemTaken'
      BY <2>2 DEF IsemTaken, OsemTaken
    <3>2. /\ nextsem = OSEM /\ sstate[OSEM] = "SFREE"
          /\ sstate = [s \in Sems |-> IF s = ISEM THEN "SUSED" ELSE "SFREE"]
          /\ semcnt = [s \in Sems |-> 0]
          /\ semq = [s \in Sems |-> <<>>] /\ psem = [p \in Procs |-> 0]
      BY <1>2, <3>1, BootConstants DEF Booting, BootSems
    <3>3. /\ sstate' = [sstate EXCEPT ![OSEM] = "SUSED"]
          /\ semcnt' = [semcnt EXCEPT ![OSEM] = OBUFLEN]
          /\ nextsem' = NextSemAfter(OSEM)
          /\ UNCHANGED <<procVars, semq, psem>>
      BY <1>2, <2>2, <3>2, BootSCreate, ConstFacts
    <3> QED BY <3>1, <3>2, <3>3, BootConstants DEF BootSems
  <2> QED BY <1>1, <2>1, <2>2
<1>6. ~Created /\ ~Created'
  BY <1>1 DEF Created
<1>7. BootProcs' /\ BootSched'
  BY <1>1, <1>2, <1>5, <1>6 DEF Booting, BootProcs, BootSched, procVars
<1>8. MsgInit' /\ BootClock'
  BY <1>1, <1>2 DEF Booting, MsgInit, BootClock, msgVars, clkVars
<1>9. phase' \in Phases
  BY <1>1 DEF Phases
<1> QED BY <1>3, <1>4, <1>5, <1>7, <1>8, <1>9 DEF SysInv, BootInv, Booting

LEMMA nulluserCreateStep ==
    ASSUME SysInv, nulluserCreate
    PROVE  SysInv'
<1>1. /\ Interruptible /\ phase = "create" /\ phase' = "resume"
  BY DEF nulluserCreate
<1>2. phase # "up" /\ Booting /\ TabOK /\ SchedOKNow
  BY <1>1, BootFacts
<1>3. ~Created /\ Created' /\ IsemTaken /\ IsemTaken' /\ OsemTaken /\ OsemTaken'
  BY <1>1 DEF Created, IsemTaken, OsemTaken
<1>4. PICK pid \in Procs : /\ NewProcess(pid, INITSTK, INITPRIO)
                           /\ code' = [code EXCEPT ![pid] = initial_process]
                           /\ named' = [named EXCEPT !["INIT"] = pid]
  BY DEF nulluserCreate
<1>5. pid = FirstUser
  <2>1. nextproc = FirstUser /\ pstate[FirstUser] = "PRFREE"
    BY <1>2, <1>3, BootConstants DEF Booting, BootProcs
  <2> QED BY <1>4, <2>1, BootConstants, FirstPidLookedAt DEF NewProcess
<1>6. IInv'
  <2>1. INITSTK \in Nat /\ INITPRIO \in 1 .. MAXINT /\ freemem >= INITSTK + MINSTK
    BY <1>2, <1>3, ConstFacts DEF Booting, BootProcs
  <2> QED BY <1>1, <1>4, <2>1, NewProcessStep DEF SysInv
<1>7. ProgramsOK'
  <2>1. initial_process \in Seq(Statements) /\ pid \in Int
    BY ProgramTypes, ArgumentTypes
  <2> QED BY <1>4, <2>1 DEF SysInv, ProgramsOK
<1>8. BootProcs'
  <2> USE <1>2, <1>3, <1>4, <1>5, BootConstants DEF Booting, BootProcs, NewProcess
  <2>1. /\ nextproc' = NextProcAfter(FirstUser) /\ numproc' = 2
        /\ freemem' = MemUnits - (INITSTK + MINSTK)
    OBVIOUS
  <2>2. named'["INIT"] = FirstUser
    BY DEF SysInv, ProgramsOK, Names
  <2>3. pstate' = [p \in Procs |-> IF p = NULLPROC THEN "PRCURR"
                                   ELSE IF p = FirstUser THEN "PRSUSP" ELSE "PRFREE"]
    OBVIOUS
  <2>4. /\ pprio' = [p \in Procs |-> IF p = FirstUser THEN INITPRIO ELSE 0]
        /\ pstklen' = [p \in Procs |-> IF p = FirstUser THEN INITSTK ELSE 0]
    OBVIOUS
  <2> QED BY <2>1, <2>2, <2>3, <2>4
<1>9. BootSched'
  BY <1>2, <1>4, <1>5, BootConstants DEF Booting, BootSched, NewProcess, TabOK
<1>10. BootSems'
  BY <1>2, <1>3, <1>4 DEF Booting, BootSems, NewProcess
<1>11. MsgInit' /\ BootClock'
  BY <1>2, <1>4 DEF Booting, MsgInit, BootClock, NewProcess, clkVars
<1> QED BY <1>1, <1>6, <1>7, <1>8, <1>9, <1>10, <1>11 DEF SysInv, BootInv, Booting, Phases

(* The null process goes to the ready list behind a process of higher      *)
(* priority, which is then the last one.                                   *)
LEMMA NullGoesBehind ==
    ASSUME NEW k \in [Procs -> Int], k[FirstUser] >= 0
    PROVE  LET rq == Insert(<<FirstUser>>, NULLPROC, 0, k)
           IN  Last(rq) = FirstUser /\ Front(rq) = <<NULLPROC>>
<1> DEFINE q == <<FirstUser>>
           one == {FirstUser}
           i == Min(KeyPlaces(q, 0, k))
           rq == Insert(q, NULLPROC, 0, k)
<1>1. /\ q \in Seq(Procs) /\ Len(q) = 1 /\ q[1] = FirstUser /\ Holds(q, one)
      /\ NULLPROC \in Procs /\ NULLPROC \notin one
  BY OneInQueue, BootConstants, ConstFacts
<1> HIDE DEF q, one
<1>2. /\ i \in 1 .. Len(q) + 1
      /\ \A j \in 1 .. Len(q) : j < i => k[q[j]] < 0
  <2>1. q \in Seq(Procs) /\ 0 \in Int /\ k \in [Procs -> Int]
    BY <1>1
  <2> QED BY <2>1, InsertPlace
<1>3. i = 1
  BY <1>1, <1>2, BootConstants
<1>4. rq = InsertAt(q, 1, NULLPROC)
  BY <1>3 DEF Insert
<1>5. rq \in Seq(Procs) /\ Len(rq) = 2 /\ rq[2] = FirstUser
  <2>1. 1 \in 1 .. Len(q) + 1 /\ 2 \in 1 .. Len(q) + 1 /\ 2 - 1 = 1
    BY <1>1
  <2>2. /\ InsertAt(q, 1, NULLPROC) \in Seq(Procs)
        /\ Len(InsertAt(q, 1, NULLPROC)) = Len(q) + 1
        /\ \A j \in 1 .. Len(q) + 1 : InsertAt(q, 1, NULLPROC)[j] =
               IF j < 1 THEN q[j] ELSE IF j = 1 THEN NULLPROC ELSE q[j - 1]
    <3>1. q \in Seq(Procs) /\ NULLPROC \in Procs
      BY <1>1
    <3>2. 1 \in 1 .. Len(q) + 1
      BY <2>1
    <3> QED BY <3>1, <3>2, InsertAtShape
  <2>3. InsertAt(q, 1, NULLPROC)[2] = q[2 - 1]
    BY <2>1, <2>2
  <2> HIDE DEF rq
  <2> QED BY <1>1, <1>4, <2>1, <2>2, <2>3
<1>6. Holds(rq, one \cup {NULLPROC})
  BY <1>1, InsertHolds
<1> HIDE DEF rq
<1>7. Last(rq) = FirstUser
  BY <1>5 DEF Last
<1>8. Front(rq) \in Seq(Procs) /\ Holds(Front(rq), (one \cup {NULLPROC}) \ {FirstUser})
  BY <1>5, <1>6, <1>7, LastFrontHolds
<1>9. (one \cup {NULLPROC}) \ {FirstUser} = {NULLPROC}
  BY <1>1 DEF one
<1>10. Front(rq) = <<NULLPROC>>
  BY <1>1, <1>8, <1>9, QueueOfOne
<1> QED BY <1>7, <1>10 DEF rq, q

Built ==
    /\ ProcInit /\ SemInit /\ MsgInit
    /\ clockq = <<>> /\ ~slnempty /\ defclk = 0 /\ clkdiff = 0

LEMMA nulluserResumeStep ==
    ASSUME SysInv, nulluserResume
    PROVE  SysInv' /\ Built'
<1>1. /\ Interruptible /\ phase = "resume" /\ phase' = "up"
      /\ Ready(named["INIT"])
      /\ UNCHANGED <<tabVars, kctx, uctx, semVars, msgVars, clkVars>>
      /\ code' = code /\ named' = named
  BY DEF nulluserResume
<1>2. phase # "up" /\ Booting /\ TabOK /\ SchedOKNow /\ currpid = NULLPROC
  BY <1>1, BootFacts
<1>3. Created /\ IsemTaken /\ OsemTaken
  BY <1>1 DEF Created, IsemTaken, OsemTaken
<1>4. /\ named["INIT"] = FirstUser
      /\ pstate = [p \in Procs |-> IF p = NULLPROC THEN "PRCURR"
                                   ELSE IF p = FirstUser THEN "PRSUSP" ELSE "PRFREE"]
      /\ pprio = [p \in Procs |-> IF p = FirstUser THEN INITPRIO ELSE 0]
      /\ pstklen = [p \in Procs |-> IF p = FirstUser THEN INITSTK ELSE 0]
      /\ numproc = 2 /\ nextproc = NextProcAfter(FirstUser)
      /\ freemem = MemUnits - (INITSTK + MINSTK)
  BY <1>2, <1>3 DEF Booting, BootProcs
<1>5. /\ rdyq = <<>> /\ qkey = [p \in Procs |-> 0]
      /\ uctx = [p \in Procs |-> Running] /\ ~exited
  BY <1>2 DEF Booting, BootSched
<1>6. kctx = [p \in Procs |-> OutOfKernel]
  <2>1. \A p \in Procs : kctx[p] = OutOfKernel
    BY <1>1, <1>2, BootFacts, BootConstants
       DEF Booting, BootSched, Interruptible, Op
  <2> QED BY <1>2, <2>1 DEF TabOK
<1>7. SysInv'
  <2>1. pstate[FirstUser] = "PRSUSP"
    BY <1>4, BootConstants
  <2>2. IInv'
    BY <1>1, <1>4, <2>1, BootConstants, ReadySuspended DEF SysInv
  <2> QED BY <1>1, <2>2 DEF SysInv, ProgramsOK, BootInv, Phases
<1>8. /\ pstate' = [p \in Procs |-> IF p = NULLPROC THEN "PRREADY"
                                    ELSE IF p = FirstUser THEN "PRCURR" ELSE "PRFREE"]
      /\ rdyq' = <<NULLPROC>> /\ currpid' = FirstUser /\ preempt' = QUANTUM
      /\ qkey' = [p \in Procs |-> IF p = FirstUser THEN INITPRIO ELSE 0]
  <2> DEFINE ps == [pstate EXCEPT ![FirstUser] = "PRREADY"]
             rq == <<FirstUser>>
             k  == [qkey EXCEPT ![FirstUser] = INITPRIO]
             ps2 == [ps EXCEPT ![NULLPROC] = "PRREADY"]
             rq2 == Insert(rq, NULLPROC, 0, k)
             k2 == [k EXCEPT ![NULLPROC] = 0]
  <2>1. /\ pprio[FirstUser] = INITPRIO /\ pprio[NULLPROC] = 0
        /\ INITPRIO \in Int /\ INITPRIO > 0 /\ qkey \in [Procs -> Int]
    BY <1>4, <1>5, BootConstants, ConstFacts
  <2>2. Insert(rdyq, FirstUser, pprio[FirstUser], qkey) = rq
    BY <1>5, <2>1, FirstOnReadyList, BootConstants
  <2>3. Resched(ps, rq, k, pprio, preempt)
    BY <1>1, <1>4, <2>1, <2>2 DEF Ready
  <2>4. k[FirstUser] = INITPRIO /\ k \in [Procs -> Int] /\ ps[NULLPROC] = "PRCURR"
    BY <1>4, <2>1, BootConstants, ConstFacts
  <2>5. LastKey(rq, k) = INITPRIO
    BY <2>4, OnlyOneReady, BootConstants DEF LastKey
  <2>6. ~KeepsCpu(ps, rq, k, pprio)
    BY <1>2, <2>1, <2>5 DEF KeepsCpu
  <2>7. SwitchToLast(ps2, rq2, k2)
    BY <1>2, <2>1, <2>3, <2>4, <2>6 DEF Resched
  <2>8. Last(rq2) = FirstUser /\ Front(rq2) = <<NULLPROC>>
    <3>1. k[FirstUser] >= 0 /\ k \in [Procs -> Int]
      BY <2>1, <2>4
    <3> HIDE DEF k
    <3> QED BY <3>1, NullGoesBehind
  <2> HIDE DEF rq2
  <2>9. /\ currpid' = FirstUser /\ rdyq' = <<NULLPROC>> /\ preempt' = QUANTUM
        /\ pstate' = [ps2 EXCEPT ![FirstUser] = "PRCURR"] /\ qkey' = k2
    BY <2>7, <2>8 DEF SwitchToLast
  <2>10. pstate' = [p \in Procs |-> IF p = NULLPROC THEN "PRREADY"
                                    ELSE IF p = FirstUser THEN "PRCURR" ELSE "PRFREE"]
    BY <1>4, <2>9, BootConstants
  <2>11. qkey' = [p \in Procs |-> IF p = FirstUser THEN INITPRIO ELSE 0]
    BY <1>5, <2>9, BootConstants
  <2> QED BY <2>9, <2>10, <2>11
<1>9. ProcInit'
  <2>1. pstate' = [p \in Procs |-> CASE p = NULLPROC  -> "PRREADY"
                                     [] p = FirstUser -> "PRCURR"
                                     [] OTHER         -> "PRFREE"]
    BY <1>8, BootConstants
  <2>2. UNCHANGED <<pprio, pstklen, numproc, nextproc, freemem, kctx, uctx, exited>>
    BY <1>1 DEF tabVars
  <2>3. exited' = FALSE
    BY <1>2, <1>5, <2>2 DEF TabOK
  <2> QED BY <1>4, <1>5, <1>6, <1>8, <2>1, <2>2, <2>3 DEF ProcInit
<1>10. SemInit'
  BY <1>1, <1>2, <1>3, BootConstants
     DEF Booting, BootSems, SemInit, TtySems, semVars
<1>11. MsgInit' /\ (clockq = <<>> /\ ~slnempty /\ defclk = 0 /\ clkdiff = 0)'
  BY <1>1, <1>2 DEF Booting, BootClock, MsgInit, msgVars, clkVars
<1> QED BY <1>7, <1>9, <1>10, <1>11 DEF Built

-----------------------------------------------------------------------------
(* The invariant.                                                          *)

LEMMA StatementIsUp ==
    ASSUME Statement \/ TypeLine \/ kill_XINU
    PROVE  phase = "up" /\ phase' = "up"
BY DEF Statement, WriteStmt, SuspendStmt, ResumeStmt, SemStmt, SCreateStmt, MsgStmt,
       SleepStmt, CreateStmt, KillStmt, YylexStmt, CommandStmt, HaltStmt, NullLoop,
       userret, TypeLine, kill_XINU, Reaches, restVars

LEMMA SysInvKept ==
    ASSUME SysInv, [SystemNext]_allVars
    PROVE  SysInv' /\ (phase # "up" /\ phase' = "up" => Built')
<1>1. CASE Boot
  BY <1>1, clkinitStep, ttyinitStep, nulluserCreateStep, nulluserResumeStep
     DEF Boot, clkinit, ttyinit, nulluserCreate
<1>2. CASE Statement \/ TypeLine \/ kill_XINU
  <2>1. IInv' /\ ProgramsOK'
    BY <1>2, StatementStep, OutsideStmtStep, kill_XINUStep DEF SysInv
  <2>2. phase = "up" /\ phase' = "up"
    BY <1>2, StatementIsUp
  <2> QED BY <2>1, <2>2 DEF SysInv, BootInv, Phases
<1>3. CASE SystemStep \/ ClockSignal \/ Ended
  <2>1. phase' = phase
    BY <1>3 DEF SystemStep, ClockSignal, Ended, sysVars
  <2>2. CASE phase = "up"
    <3>1. IInv' /\ ProgramsOK'
      BY <1>3, OutsideStmtStep DEF SysInv
    <3> QED BY <2>1, <2>2, <3>1 DEF SysInv, BootInv
  <2>3. CASE phase # "up"
    <3>1. ~Ended
      BY <2>3, BootFacts DEF Ended, Gone
    <3> QED BY <1>3, <2>1, <2>3, <3>1, BootTick, BootTickEnd
  <2> QED BY <2>2, <2>3
<1>4. CASE UNCHANGED allVars
  <2>1. IInv'
    BY <1>4, StutterStep DEF SysInv, allVars
  <2>2. ProgramsOK' /\ phase' = phase
    BY <1>4 DEF SysInv, ProgramsOK, allVars, sysVars
  <2>3. Booting => Booting'
    BY <1>4 DEF Booting, BootProcs, BootSched, BootSems, MsgInit, BootClock, Created,
                IsemTaken, OsemTaken, allVars, sysVars, vars, procVars, semVars,
                msgVars, clkVars
  <2> QED BY <2>1, <2>2, <2>3 DEF SysInv, BootInv
<1> QED BY <1>1, <1>2, <1>3, <1>4 DEF SystemNext

(* The inductive invariant of Kernel holds from clkinit on, in the system  *)
(* that initialize.c builds and the programs of user_program.c and         *)
(* CLI_funcs.c run on, whatever is typed and whenever SIGTERM comes.       *)
THEOREM SystemInvariant == SystemSpec => []IInv
<1>1. SysInit => SysInv
  BY SysInitBoots, SysInitIInv DEF SysInv
<1>2. SysInv /\ [SystemNext]_allVars => SysInv'
  BY SysInvKept
<1>3. SysInv => IInv
  BY DEF SysInv
<1> QED BY <1>1, <1>2, <1>3, PTL DEF SystemSpec

(* nulluser, with the clock running, ends in the state that Kernel starts  *)
(* from: two semaphores taken, the first user process running, and the     *)
(* null process back on the ready list.                                    *)
THEOREM BootAlwaysBuildsInit == SystemSpec => BootBuildsInit
<1> DEFINE Step == phase # "up" /\ phase' = "up"
                      => /\ ProcInit' /\ SemInit' /\ MsgInit'
                         /\ clockq' = <<>> /\ ~slnempty' /\ defclk' = 0 /\ clkdiff' = 0
<1>1. SysInit => SysInv
  BY SysInitBoots, SysInitIInv DEF SysInv
<1>2. SysInv /\ [SystemNext]_allVars => SysInv' /\ Step
  BY SysInvKept DEF Built
<1> HIDE DEF Step
<1>3. SystemSpec => [][Step]_allVars
  BY <1>1, <1>2, PTL DEF SystemSpec
<1> QED BY <1>3 DEF BootBuildsInit, Step

-----------------------------------------------------------------------------
(* Which entries of the process table are free.  Only create fills one and *)
(* only kill frees one, whoever else is made ready or put to sleep.        *)

FreeKept == \A p \in Procs : pstate'[p] = "PRFREE" <=> pstate[p] = "PRFREE"

Idle == {"PRWAIT", "PRSLEEP", "PRRECV", "PRSUSP"}

LEMMA BlockFree ==
    ASSUME IInv, currpid # NULLPROC, NEW s \in Idle, NEW k,
           Resched([pstate EXCEPT ![currpid] = s], rdyq, k, pprio, preempt)
    PROVE  FreeKept
<1> DEFINE ps == [pstate EXCEPT ![currpid] = s]
<1>1. /\ pstate \in [Procs -> States] /\ rdyq \in Seq(Procs)
      /\ Holds(rdyq, ReadyIn(pstate)) /\ pstate[NULLPROC] \in Runnable
      /\ CurrentIn(pstate) = {currpid} /\ currpid \in Procs
  BY SchedInvParts DEF IInv, SchedOKNow, SchedOK
<1>2. NULLPROC \in ReadyIn(pstate)
  BY <1>1, ConstFacts DEF ReadyIn, CurrentIn, Runnable
<1>3. Last(rdyq) \in ReadyIn(pstate)
  BY <1>1, <1>2, LastFrontHolds
<1>4. ps[currpid] = s /\ s \notin {"PRCURR", "PRFREE"}
  BY <1>1 DEF Idle
<1>5. pstate' = [ps EXCEPT ![Last(rdyq)] = "PRCURR"]
  BY <1>4 DEF Resched, KeepsCpu, SwitchToLast
<1> QED BY <1>1, <1>3, <1>4, <1>5 DEF FreeKept, ReadyIn, CurrentIn

LEMMA YieldFree ==
    ASSUME IInv, NEW left \in {preempt, 0}, Resched(pstate, rdyq, qkey, pprio, left)
    PROVE  FreeKept
<1>1. /\ SchedOKNow /\ pprio \in [Procs -> Int] /\ preempt \in -1 .. QUANTUM
  BY SchedInvParts, PprioInt, SchedTypes DEF IInv
<1>2. left \in -1 .. QUANTUM
  BY <1>1, ConstFacts
<1>3. \A p \in Procs : Kept(p)
  BY <1>1, <1>2, YieldStep
<1> QED BY <1>3 DEF Kept, FreeKept, Runnable

LEMMA ReadyFree ==
    ASSUME IInv, NEW pid \in Procs, pstate[pid] \in Idle,
           Ready(pid) \/ ReadyNoResched(pid)
    PROVE  FreeKept
<1>1. /\ SchedOKNow /\ pprio \in [Procs -> Int] /\ pstate[pid] \notin Runnable
      /\ pstate[pid] # "PRFREE"
  BY SchedInvParts, PprioInt DEF IInv, Idle, Runnable
<1>2. pstate'[pid] \in Runnable /\ \A p \in Procs \ {pid} : Kept(p)
  BY <1>1, ReadyStep, ReadyNoReschedStep DEF Runnable
<1> QED BY <1>1, <1>2 DEF Kept, FreeKept, Runnable

LEMMA SameFree == UNCHANGED pstate => FreeKept
BY DEF FreeKept

(* The calls of the programs.                                              *)

LEMMA SignalFree ==
    ASSUME IInv, Interruptible, NEW s \in Int, SignalBody(s)
    PROVE  FreeKept
<1>1. SemInv /\ Op = "none"
  BY OutOfKernelFacts DEF IInv
<1>2. CASE SemUsed(s) /\ semcnt[s] < 0 /\ Ready(Head(semq[s]))
  <2>1. s \in Sems /\ sstate[s] = "SUSED"
    BY <1>1, <1>2, ArgumentTypes DEF SemUsed, SemInv, SemTypeOK
  <2>2. semq[s] # <<>>
    BY <1>1, <1>2, <2>1, SomebodyWaits DEF SemDrains
  <2>3. Head(semq[s]) \in Procs /\ pstate[Head(semq[s])] = "PRWAIT"
    BY <1>1, <2>1, <2>2, FirstWaiter
  <2> QED BY <1>2, <2>3, ReadyFree DEF Idle
<1>3. CASE UNCHANGED schedVars \/ SemError
  BY <1>3, SameFree DEF schedVars, SemError, HandleError
<1> QED BY <1>2, <1>3 DEF SignalBody

LEMMA ProcMsgFree ==
    ASSUME IInv, NEW x \in Int, NEW msg,
           Suspend(x) \/ Resume(x) \/ Send(x, msg) \/ Receive \/ Sleep(x) \/ Wait(x)
    PROVE  FreeKept
<1>1. pstate \in [Procs -> States] /\ currpid \in Procs
  BY SchedTypes
<1>2. CASE Suspend(x)
  <2>1. CASE pstate[x] = "PRREADY" /\ pstate' = [pstate EXCEPT ![x] = "PRSUSP"]
    BY <1>1, <2>1 DEF FreeKept
  <2>2. CASE Block("PRSUSP")
    BY <1>2, <2>2, CallFacts, BlockFree DEF Suspend, Block, Idle
  <2> QED BY <1>2, <2>1, <2>2 DEF Suspend
<1>3. CASE Resume(x)
  <2>1. CASE Suspended(x) /\ Ready(x)
    BY <2>1, ArgumentTypes, ReadyFree DEF Suspended, Idle
  <2> QED BY <1>3, <2>1, SameFree DEF Resume, HandleError
<1>4. CASE Send(x, msg)
  <2>1. CASE pstate[x] = "PRRECV" /\ Ready(x)
    BY <1>4, <2>1, ArgumentTypes, ReadyFree DEF Send, Idle
  <2> QED BY <1>4, <2>1, SameFree DEF Send, schedVars
<1>5. CASE Receive
  <2>1. CASE Block("PRRECV")
    BY <1>5, <2>1, CallFacts, BlockFree DEF Receive, Block, Idle
  <2> QED BY <1>5, <2>1, SameFree DEF Receive, schedVars
<1>6. CASE Sleep(x)
  <2>1. CASE Yield
    BY <2>1, YieldFree DEF Yield
  <2> QED BY <1>6, <2>1, SameFree DEF Sleep, schedVars
<1>7. CASE Wait(x)
  <2>1. CASE Block("PRWAIT")
    BY <1>7, <2>1, CallFacts, BlockFree DEF Wait, Block, Idle
  <2> QED BY <1>7, <2>1, SameFree DEF Wait, schedVars, SemError, HandleError
<1> QED BY <1>2, <1>3, <1>4, <1>5, <1>6, <1>7

(* The steps inside the kernel, the clock and the console.                 *)

LEMMA SemStepFree ==
    ASSUME IInv, SemKernelStep
    PROVE  FreeKept
<1> DEFINE s == kctx[currpid].arg
           w == Head(semq[s])
<1>1. CASE ReleaseWaiter \/ SignalNStep
  <2>1. \/ UNCHANGED pstate
        \/ /\ Op \in {"sdelete", "sreset"}
           /\ semq[s] # <<>> /\ ReadyNoResched(w)
        \/ /\ Op = "signaln" /\ semcnt[s] < 0 /\ ReadyNoResched(w)
    BY <1>1 DEF ReleaseWaiter, SignalNStep, ReadyFirstWaiter, schedVars, At
  <2>2. SemInv /\ (Op \in {"sdelete", "sreset", "signaln"} => s \in Sems)
    BY DEF IInv, SemInv, SemSection
  <2>3. Op = "signaln" /\ semcnt[s] < 0 => semq[s] # <<>>
    <3> SUFFICES ASSUME Op = "signaln", semcnt[s] < 0 PROVE semq[s] # <<>>
      OBVIOUS
    <3>1. s \in Sems /\ sstate[s] = "SUSED"
      BY <2>2 DEF SemInv, SemSection
    <3> HIDE DEF s
    <3> QED BY <2>2, <3>1, SomebodyWaits DEF SemDrains
  <2> HIDE DEF s
  <2>4. CASE s \in Sems /\ semq[s] # <<>> /\ ReadyNoResched(w)
    BY <2>2, <2>4, FirstWaiter, ReadyFree DEF Idle
  <2> QED BY <2>1, <2>2, <2>3, <2>4, SameFree
<1>2. CASE SDeleteEnd \/ SResetEnd \/ SignalNEnd
  BY <1>2, YieldFree DEF SDeleteEnd, SResetEnd, SignalNEnd, Yield
<1> QED BY <1>1, <1>2 DEF SemKernelStep

LEMMA ClkStepFree ==
    ASSUME IInv, ClkKernelStep
    PROVE  FreeKept
<1>1. CASE InsertdWalk \/ StrtClkWalk \/ StrtClkWalkDone
  BY <1>1, SameFree DEF InsertdWalk, StrtClkWalk, StrtClkWalkDone, schedVars
<1>2. CASE WakeupEnd \/ StrtClkEnd \/ ClkIntEnd
  BY <1>2, YieldFree, SameFree DEF WakeupEnd, StrtClkEnd, ClkIntEnd, Yield, schedVars
<1>3. CASE InsertdEnd
  <2>1. currpid # NULLPROC
    BY <1>3, SectionFacts DEF InsertdEnd, IInv, ClkInv, ClkSection
  <2>2. \E k : Resched([pstate EXCEPT ![currpid] = "PRSLEEP"], rdyq, k, pprio, preempt)
    BY <1>3 DEF InsertdEnd
  <2> QED BY <2>1, <2>2, BlockFree DEF Idle
<1>4. CASE WakeupFirst
  <2>1. clockq # <<>> /\ ReadyNoResched(Head(clockq))
    BY <1>4 DEF WakeupFirst
  <2>2. Head(clockq) \in InState("PRSLEEP")
    BY <2>1, SchedTypes, HeadTailHolds
  <2> QED BY <2>1, <2>2, ReadyFree DEF InState, Idle
<1> QED BY <1>1, <1>2, <1>3, <1>4 DEF ClkKernelStep

LEMMA OutsideFree ==
    ASSUME IInv, ClockSignal \/ TypeLine \/ SystemStep \/ kill_XINU \/ Ended
    PROVE  FreeKept
<1>1. CASE ClockSignal \/ kill_XINU \/ Ended
  BY <1>1, SameFree DEF ClockSignal, ClockInterrupt, ClkInt, kill_XINU, Ended, Gone,
                        vars, procVars
<1>2. CASE TypeLine
  BY <1>2, SignalFree, ConstFacts DEF TypeLine, ISEM
<1>3. CASE SystemStep
  <2>1. CASE ReceiveEnd \/ UserStep
    BY <2>1, SameFree DEF ReceiveEnd, UserStep, SleepNext, StopClkStore, schedVars
  <2> QED BY <1>3, <2>1, SemStepFree, ClkStepFree DEF SystemStep, KernelStep
<1> QED BY <1>1, <1>2, <1>3

LEMMA StatementFree ==
    ASSUME IInv, ProgramsOK,
           \/ WriteStmt \/ SuspendStmt \/ ResumeStmt \/ SemStmt \/ SCreateStmt
           \/ MsgStmt \/ SleepStmt \/ YylexStmt \/ CommandStmt \/ NullLoop
    PROVE  FreeKept
<1>1. CASE WriteStmt
  BY <1>1, YieldFree DEF WriteStmt, Yield
<1>2. CASE SuspendStmt \/ ResumeStmt \/ SleepStmt
  <2>1. code[currpid] # <<>> /\ Current.op # "create"
    BY <1>2 DEF SuspendStmt, ResumeStmt, SleepStmt, Reaches
  <2>2. Argument \in Int
    BY <2>1, CurrentTypes
  <2> HIDE DEF Argument
  <2>3. \/ UNCHANGED pstate
        \/ Suspend(Argument) \/ Resume(Argument) \/ Sleep(Argument)
    BY <1>2 DEF SuspendStmt, ResumeStmt, SleepStmt, procVars
  <2> QED BY <2>2, <2>3, ProcMsgFree, SameFree
<1>3. CASE SemStmt
  <2>1. code[currpid] # <<>> /\ Current.op # "create"
    BY <1>3 DEF SemStmt, Reaches
  <2>2. Argument \in Int
    BY <2>1, CurrentTypes
  <2> HIDE DEF Argument
  <2>3. Wait(Argument) \/ (Interruptible /\ SignalBody(Argument))
    BY <1>3 DEF SemStmt, Signal, Calling
  <2> QED BY <2>2, <2>3, ProcMsgFree, SignalFree
<1>4. CASE SCreateStmt
  BY <1>4, SameFree DEF SCreateStmt, SCreate, SCreateBody, SemError, HandleError, procVars
<1>5. CASE MsgStmt
  <2>1. \/ UNCHANGED pstate
        \/ Receive
        \/ Reaches("send") /\ \E msg \in Msgs : Send(Argument, msg)
    BY <1>5 DEF MsgStmt, procVars
  <2>2. CASE Receive
    BY <2>2, ProcMsgFree, ArgumentTypes, ConstFacts
  <2>3. CASE Reaches("send") /\ \E msg \in Msgs : Send(Argument, msg)
    <3>1. Argument \in Int
      BY <2>3, CurrentTypes DEF Reaches
    <3> HIDE DEF Argument
    <3> QED BY <2>3, <3>1, ProcMsgFree
  <2> QED BY <2>1, <2>2, <2>3, SameFree
<1>6. CASE YylexStmt
  <2>1. Wait(ISEM) /\ ISEM \in Int
    BY <1>6, ConstFacts DEF YylexStmt, ISEM
  <2> QED BY <2>1, ProcMsgFree
<1>7. CASE CommandStmt \/ NullLoop
  BY <1>7, SameFree DEF CommandStmt, NullLoop, HandleError, vars, procVars
<1> QED BY <1>1, <1>2, <1>3, <1>4, <1>5, <1>6, <1>7

LEMMA KillFree ==
    ASSUME IInv, NEW pid \in Int, Kill(pid)
    PROVE  /\ pid \in Procs \ {NULLPROC} /\ pstate'[pid] = "PRFREE"
           /\ \A p \in Procs \ {pid} : pstate'[p] = "PRFREE" <=> pstate[p] = "PRFREE"
           /\ currpid # NULLPROC /\ Op = "none" /\ uctx[currpid] = Running
           /\ pid # currpid =>
                  currpid' = currpid /\ Op' = "none" /\ uctx'[currpid] = Running
<1>1. /\ pid \in Procs /\ pid # NULLPROC
      /\ pstate \in [Procs -> States] /\ currpid \in Procs
      /\ currpid # NULLPROC /\ Op = "none" /\ uctx[currpid] = Running
  BY ArgumentTypes, SchedTypes DEF Kill, Calling, Interruptible, isbadpid, NULLPROC
<1>2. SchedOKNow /\ pprio \in [Procs -> Int] /\ qkey \in [Procs -> Int]
  BY SchedInvParts, PprioInt, SchedTypes DEF IInv
<1>3. CASE KillCurrent(pid)
  <2>1. pid = currpid /\ Block("PRFREE")
    BY <1>1, <1>2, <1>3 DEF KillCurrent, SchedOKNow, SchedOK, CurrentIn
  <2>2. /\ pstate'[currpid] = "PRFREE"
        /\ \A p \in Procs \ {currpid} :
              /\ pstate[p] \in Runnable <=> pstate'[p] \in Runnable
              /\ pstate[p] \notin Runnable => pstate'[p] = pstate[p]
    BY <1>1, <1>2, <2>1, BlockStep DEF Block, Runnable, States
  <2> QED BY <1>1, <2>1, <2>2 DEF Runnable
<1>4. CASE /\ pstate' = [pstate EXCEPT ![pid] = "PRFREE"]
           /\ currpid' = currpid /\ pstate[pid] # "PRCURR"
  <2>1. pid # currpid
    BY <1>1, <1>2, <1>4 DEF SchedOKNow, SchedOK, CurrentIn
  <2>2. kctx'[currpid] = kctx[currpid] /\ uctx'[currpid] = uctx[currpid]
    BY <1>2, <2>1, SchedInvParts DEF Kill, IInv, TabOK
  <2> QED BY <1>1, <1>4, <2>1, <2>2 DEF Op
<1> QED BY <1>3, <1>4 DEF Kill, KillWaiting, KillSleeping, KillReady, KillOffQueues

-----------------------------------------------------------------------------
(* What is left in the programs.  Only a process that creates, or reads    *)
(* commands, makes more programs; there is one at a time, and the first    *)
(* user process is it until it has made CLI.                               *)

Workers == Procs \ {NULLPROC}
Makers == {"create", "yylex", "command"}

Halts(s) == s.op = "halt" /\ s.n >= 1
MakesCli(s) == s.op = "create" /\ s.name = "CLI"

Has(c, ops) == \E i \in 1 .. Len(c) : c[i].op \in ops
AtHalt(c) == c # <<>> /\ Halts(Head(c))

CliIsLast(c) ==
    \A i, j \in 1 .. Len(c) :
        i < j /\ MakesCli(c[i]) => c[j].op \notin Makers \cup {"halt"}
HaltsInOrder(c) == \A i \in 2 .. Len(c) : Halts(c[i]) => c[i - 1].op = "halt"
ProgramShape(c) == CliIsLast(c) /\ HaltsInOrder(c)

Ordinary == {s \in Statements : ~MakesCli(s) /\ ~Halts(s)}
Quiet == [op : QuietOps, name : Names \cup {""}, n : Int]

LEMMA OrdinaryStatements ==
    /\ Builds(Ordinary) /\ Builds(Quiet)
    /\ \A op \in {"yylex", "command", "halt"} : Stmt(op, 0) \in Ordinary
    /\ \A name \in Launched \ {"CLI"} : \A n \in Int :
          [op |-> "create", name |-> name, n |-> n] \in Ordinary
    /\ \A name \in Launched \ {"CLI"} : OnNamed("create", name) \in Ordinary
    /\ OnNamed("create", "CLI") \in Statements
<1>1. \A op \in QuietOps : op \in OtherOps /\ op # "halt" /\ op # "create"
  BY DEF QuietOps, OtherOps
<1>2. Builds(Statements)
  BY StmtTypes
<1>3. \A op \in QuietOps : \A n \in Int :
          ~MakesCli(Stmt(op, n)) /\ ~Halts(Stmt(op, n))
  BY <1>1 DEF MakesCli, Halts, Stmt
<1>4. \A op \in QuietOps : \A name \in Names :
          ~MakesCli(OnNamed(op, name)) /\ ~Halts(OnNamed(op, name))
  BY <1>1 DEF MakesCli, Halts, OnNamed
<1>5. Builds(Ordinary)
  BY <1>2, <1>3, <1>4 DEF Builds, Ordinary
<1>6. Builds(Quiet)
  <2>1. \A op \in QuietOps : \A n \in Int : Stmt(op, n) \in Quiet
    BY DEF Stmt, Quiet
  <2>2. ASSUME NEW op \in QuietOps, NEW name \in Names
        PROVE  OnNamed(op, name) \in Quiet
    <3>1. name \in Names \cup {""}
      OBVIOUS
    <3>2. 0 \in Int
      OBVIOUS
    <3>3. [op |-> op, name |-> name, n |-> 0] \in Quiet
      BY <3>1, <3>2 DEF Quiet
    <3> QED BY <3>3 DEF OnNamed
  <2> QED BY <2>1, <2>2 DEF Builds
<1>7. \A op \in {"yylex", "command", "halt"} : Stmt(op, 0) \in Ordinary
  <2>1. {"yylex", "command", "halt"} \subseteq OtherOps
    BY DEF OtherOps
  <2>2. \A op \in {"yylex", "command", "halt"} : Stmt(op, 0) \in Statements
    BY <2>1, StmtTypes
  <2>3. \A op \in {"yylex", "command", "halt"} :
            ~MakesCli(Stmt(op, 0)) /\ ~Halts(Stmt(op, 0))
    BY DEF MakesCli, Halts, Stmt
  <2> QED BY <2>2, <2>3 DEF Ordinary
<1>8. \A name \in Launched \ {"CLI"} : \A n \in Int :
          [op |-> "create", name |-> name, n |-> n] \in Ordinary
  <2>1. \A name \in Launched : \A n \in Int :
            [op |-> "create", name |-> name, n |-> n] \in Statements
    BY StmtTypes
  <2> QED BY <2>1 DEF Ordinary, MakesCli, Halts
<1>9. \A name \in Launched \ {"CLI"} : OnNamed("create", name) \in Ordinary
  BY <1>8 DEF OnNamed
<1>10. OnNamed("create", "CLI") \in Statements
  BY StmtTypes DEF Launched
<1> QED BY <1>5, <1>6, <1>7, <1>8, <1>9, <1>10

LEMMA OrdinaryShape ==
    ASSUME NEW c \in Seq(Ordinary)
    PROVE  ProgramShape(c) /\ ~AtHalt(c)
<1>1. \A i \in 1 .. Len(c) : ~MakesCli(c[i]) /\ ~Halts(c[i])
  BY LenProperties DEF Ordinary
<1>2. c # <<>> => ~Halts(Head(c))
  BY HeadTailProperties DEF Ordinary
<1>3. Len(c) \in Nat
  OBVIOUS
<1> HIDE DEF MakesCli, Halts
<1> QED BY <1>1, <1>2, <1>3 DEF ProgramShape, CliIsLast, HaltsInOrder, AtHalt

LEMMA QuietHasNone ==
    ASSUME NEW c \in Seq(Quiet)
    PROVE  ~Has(c, Makers \cup {"halt"}) /\ ProgramShape(c) /\ ~AtHalt(c)
<1>1. \A s \in Quiet : s.op \notin Makers \cup {"halt"} /\ s.op # "create"
  BY DEF Quiet, QuietOps, OtherOps, Makers
<1>2. \A i \in 1 .. Len(c) : c[i] \in Quiet
  BY LenProperties
<1>3. ~Has(c, Makers \cup {"halt"})
  BY <1>1, <1>2 DEF Has
<1>4. \A i \in 1 .. Len(c) : ~MakesCli(c[i]) /\ ~Halts(c[i])
  BY <1>1, <1>2 DEF MakesCli, Halts
<1>5. c # <<>> => ~Halts(Head(c))
  BY <1>1, HeadTailProperties DEF Halts
<1>6. Len(c) \in Nat
  OBVIOUS
<1> HIDE DEF MakesCli, Halts
<1> QED BY <1>3, <1>4, <1>5, <1>6 DEF ProgramShape, CliIsLast, HaltsInOrder, AtHalt

LEMMA TailShape ==
    ASSUME NEW c \in Seq(Statements), c # <<>>
    PROVE  /\ ProgramShape(c) => ProgramShape(Tail(c))
           /\ \A ops : Has(Tail(c), ops) => Has(c, ops)
           /\ \A ops : Head(c).op \in ops => Has(c, ops)
           /\ ProgramShape(c) /\ Head(c).op # "halt" => ~AtHalt(Tail(c))
           /\ ProgramShape(c) /\ MakesCli(Head(c)) => ~Has(Tail(c), Makers \cup {"halt"})
<1> DEFINE t == Tail(c)
<1>1. /\ t \in Seq(Statements) /\ Len(t) = Len(c) - 1
      /\ Len(c) \in Nat /\ Len(c) > 0 /\ Len(t) \in Nat
      /\ \A i \in 1 .. Len(t) : t[i] = c[i + 1]
      /\ Head(c) = c[1] /\ (t # <<>> => Len(t) > 0 /\ Head(t) = t[1])
  <2>1. t \in Seq(Statements) /\ Len(t) = Len(c) - 1
    BY HeadTailProperties
  <2>2. \A i \in 1 .. Len(t) : t[i] = c[i + 1]
    BY HeadTailProperties
  <2>3. Len(c) \in Nat /\ Len(c) > 0 /\ Head(c) = c[1]
    BY EmptySeq
  <2> HIDE DEF t
  <2>4. Len(t) \in Nat /\ (t # <<>> => Len(t) > 0 /\ Head(t) = t[1])
    BY <2>1, EmptySeq
  <2> QED BY <2>1, <2>2, <2>3, <2>4
<1> HIDE DEF t
<1>2. ProgramShape(c) => ProgramShape(t)
  <2> SUFFICES ASSUME ProgramShape(c) PROVE CliIsLast(t) /\ HaltsInOrder(t)
    BY DEF ProgramShape
  <2>1. CliIsLast(t)
    <3> SUFFICES ASSUME NEW i \in 1 .. Len(t), NEW j \in 1 .. Len(t), i < j, MakesCli(t[i])
                 PROVE  t[j].op \notin Makers \cup {"halt"}
      BY DEF CliIsLast
    <3>1. i + 1 \in 1 .. Len(c) /\ j + 1 \in 1 .. Len(c) /\ i + 1 < j + 1
      BY <1>1
    <3>2. t[i] = c[i + 1] /\ t[j] = c[j + 1]
      BY <1>1
    <3> QED BY <3>1, <3>2 DEF ProgramShape, CliIsLast
  <2>2. HaltsInOrder(t)
    <3> SUFFICES ASSUME NEW i \in 2 .. Len(t), Halts(t[i])
                 PROVE  t[i - 1].op = "halt"
      BY DEF HaltsInOrder
    <3>1. i + 1 \in 2 .. Len(c) /\ i \in 1 .. Len(t) /\ i - 1 \in 1 .. Len(t)
      BY <1>1
    <3>2. t[i] = c[i + 1] /\ t[i - 1] = c[(i + 1) - 1]
      BY <1>1, <3>1
    <3> QED BY <3>1, <3>2 DEF ProgramShape, HaltsInOrder
  <2> QED BY <2>1, <2>2
<1>3. ASSUME NEW ops PROVE Has(t, ops) => Has(c, ops)
  <2> SUFFICES ASSUME NEW i \in 1 .. Len(t), t[i].op \in ops PROVE Has(c, ops)
    BY DEF Has
  <2>1. i + 1 \in 1 .. Len(c) /\ c[i + 1].op \in ops
    BY <1>1
  <2> QED BY <2>1 DEF Has
<1>4. ASSUME NEW ops PROVE Head(c).op \in ops => Has(c, ops)
  <2>1. 1 \in 1 .. Len(c)
    BY <1>1
  <2> QED BY <1>1, <2>1 DEF Has
<1>5. ProgramShape(c) /\ Head(c).op # "halt" => ~AtHalt(t)
  <2> SUFFICES ASSUME ProgramShape(c), AtHalt(t) PROVE Head(c).op = "halt"
    OBVIOUS
  <2>1. Halts(c[2]) /\ 2 \in 2 .. Len(c)
    BY <1>1 DEF AtHalt
  <2>2. c[2 - 1].op = "halt"
    BY <2>1 DEF ProgramShape, HaltsInOrder
  <2> QED BY <1>1, <2>2
<1>6. ProgramShape(c) /\ MakesCli(Head(c)) => ~Has(t, Makers \cup {"halt"})
  <2> SUFFICES ASSUME ProgramShape(c), MakesCli(c[1]), NEW i \in 1 .. Len(t)
               PROVE  t[i].op \notin Makers \cup {"halt"}
    BY <1>1 DEF Has
  <2>1. 1 \in 1 .. Len(c) /\ i + 1 \in 1 .. Len(c) /\ 1 < i + 1
    BY <1>1
  <2>2. c[i + 1].op \notin Makers \cup {"halt"}
    BY <2>1 DEF ProgramShape, CliIsLast
  <2> QED BY <1>1, <2>2
<1> QED BY <1>2, <1>3, <1>4, <1>5, <1>6 DEF t

(* What the handler of SIGTERM puts in front of the program it interrupts. *)
LEMMA HaltInFront ==
    ASSUME NEW c \in Seq(Statements)
    PROVE  /\ ProgramShape(c) => ProgramShape(<<Write>> \o halt_system \o c)
           /\ ~AtHalt(<<Write>> \o halt_system \o c)
           /\ Has(<<Write>> \o halt_system \o c, Makers) => Has(c, Makers)
<1> DEFINE d == <<Write>> \o halt_system
           e == d \o c
<1>1. Write \in Statements /\ Stmt("halt", 0) \in Statements
  BY WritesBuilt, StmtTypes DEF OtherOps
<1>2. <<Write>> \in Seq(Statements) /\ halt_system \in Seq(Statements)
  BY <1>1 DEF halt_system
<1>3. d \in Seq(Statements) /\ Len(d) = 2 /\ d[1] = Write /\ d[2] = Stmt("halt", 0)
  <2>1. /\ d \in Seq(Statements) /\ Len(d) = Len(<<Write>>) + Len(halt_system)
        /\ \A i \in 1 .. Len(<<Write>>) + Len(halt_system) :
              d[i] = IF i <= Len(<<Write>>) THEN <<Write>>[i]
                     ELSE halt_system[i - Len(<<Write>>)]
    BY <1>2, ConcatProperties
  <2> HIDE DEF d
  <2>2. /\ Len(<<Write>>) = 1 /\ Len(halt_system) = 1
        /\ <<Write>>[1] = Write /\ halt_system[1] = Stmt("halt", 0)
    BY DEF halt_system
  <2> QED BY <2>1, <2>2
<1> HIDE DEF d
<1>4. /\ e \in Seq(Statements) /\ Len(e) = 2 + Len(c) /\ Len(c) \in Nat
      /\ \A i \in 1 .. 2 + Len(c) : e[i] = IF i <= 2 THEN d[i] ELSE c[i - 2]
  <2>1. /\ e \in Seq(Statements) /\ Len(e) = Len(d) + Len(c)
        /\ \A i \in 1 .. Len(d) + Len(c) : e[i] = IF i <= Len(d) THEN d[i] ELSE c[i - Len(d)]
    BY <1>3, ConcatProperties
  <2> HIDE DEF e
  <2>2. Len(c) \in Nat
    OBVIOUS
  <2> QED BY <1>3, <2>1, <2>2
<1> HIDE DEF e
<1>5. /\ e[1] = Write /\ e[2] = Stmt("halt", 0)
      /\ \A i \in 3 .. Len(e) : e[i] = c[i - 2] /\ i - 2 \in 1 .. Len(c)
  BY <1>3, <1>4
<1>6. /\ Write.op = "write" /\ Stmt("halt", 0).op = "halt" /\ Stmt("halt", 0).n = 0
  BY DEF Write, Stmt
<1>7. /\ ~MakesCli(e[1]) /\ ~MakesCli(e[2]) /\ ~Halts(e[1]) /\ ~Halts(e[2])
      /\ e[1].op \notin Makers /\ e[2].op \notin Makers
  BY <1>5, <1>6 DEF MakesCli, Halts, Makers
<1>8. ProgramShape(c) => ProgramShape(e)
  <2> SUFFICES ASSUME ProgramShape(c) PROVE CliIsLast(e) /\ HaltsInOrder(e)
    BY DEF ProgramShape
  <2>1. CliIsLast(e)
    <3> SUFFICES ASSUME NEW i \in 1 .. Len(e), NEW j \in 1 .. Len(e), i < j, MakesCli(e[i])
                 PROVE  e[j].op \notin Makers \cup {"halt"}
      BY DEF CliIsLast
    <3>1. i # 1 /\ i # 2
      BY <1>7
    <3>2. i \in 3 .. Len(e) /\ j \in 3 .. Len(e)
      BY <1>4, <3>1
    <3>3. /\ e[i] = c[i - 2] /\ e[j] = c[j - 2] /\ i - 2 < j - 2
          /\ i - 2 \in 1 .. Len(c) /\ j - 2 \in 1 .. Len(c)
      BY <1>5, <3>2
    <3> QED BY <3>3 DEF ProgramShape, CliIsLast
  <2>2. HaltsInOrder(e)
    <3> SUFFICES ASSUME NEW i \in 2 .. Len(e), Halts(e[i])
                 PROVE  e[i - 1].op = "halt"
      BY DEF HaltsInOrder
    <3>1. i # 2
      BY <1>7
    <3>2. CASE i = 3
      BY <1>5, <1>6, <3>2
    <3>3. CASE i > 3
      <4>1. i \in 3 .. Len(e) /\ i - 1 \in 3 .. Len(e) /\ (i - 1) - 2 = (i - 2) - 1
        BY <3>3
      <4>2. e[i] = c[i - 2] /\ e[i - 1] = c[(i - 2) - 1] /\ i - 2 \in 2 .. Len(c)
        BY <1>4, <1>5, <3>3, <4>1
      <4> QED BY <4>2 DEF ProgramShape, HaltsInOrder
    <3> QED BY <3>1, <3>2, <3>3
  <2> QED BY <2>1, <2>2
<1>9. ~AtHalt(e)
  <2>1. e # <<>> => Head(e) = e[1]
    BY <1>4
  <2> QED BY <1>7, <2>1 DEF AtHalt
<1>10. Has(e, Makers) => Has(c, Makers)
  <2> SUFFICES ASSUME NEW i \in 1 .. Len(e), e[i].op \in Makers PROVE Has(c, Makers)
    BY DEF Has
  <2>1. i # 1 /\ i # 2
    BY <1>7
  <2>2. i \in 3 .. Len(e)
    BY <1>4, <2>1
  <2> QED BY <1>5, <2>2 DEF Has
<1> QED BY <1>8, <1>9, <1>10 DEF d, e

LEMMA InitialShape ==
    ProgramShape(initial_process) /\ ~AtHalt(initial_process)
<1> DEFINE x == OnNamed("create", "CLI")
           front == BeforeCLI \o <<x>>
           L == Len(BeforeCLI)
           c == front \o AfterCLI
<1>1. BeforeCLI \in Seq(Ordinary) /\ AfterCLI \in Seq(Quiet) /\ x \in Statements
  <2>1. \A name \in {"A", "B", "C"} : OnNamed("create", name) \in Ordinary
    BY OrdinaryStatements DEF Launched
  <2> QED BY <2>1, OrdinaryStatements, InitialBuilt
<1>2. x.op = "create" /\ ~Halts(x)
  BY DEF OnNamed, Halts
<1> HIDE DEF x
<1>3. /\ \A s \in Ordinary : ~MakesCli(s) /\ ~Halts(s)
      /\ \A s \in Quiet : s.op \notin Makers \cup {"halt"} /\ ~MakesCli(s) /\ ~Halts(s)
  BY DEF Ordinary, Quiet, QuietOps, OtherOps, Makers, MakesCli, Halts
<1> DEFINE All == Ordinary \cup Quiet \cup {x}
<1>4. BeforeCLI \in Seq(All) /\ AfterCLI \in Seq(All) /\ <<x>> \in Seq(All)
  BY <1>1
<1>5. /\ L \in Nat /\ \A i \in 1 .. L : BeforeCLI[i] \in Ordinary
      /\ \A i \in 1 .. Len(AfterCLI) : AfterCLI[i] \in Quiet
      /\ Len(AfterCLI) \in Nat
  BY <1>1, LenProperties
<1> HIDE DEF All
<1>6. /\ front \in Seq(All) /\ Len(front) = L + 1
      /\ \A i \in 1 .. L + 1 : front[i] = IF i <= L THEN BeforeCLI[i] ELSE <<x>>[i - L]
  BY <1>4, ConcatProperties
<1>7. \A i \in 1 .. L + 1 : front[i] = IF i <= L THEN BeforeCLI[i] ELSE x
  BY <1>5, <1>6
<1> HIDE DEF front
<1>8. /\ c \in Seq(All) /\ Len(c) = L + 1 + Len(AfterCLI)
      /\ \A i \in 1 .. L + 1 + Len(AfterCLI) :
            c[i] = IF i <= L + 1 THEN front[i] ELSE AfterCLI[i - (L + 1)]
  <2> HIDE DEF L
  <2>0. front \in Seq(All) /\ AfterCLI \in Seq(All)
    BY <1>4, <1>6
  <2>1. /\ c \in Seq(All) /\ Len(c) = Len(front) + Len(AfterCLI)
        /\ \A i \in 1 .. Len(front) + Len(AfterCLI) :
              c[i] = IF i <= Len(front) THEN front[i] ELSE AfterCLI[i - Len(front)]
    BY <2>0, ConcatProperties
  <2> HIDE DEF c
  <2>2. Len(front) = L + 1
    BY <1>6
  <2>3. c \in Seq(All) /\ Len(c) = L + 1 + Len(AfterCLI)
    BY <2>1, <2>2
  <2>4. ASSUME NEW i \in 1 .. L + 1 + Len(AfterCLI)
        PROVE  c[i] = IF i <= L + 1 THEN front[i] ELSE AfterCLI[i - (L + 1)]
    <3> HIDE DEF front
    <3>1. i \in 1 .. Len(front) + Len(AfterCLI)
      BY <2>2
    <3>2. c[i] = IF i <= Len(front) THEN front[i] ELSE AfterCLI[i - Len(front)]
      BY <2>1, <3>1
    <3> QED BY <2>2, <3>2
  <2> QED BY <2>3, <2>4
<1> HIDE DEF c, L
<1>9. \A i \in 1 .. Len(c) : /\ i <= L => c[i] \in Ordinary
                             /\ i = L + 1 => c[i] = x
                             /\ i > L + 1 => c[i] \in Quiet
  <2> SUFFICES ASSUME NEW i \in 1 .. Len(c)
               PROVE  /\ i <= L => c[i] \in Ordinary
                      /\ i = L + 1 => c[i] = x
                      /\ i > L + 1 => c[i] \in Quiet
    OBVIOUS
  <2>1. i <= L => i \in 1 .. L + 1 /\ i \in 1 .. L
    BY <1>5
  <2>2. i > L + 1 => i - (L + 1) \in 1 .. Len(AfterCLI)
    BY <1>5, <1>8
  <2>3. c[i] = IF i <= L + 1 THEN front[i] ELSE AfterCLI[i - (L + 1)]
    BY <1>8
  <2> QED BY <1>5, <1>7, <2>1, <2>2, <2>3
<1>10. \A i \in 1 .. Len(c) : ~Halts(c[i]) /\ (MakesCli(c[i]) => i = L + 1)
  <2> SUFFICES ASSUME NEW i \in 1 .. Len(c)
               PROVE  ~Halts(c[i]) /\ (MakesCli(c[i]) => i = L + 1)
    OBVIOUS
  <2>1. i <= L \/ i = L + 1 \/ i > L + 1
    BY <1>5
  <2> QED BY <1>2, <1>3, <1>9, <2>1
<1>11. CliIsLast(c)
  <2> SUFFICES ASSUME NEW i \in 1 .. Len(c), NEW j \in 1 .. Len(c), i < j, MakesCli(c[i])
               PROVE  c[j].op \notin Makers \cup {"halt"}
    BY DEF CliIsLast
  <2>1. i = L + 1
    BY <1>10
  <2>2. j > L + 1
    BY <2>1
  <2> QED BY <1>3, <1>9, <2>2
<1>12. HaltsInOrder(c) /\ ~AtHalt(c)
  <2>1. 2 .. Len(c) \subseteq 1 .. Len(c)
    BY <1>8
  <2>2. HaltsInOrder(c)
    BY <1>10, <2>1 DEF HaltsInOrder
  <2>3. c # <<>> => 1 \in 1 .. Len(c) /\ Head(c) = c[1]
    BY <1>8, EmptySeq
  <2> QED BY <1>10, <2>2, <2>3 DEF AtHalt
<1> QED BY <1>11, <1>12, InitialProcess DEF ProgramShape, c, front, x

-----------------------------------------------------------------------------
(* What the processes have left to do.  One that halts has got past the    *)
(* pids before the next one, and nothing else runs while it does so in     *)
(* the handler of SIGTERM.  Outside the handler, only the process that     *)
(* makes programs can come to a halt.                                      *)

StarterIn(c, p, h) == Has(c, Makers) \/ (p \notin h /\ Has(c, {"halt"}))
Starter(p) == StarterIn(code[p], p, handling)

FreeBelow(n) == \A o \in Workers : o < n => pstate[o] = "PRFREE"

HaltingOK(p) ==
    AtHalt(code[p]) =>
        /\ FreeBelow(Head(code[p]).n)
        /\ p \in handling => currpid = p /\ Op = "none" /\ uctx[p] = Running

CodeInv ==
    /\ \A p \in Workers : ProgramShape(code[p]) /\ HaltingOK(p)
    /\ \A p, q \in Workers : Starter(p) /\ Starter(q) => p = q
    /\ phase \notin {"resume", "up"} => code = [p \in Procs |-> <<>>]

LEMMA NothingLeft ==
    /\ ProgramShape(<<>>) /\ ~AtHalt(<<>>)
    /\ \A p, h : ~StarterIn(<<>>, p, h)
<1>1. Len(<<>>) = 0
  BY EmptySeq
<1> QED BY <1>1 DEF ProgramShape, CliIsLast, HaltsInOrder, AtHalt, StarterIn, Has

LEMMA NoPrograms == code = [p \in Procs |-> <<>>] => CodeInv
<1> SUFFICES ASSUME code = [p \in Procs |-> <<>>] PROVE CodeInv
  OBVIOUS
<1>1. \A p \in Workers : code[p] = <<>>
  BY DEF Workers
<1> QED BY <1>1, NothingLeft DEF CodeInv, HaltingOK, Starter

(* One program has changed, that of c; others may have been taken away.    *)
LEMMA ProgramsKept ==
    ASSUME CodeInv, phase' \in {"resume", "up"}, NEW c \in Procs,
           \A p \in Workers : pstate[p] = "PRFREE" => pstate'[p] = "PRFREE",
           \A p \in Workers \ {c} :
               \/ code'[p] = <<>>
               \/ /\ code'[p] = code[p] /\ (p \in handling' <=> p \in handling)
                  /\ AtHalt(code[p]) => p \notin handling,
           c \in Workers =>
               /\ ProgramShape(code'[c]) /\ HaltingOK(c)'
               /\ StarterIn(code'[c], c, handling') => StarterIn(code[c], c, handling)
    PROVE  CodeInv'
<1>1. ASSUME NEW p \in Workers
      PROVE  /\ ProgramShape(code'[p]) /\ HaltingOK(p)'
             /\ StarterIn(code'[p], p, handling') => StarterIn(code[p], p, handling)
  <2>1. CASE p = c
    BY <2>1
  <2>2. CASE code'[p] = <<>>
    BY <2>2, NothingLeft DEF HaltingOK
  <2>3. CASE /\ code'[p] = code[p] /\ (p \in handling' <=> p \in handling)
             /\ AtHalt(code[p]) => p \notin handling
    BY <2>3 DEF CodeInv, HaltingOK, FreeBelow, StarterIn
  <2> QED BY <2>1, <2>2, <2>3
<1>2. \A p, q \in Workers :
          StarterIn(code'[p], p, handling') /\ StarterIn(code'[q], q, handling') => p = q
  BY <1>1 DEF CodeInv, Starter
<1> QED BY <1>1, <1>2 DEF CodeInv, Starter

(* At the statements of c, nobody else is at a halt in the handler.        *)
LEMMA OthersAtHalt ==
    ASSUME CodeInv
    PROVE  \A p \in Workers \ {currpid} : AtHalt(code[p]) => p \notin handling
BY DEF CodeInv, HaltingOK

LEMMA CodeTypes ==
    ASSUME SysInv
    PROVE  /\ currpid \in Procs /\ code[currpid] \in Seq(Statements)
           /\ code \in [Procs -> Seq(Statements)]
           /\ pstate \in [Procs -> States] /\ NULLPROC \in Procs
BY SchedTypes, ConstFacts DEF SysInv, ProgramsOK

LEMMA ContinueCode ==
    ASSUME SysInv, CodeInv, phase' = "up", FreeKept, NEW rest, Continue(rest),
           handling' = handling,
           currpid # NULLPROC =>
               /\ ProgramShape(rest) /\ ~AtHalt(rest)
               /\ StarterIn(rest, currpid, handling)
                     => StarterIn(code[currpid], currpid, handling)
    PROVE  CodeInv'
<1>1. PICK c \in Procs : c = currpid
  BY CodeTypes
<1>2. code'[c] = rest /\ \A p \in Procs \ {c} : code'[p] = code[p]
  BY <1>1, CodeTypes DEF Continue
<1>3. \A p \in Workers \ {c} :
          /\ code'[p] = code[p] /\ (p \in handling' <=> p \in handling)
          /\ AtHalt(code[p]) => p \notin handling
  BY <1>1, <1>2, OthersAtHalt DEF Workers
<1>4. c \in Workers =>
          /\ ProgramShape(code'[c]) /\ HaltingOK(c)'
          /\ StarterIn(code'[c], c, handling') => StarterIn(code[c], c, handling)
  BY <1>1, <1>2 DEF Workers, HaltingOK
<1>5. \A p \in Workers : pstate[p] = "PRFREE" => pstate'[p] = "PRFREE"
  BY DEF FreeKept, Workers
<1>6. phase' \in {"resume", "up"}
  OBVIOUS
<1> HIDE DEF FreeKept, HaltingOK
<1> QED BY <1>3, <1>4, <1>5, <1>6, ProgramsKept

LEMMA AdvanceCode ==
    ASSUME SysInv, CodeInv, phase' = "up", FreeKept, Advance, handling' = handling,
           code[currpid] # <<>>, Current.op # "halt"
    PROVE  CodeInv'
<1>1. code[currpid] \in Seq(Statements) /\ currpid \in Procs
  BY CodeTypes
<1>2. currpid # NULLPROC => ProgramShape(code[currpid])
  BY <1>1 DEF CodeInv, Workers
<1> DEFINE c == code[currpid]
           t == Tail(c)
<1>3. /\ ProgramShape(c) => ProgramShape(t) /\ ~AtHalt(t)
      /\ \A ops : Has(t, ops) => Has(c, ops)
  BY <1>1, TailShape DEF Current
<1>4. StarterIn(t, currpid, handling) => StarterIn(c, currpid, handling)
  BY <1>3 DEF StarterIn
<1>5. Continue(t)
  BY DEF Advance
<1> HIDE DEF t
<1> QED BY <1>2, <1>3, <1>4, <1>5, ContinueCode

(* Nothing has changed in the programs, and nobody is at a halt in the     *)
(* handler.                                                                *)
LEMMA SameCode ==
    ASSUME CodeInv, UNCHANGED <<code, handling>>,
           phase' \in {"resume", "up"} \/ phase' = phase,
           \A p \in Workers : AtHalt(code[p]) => p \notin handling,
           FreeKept
    PROVE  CodeInv'
<1>1. CASE phase' \in {"resume", "up"}
  <2>1. NULLPROC \in Procs /\ NULLPROC \notin Workers
    BY ConstFacts DEF Workers
  <2>2. \A p \in Workers : pstate[p] = "PRFREE" => pstate'[p] = "PRFREE"
    BY DEF FreeKept, Workers
  <2>3. \A p \in Workers \ {NULLPROC} :
            /\ code'[p] = code[p] /\ (p \in handling' <=> p \in handling)
            /\ AtHalt(code[p]) => p \notin handling
    OBVIOUS
  <2> QED BY <1>1, <2>1, <2>2, <2>3, ProgramsKept
<1>2. CASE phase' \notin {"resume", "up"}
  <2>1. code = [p \in Procs |-> <<>>]
    BY <1>2 DEF CodeInv
  <2>2. (code = [p \in Procs |-> <<>>])'
    BY <2>1
  <2> QED BY <2>2, NoPrograms, PTL
<1> QED BY <1>1, <1>2

(* The statements that call neither create nor kill.                       *)

LEMMA CallCode ==
    ASSUME SysInv, CodeInv,
           \/ WriteStmt \/ SuspendStmt \/ ResumeStmt \/ SemStmt \/ SCreateStmt
           \/ MsgStmt \/ SleepStmt
    PROVE  CodeInv'
<1>1. FreeKept
  BY StatementFree DEF SysInv
<1>2. /\ phase' = "up" /\ handling' = handling /\ code[currpid] # <<>>
      /\ Current.op # "halt"
      /\ Advance \/ Continue(<<>>)
  BY DEF WriteStmt, SuspendStmt, ResumeStmt, SemStmt, SCreateStmt, MsgStmt, SleepStmt,
         Reaches, restVars
<1>3. CASE Advance
  BY <1>1, <1>2, <1>3, AdvanceCode
<1>4. CASE Continue(<<>>)
  <2>1. /\ ProgramShape(<<>>) /\ ~AtHalt(<<>>)
        /\ ~StarterIn(<<>>, currpid, handling)
    BY NothingLeft
  <2> QED BY <1>1, <1>2, <1>4, <2>1, ContinueCode
<1> QED BY <1>2, <1>3, <1>4

(* CLI reads a line and does what it says: it stays the one that makes     *)
(* programs.                                                               *)
LEMMA CliCode ==
    ASSUME SysInv, CodeInv, YylexStmt \/ CommandStmt
    PROVE  CodeInv'
<1>1. FreeKept
  BY StatementFree DEF SysInv
<1>2. /\ phase' = "up" /\ handling' = handling /\ code[currpid] # <<>>
      /\ Current.op \in Makers
      /\ \/ Continue(<<Stmt("command", 0)>>)
         \/ \E command \in Commands : Continue(command \o Prompt)
  BY DEF YylexStmt, CommandStmt, Reaches, restVars, Makers
<1>3. PICK rest \in Seq(Ordinary) : Continue(rest)
  <2>1. <<Stmt("command", 0)>> \in Seq(Ordinary)
    BY OrdinaryStatements
  <2>2. ASSUME NEW command \in Commands
        PROVE  command \o Prompt \in Seq(Ordinary)
    <3>1. /\ Builds(Ordinary) /\ Stmt("halt", 0) \in Ordinary
          /\ Stmt("yylex", 0) \in Ordinary
          /\ \A n \in Int : \A name \in {"sleeper", "semwaiter", "looper"} :
                [op |-> "create", name |-> name, n |-> n] \in Ordinary
      <4>1. {"sleeper", "semwaiter", "looper"} \subseteq Launched \ {"CLI"}
        BY DEF Launched
      <4> QED BY <4>1, OrdinaryStatements
    <3>2. command \in Seq(Ordinary)
      BY <3>1, CommandsBuilt
    <3>3. Prompt \in Seq(Ordinary)
      BY <3>1, CliBuilt
    <3> QED BY <3>2, <3>3, ConcatProperties
  <2> QED BY <1>2, <2>1, <2>2
<1>4. ProgramShape(rest) /\ ~AtHalt(rest)
  BY OrdinaryShape
<1>5. StarterIn(code[currpid], currpid, handling)
  <2>1. Has(code[currpid], Makers)
    BY <1>2, CodeTypes, TailShape DEF Current
  <2> QED BY <2>1 DEF StarterIn
<1> QED BY <1>1, <1>2, <1>3, <1>4, <1>5, ContinueCode

LEMMA NullLoopCode ==
    ASSUME SysInv, CodeInv, NullLoop
    PROVE  CodeInv'
<1>1. /\ currpid = NULLPROC /\ phase' = "up" /\ handling' = handling
      /\ \/ Continue(<<Write, Stmt("return", 0)>>)
         \/ code' = code
  BY DEF NullLoop, restVars
<1>2. FreeKept
  BY StatementFree DEF SysInv
<1>3. CASE Continue(<<Write, Stmt("return", 0)>>)
  BY <1>1, <1>2, <1>3, ContinueCode
<1>4. CASE code' = code
  <2>1. \A p \in Workers : AtHalt(code[p]) => p \notin handling
    BY <1>1, OthersAtHalt DEF Workers
  <2> QED BY <1>1, <1>2, <1>4, <2>1, SameCode
<1> QED BY <1>1, <1>3, <1>4

(* The one that creates is the only one that can come to a halt outside    *)
(* the handler, and it is not at one.                                      *)
LEMMA CreateCode ==
    ASSUME SysInv, CodeInv, CreateStmt
    PROVE  CodeInv'
<1> DEFINE ssize == IF Current.name = "CLI" THEN 10 * INITSTK ELSE INITSTK
<1>1. /\ phase' = "up" /\ handling' = handling /\ code[currpid] # <<>>
      /\ Current.op = "create" /\ currpid # NULLPROC
      /\ Create(ssize, INITPRIO)
      /\ \/ exited' /\ Advance
         \/ \E pid \in Procs :
               /\ ~exited' /\ IsNewPid(pid)
               /\ code' = [code EXCEPT ![currpid] = Tail(code[currpid]),
                                       ![pid] = Program(Current.name, Current.n)]
  BY DEF CreateStmt, Reaches, restVars, Create, Calling
<1> HIDE DEF ssize
<1>2. CASE exited' /\ Advance
  <2>1. exited = FALSE
    BY <1>1 DEF Create, Calling, Interruptible, SysInv, IInv, TabOK, SchedInv, ProcTypeOK
  <2>2. UNCHANGED pstate
    BY <1>1, <1>2, <2>1 DEF Create, SemError, HandleError, NewProcess
  <2>3. FreeKept
    BY <2>2, SameFree
  <2> QED BY <1>1, <1>2, <2>3, AdvanceCode
<1>3. ASSUME NEW pid \in Procs, IsNewPid(pid),
             code' = [code EXCEPT ![currpid] = Tail(code[currpid]),
                                  ![pid] = Program(Current.name, Current.n)]
      PROVE  CodeInv'
  <2>1. /\ currpid \in Workers /\ code[currpid] \in Seq(Statements)
        /\ code \in [Procs -> Seq(Statements)] /\ pid # currpid
    <3>1. pstate[currpid] # "PRFREE" /\ pstate[pid] = "PRFREE"
      BY <1>3, SchedInvParts DEF SysInv, IInv, SchedOKNow, SchedOK, CurrentIn, IsNewPid
    <3> QED BY <1>1, <3>1, CodeTypes DEF Workers
  <2> DEFINE new == Program(Current.name, Current.n)
             t == Tail(code[currpid])
  <2>2. PICK c \in Workers : c = currpid
    BY <2>1
  <2>3. /\ ProgramShape(t) /\ ~AtHalt(t)
        /\ StarterIn(code[c], c, handling) /\ ~AtHalt(code[c])
        /\ MakesCli(Current) => \A h : ~StarterIn(t, c, h)
    <3>1. ProgramShape(code[currpid])
      BY <2>1 DEF CodeInv
    <3>2. Head(code[currpid]).op = "create"
      BY <1>1 DEF Current
    <3>3. /\ ProgramShape(t) /\ ~AtHalt(t) /\ Has(code[currpid], Makers)
          /\ MakesCli(Current) => ~Has(t, Makers \cup {"halt"})
      BY <1>1, <2>1, <3>1, <3>2, TailShape DEF Current, Makers
    <3>4. ~AtHalt(code[currpid])
      BY <3>2 DEF AtHalt, Halts
    <3> HIDE DEF t
    <3>5. ~Has(t, Makers \cup {"halt"}) => \A h : ~StarterIn(t, c, h)
      BY DEF StarterIn, Has
    <3>6. StarterIn(code[c], c, handling)
      BY <2>2, <3>3 DEF StarterIn
    <3> QED BY <2>2, <3>3, <3>4, <3>5, <3>6
  <2>4. /\ ProgramShape(new) /\ ~AtHalt(new)
        /\ ~MakesCli(Current) => \A h : ~StarterIn(new, pid, h)
    <3>1. Current.name \in Launched /\ Current.n \in Int
      BY <1>1, CurrentTypes DEF SysInv
    <3>2. CASE Current.name = "CLI"
      <4>1. new = CLI
        BY <3>2 DEF Program
      <4>2. CLI \in Seq(Ordinary)
        BY OrdinaryStatements, CliBuilt
      <4> QED BY <1>1, <3>2, <4>1, <4>2, OrdinaryShape DEF MakesCli
    <3>3. CASE Current.name # "CLI"
      <4>1. /\ currpid \in Int /\ SLEEPTIME \in Int
            /\ named["sem"] \in Int /\ named["A"] \in Int
        BY <2>1, ArgumentTypes, SystemAssumption DEF SysInv, ProgramsOK, Names, Workers
      <4>2. new \in Seq(Quiet)
        BY <3>1, <3>3, <4>1, OrdinaryStatements, QuietPrograms DEF Program, Launched
      <4> HIDE DEF new
      <4>3. ~Has(new, Makers \cup {"halt"}) /\ ProgramShape(new) /\ ~AtHalt(new)
        BY <4>2, QuietHasNone
      <4>4. \A h : ~StarterIn(new, pid, h)
        BY <4>3 DEF StarterIn, Has
      <4> QED BY <4>3, <4>4
    <3> QED BY <3>2, <3>3
  <2> HIDE DEF new, t
  <2>5. /\ code'[c] = t /\ code'[pid] = new
        /\ \A p \in Workers \ {c, pid} : code'[p] = code[p]
    BY <1>3, <2>1, <2>2 DEF Workers, new, t
  <2>6. \A p \in Workers \ {c} : ~StarterIn(code[p], p, handling) /\ ~AtHalt(code[p])
    <3> SUFFICES ASSUME NEW p \in Workers \ {c}
                 PROVE  ~StarterIn(code[p], p, handling) /\ ~AtHalt(code[p])
      OBVIOUS
    <3>1. ~StarterIn(code[p], p, handling)
      BY <2>2, <2>3 DEF CodeInv, Starter
    <3>2. AtHalt(code[p]) => p \notin handling
      BY <2>2, OthersAtHalt
    <3>3. AtHalt(code[p]) => Has(code[p], {"halt"})
      <4>1. code[p] \in Seq(Statements)
        BY <2>1 DEF Workers
      <4> QED BY <4>1, TailShape DEF AtHalt, Halts
    <3> QED BY <3>1, <3>2, <3>3 DEF StarterIn
  <2>7. \A p \in Workers : ProgramShape(code'[p]) /\ ~AtHalt(code'[p])
    BY <2>3, <2>4, <2>5, <2>6 DEF CodeInv
  <2>8. \A p \in Workers : StarterIn(code'[p], p, handling') =>
            \/ p = c /\ ~MakesCli(Current)
            \/ p = pid /\ MakesCli(Current)
    BY <1>1, <2>2, <2>3, <2>4, <2>5, <2>6
  <2> QED BY <1>1, <2>7, <2>8 DEF CodeInv, HaltingOK, Starter
<1> QED BY <1>1, <1>2, <1>3

(* A kill takes a program away.  One that goes on with halt has killed the *)
(* pids below the next.                                                    *)
LEMMA KillThenCode ==
    ASSUME SysInv, CodeInv, phase' = "up", NEW pid \in Int, NEW rest,
           currpid # NULLPROC, KillThen(pid, rest),
           ProgramShape(rest),
           AtHalt(rest) =>
               \A o \in Workers : o < Head(rest).n => o = pid \/ pstate[o] = "PRFREE",
           StarterIn(rest, currpid, handling)
               => StarterIn(code[currpid], currpid, handling)
    PROVE  CodeInv'
<1>1. PICK c \in Procs : c = currpid
  BY CodeTypes
<1>2. code \in [Procs -> Seq(Statements)] /\ c \in Workers
  BY <1>1, CodeTypes DEF Workers
<1>3. phase' \in {"resume", "up"}
  OBVIOUS
<1>4. CASE /\ Kill(pid)
           /\ code' = [code EXCEPT ![currpid] = rest, ![pid] = <<>>]
           /\ handling' = handling \ {pid}
  <2>1. /\ pid \in Workers /\ pstate'[pid] = "PRFREE"
        /\ \A p \in Procs \ {pid} : pstate'[p] = "PRFREE" <=> pstate[p] = "PRFREE"
        /\ pid # c => currpid' = c /\ Op' = "none" /\ uctx'[c] = Running
    BY <1>1, <1>4, KillFree DEF SysInv, Workers
  <2>2. \A p \in Workers : pstate[p] = "PRFREE" => pstate'[p] = "PRFREE"
    BY <2>1 DEF Workers
  <2>3. /\ code'[pid] = <<>> /\ (pid # c => code'[c] = rest)
        /\ \A p \in Workers \ {c, pid} : code'[p] = code[p]
    BY <1>1, <1>2, <1>4, <2>1 DEF Workers
  <2>4. \A p \in Workers \ {c} :
            \/ code'[p] = <<>>
            \/ /\ code'[p] = code[p] /\ (p \in handling' <=> p \in handling)
               /\ AtHalt(code[p]) => p \notin handling
    BY <1>1, <1>4, <2>3, OthersAtHalt
  <2>5. CASE pid = c
    <3>1. /\ ProgramShape(code'[c]) /\ HaltingOK(c)'
          /\ ~StarterIn(code'[c], c, handling')
      BY <2>3, <2>5, NothingLeft DEF HaltingOK
    <3> HIDE DEF HaltingOK
    <3> QED BY <1>3, <2>2, <2>4, <3>1, ProgramsKept
  <2>6. CASE pid # c
    <3>1. ProgramShape(code'[c])
      BY <2>3, <2>6
    <3>2. HaltingOK(c)'
      <4>1. ASSUME AtHalt(rest), NEW o \in Workers, o < Head(rest).n
            PROVE  pstate'[o] = "PRFREE"
        BY <2>1, <2>2, <4>1 DEF FreeBelow
      <4> QED BY <2>1, <2>3, <2>6, <4>1 DEF HaltingOK, FreeBelow
    <3>3. StarterIn(code'[c], c, handling') => StarterIn(code[c], c, handling)
      <4>1. code'[c] = rest /\ (c \in handling' <=> c \in handling)
        BY <1>4, <2>3, <2>6
      <4>2. StarterIn(rest, c, handling') <=> StarterIn(rest, c, handling)
        BY <4>1 DEF StarterIn
      <4> QED BY <1>1, <4>1, <4>2
    <3> HIDE DEF HaltingOK
    <3> QED BY <1>3, <2>2, <2>4, <3>1, <3>2, <3>3, ProgramsKept
  <2> QED BY <2>5, <2>6
<1>5. CASE /\ pid \notin Live /\ Calling("kill") /\ Continue(rest)
           /\ UNCHANGED <<vars, handling>>
  <2>1. pid \in Workers => pstate[pid] = "PRFREE"
    <3> SUFFICES ASSUME pid \in Workers PROVE pstate[pid] = "PRFREE"
      OBVIOUS
    <3>1. ~isbadpid(pid)
      BY ConstFacts DEF Workers, isbadpid, Procs, NULLPROC
    <3> QED BY <1>5, <3>1 DEF Live, Workers
  <2>2. /\ pstate' = pstate /\ currpid' = currpid /\ uctx' = uctx /\ kctx' = kctx
        /\ handling' = handling
    BY <1>5 DEF vars, procVars
  <2>3. Calling("kill") => Op = "none" /\ uctx[currpid] = Running
    BY DEF Calling, Interruptible
  <2>4. code'[c] = rest /\ \A p \in Procs \ {c} : code'[p] = code[p]
    BY <1>1, <1>2, <1>5 DEF Continue
  <2>5. \A p \in Workers \ {c} :
            /\ code'[p] = code[p] /\ (p \in handling' <=> p \in handling)
            /\ AtHalt(code[p]) => p \notin handling
    BY <1>1, <2>2, <2>4, OthersAtHalt DEF Workers
  <2>6. HaltingOK(c)'
    <3>1. AtHalt(rest) => \A o \in Workers : o < Head(rest).n => pstate'[o] = "PRFREE"
      BY <2>1, <2>2 DEF FreeBelow
    <3>2. currpid' = c /\ Op' = "none" /\ uctx'[c] = Running
      BY <1>1, <1>5, <2>2, <2>3 DEF Op
    <3> QED BY <2>4, <3>1, <3>2 DEF HaltingOK, FreeBelow
  <2>7. /\ ProgramShape(code'[c])
        /\ StarterIn(code'[c], c, handling') => StarterIn(code[c], c, handling)
    BY <1>1, <2>2, <2>4
  <2>8. \A p \in Workers : pstate[p] = "PRFREE" => pstate'[p] = "PRFREE"
    BY <2>2
  <2> HIDE DEF HaltingOK
  <2> QED BY <1>3, <2>5, <2>6, <2>7, <2>8, ProgramsKept
<1> QED BY <1>4, <1>5 DEF KillThen

LEMMA KillCode ==
    ASSUME SysInv, CodeInv, KillStmt
    PROVE  CodeInv'
<1>1. /\ phase' = "up" /\ code[currpid] # <<>> /\ Current.op = "kill"
      /\ KillThen(Argument, Tail(code[currpid]))
  BY DEF KillStmt, Reaches
<1>2. currpid # NULLPROC
  BY <1>1 DEF KillThen, Kill, Calling
<1>3. Argument \in Int
  BY <1>1, CurrentTypes DEF SysInv
<1> DEFINE t == Tail(code[currpid])
<1>4. /\ ProgramShape(t) /\ ~AtHalt(t)
      /\ StarterIn(t, currpid, handling) => StarterIn(code[currpid], currpid, handling)
  <2>1. ProgramShape(code[currpid]) /\ code[currpid] \in Seq(Statements)
    BY <1>2, CodeTypes DEF CodeInv, Workers
  <2>2. /\ ProgramShape(t) /\ ~AtHalt(t)
        /\ \A ops : Has(t, ops) => Has(code[currpid], ops)
    BY <1>1, <2>1, TailShape DEF Current
  <2> HIDE DEF t
  <2> QED BY <2>2 DEF StarterIn
<1>5. KillThen(Argument, t)
  BY <1>1
<1> HIDE DEF t, Argument
<1> QED BY <1>1, <1>2, <1>3, <1>4, <1>5, KillThenCode

LEMMA userretCode ==
    ASSUME SysInv, CodeInv, userret
    PROVE  CodeInv'
<1>1. /\ phase' = "up" /\ code[currpid] = <<>> /\ Kill(currpid)
      /\ code' = code /\ handling' = handling
  BY DEF userret, restVars
<1>2. PICK c \in Procs : c = currpid
  BY CodeTypes
<1>3. \A p \in Workers : pstate[p] = "PRFREE" => pstate'[p] = "PRFREE"
  <2>1. c \in Int /\ Kill(c)
    BY <1>1, <1>2, ArgumentTypes
  <2> QED BY <2>1, KillFree DEF SysInv, Workers
<1>4. \A p \in Workers \ {c} :
          /\ code'[p] = code[p] /\ (p \in handling' <=> p \in handling)
          /\ AtHalt(code[p]) => p \notin handling
  BY <1>1, <1>2, OthersAtHalt
<1>5. /\ ProgramShape(code'[c]) /\ HaltingOK(c)'
      /\ StarterIn(code'[c], c, handling') => StarterIn(code[c], c, handling)
  BY <1>1, <1>2, NothingLeft DEF HaltingOK
<1>6. phase' \in {"resume", "up"}
  BY <1>1
<1> HIDE DEF HaltingOK
<1> QED BY <1>3, <1>4, <1>5, <1>6, ProgramsKept

LEMMA HaltCode ==
    ASSUME SysInv, CodeInv, HaltStmt
    PROVE  CodeInv'
<1> DEFINE pid == Current.n
<1>1. /\ phase' = "up" /\ code[currpid] # <<>> /\ Current.op = "halt"
      /\ \/ /\ isbadpid(pid) /\ pid = currpid
            /\ handling' = handling \ {currpid}
            /\ Advance /\ UNCHANGED vars
         \/ KillThen(pid, <<Stmt("halt", NextToKill(pid))>>)
  BY DEF HaltStmt, Reaches
<1>2. pid \in Int
  BY <1>1, CurrentTypes DEF SysInv
<1>3. currpid \in Procs /\ code \in [Procs -> Seq(Statements)] /\ NULLPROC \in Procs
  BY CodeTypes
<1>4. CASE /\ isbadpid(pid) /\ pid = currpid
           /\ handling' = handling \ {currpid}
           /\ Advance /\ UNCHANGED vars
  <2>1. currpid = NULLPROC
    BY <1>3, <1>4, ConstFacts DEF isbadpid, Procs, NULLPROC
  <2>2. \A p \in Workers : pstate[p] = "PRFREE" => pstate'[p] = "PRFREE"
    BY <1>4 DEF vars, procVars
  <2>3. \A p \in Workers \ {NULLPROC} :
            /\ code'[p] = code[p] /\ (p \in handling' <=> p \in handling)
            /\ AtHalt(code[p]) => p \notin handling
    BY <1>3, <1>4, <2>1, OthersAtHalt DEF Workers, Advance, Continue
  <2>4. NULLPROC \notin Workers /\ phase' \in {"resume", "up"}
    BY <1>1 DEF Workers
  <2> QED BY <1>3, <2>2, <2>3, <2>4, ProgramsKept
<1>5. CASE KillThen(pid, <<Stmt("halt", NextToKill(pid))>>)
  <2> DEFINE next == Stmt("halt", pid + 1)
             rest == <<next>>
  <2>1. KillThen(pid, rest) /\ currpid # NULLPROC
    BY <1>5 DEF NextToKill, KillThen, Kill, Calling
  <2>2. /\ Len(rest) = 1 /\ rest[1] = next /\ Head(rest) = next
        /\ next.op = "halt" /\ next.n = pid + 1
    BY DEF Stmt
  <2> HIDE DEF next
  <2>3. ProgramShape(rest)
    <3>1. CliIsLast(rest)
      <4> SUFFICES ASSUME NEW i \in 1 .. Len(rest), NEW j \in 1 .. Len(rest), i < j
                   PROVE  FALSE
        BY DEF CliIsLast
      <4> QED BY <2>2
    <3>2. HaltsInOrder(rest)
      BY <2>2 DEF HaltsInOrder
    <3> QED BY <3>1, <3>2 DEF ProgramShape
  <2> HIDE DEF rest
  <2>4. AtHalt(rest) =>
            \A o \in Workers : o < Head(rest).n => o = pid \/ pstate[o] = "PRFREE"
    <3> SUFFICES ASSUME NEW o \in Workers, o < pid + 1, o # pid
                 PROVE  pstate[o] = "PRFREE"
      BY <2>2
    <3>1. o \in Int /\ o >= 1
      BY ConstFacts DEF Workers, Procs, NULLPROC
    <3>2. o < pid /\ pid >= 1
      BY <1>2, <3>1
    <3>3. AtHalt(code[currpid])
      BY <1>1, <3>2 DEF AtHalt, Halts, Current
    <3>4. FreeBelow(pid)
      BY <1>3, <2>1, <3>3 DEF CodeInv, HaltingOK, Workers, Current
    <3> QED BY <3>2, <3>4 DEF FreeBelow
  <2>5. StarterIn(rest, currpid, handling) => StarterIn(code[currpid], currpid, handling)
    <3>1. ~Has(rest, Makers)
      BY <2>2 DEF Has, Makers
    <3>2. Has(code[currpid], {"halt"})
      BY <1>1, <1>3, TailShape DEF Current
    <3> QED BY <3>1, <3>2 DEF StarterIn
  <2> HIDE DEF pid
  <2> QED BY <1>1, <1>2, <2>1, <2>3, <2>4, <2>5, KillThenCode
<1> QED BY <1>1, <1>4, <1>5

LEMMA kill_XINUCode ==
    ASSUME SysInv, CodeInv, kill_XINU
    PROVE  CodeInv'
<1>1. PICK c \in Procs : c = currpid
  BY CodeTypes
<1> DEFINE e == <<Write>> \o halt_system \o code[c]
<1>2. /\ phase' \in {"resume", "up"} /\ c \notin handling /\ UNCHANGED vars
      /\ handling' = handling \cup {c} /\ code' = [code EXCEPT ![c] = e]
  BY <1>1 DEF kill_XINU, NotHandling, Continue
<1>3. /\ code[c] \in Seq(Statements) /\ code \in [Procs -> Seq(Statements)]
  BY CodeTypes
<1>4. /\ ProgramShape(code[c]) => ProgramShape(e)
      /\ ~AtHalt(e) /\ (Has(e, Makers) => Has(code[c], Makers))
  BY <1>3, HaltInFront
<1> HIDE DEF e
<1>5. code'[c] = e /\ \A p \in Procs \ {c} : code'[p] = code[p]
  BY <1>2, <1>3
<1>6. \A p \in Workers \ {c} :
          /\ code'[p] = code[p] /\ (p \in handling' <=> p \in handling)
          /\ AtHalt(code[p]) => p \notin handling
  BY <1>1, <1>2, <1>5, OthersAtHalt DEF Workers
<1>7. c \in Workers =>
          /\ ProgramShape(code'[c]) /\ HaltingOK(c)'
          /\ StarterIn(code'[c], c, handling') => StarterIn(code[c], c, handling)
  BY <1>2, <1>4, <1>5 DEF CodeInv, HaltingOK, StarterIn
<1>8. \A p \in Workers : pstate[p] = "PRFREE" => pstate'[p] = "PRFREE"
  BY <1>2 DEF vars, procVars
<1> HIDE DEF HaltingOK
<1> QED BY <1>2, <1>6, <1>7, <1>8, ProgramsKept

(* The boot makes the first program, and what comes from outside or goes   *)
(* on in the kernel leaves the programs alone.                             *)

LEMMA BootCode ==
    ASSUME SysInv, CodeInv, Boot
    PROVE  CodeInv'
<1> DEFINE none == [p \in Procs |-> <<>>]
<1>1. CASE clkinit \/ ttyinit
  <2>1. phase \notin {"resume", "up"} /\ code' = code
    BY <1>1 DEF clkinit, ttyinit
  <2>2. (code = none)'
    BY <2>1 DEF CodeInv
  <2> QED BY <2>2, NoPrograms, PTL
<1>2. CASE nulluserCreate
  <2>1. /\ code = none /\ phase' \in {"resume", "up"} /\ handling' = handling
    BY <1>2 DEF nulluserCreate, CodeInv
  <2>2. PICK pid \in Procs : code' = [code EXCEPT ![pid] = initial_process]
    BY <1>2 DEF nulluserCreate
  <2>3. \A p \in Workers : p # pid => code'[p] = <<>>
    BY <2>1, <2>2 DEF Workers
  <2>4. pid \in Workers => code'[pid] = initial_process
    BY <2>1, <2>2
  <2>5. \A p \in Workers : ProgramShape(code'[p]) /\ ~AtHalt(code'[p])
    BY <2>3, <2>4, NothingLeft, InitialShape
  <2>6. \A p \in Workers : StarterIn(code'[p], p, handling') => p = pid
    BY <2>3, NothingLeft
  <2> QED BY <2>1, <2>5, <2>6 DEF CodeInv, HaltingOK, Starter
<1>3. CASE nulluserResume
  <2>1. /\ phase = "resume" /\ phase' \in {"resume", "up"}
        /\ Ready(named["INIT"]) /\ UNCHANGED <<code, handling>>
    BY <1>3 DEF nulluserResume
  <2>2. phase # "up" /\ Booting /\ currpid = NULLPROC /\ Created
    BY <2>1, BootFacts DEF Created
  <2>3. named["INIT"] = FirstUser /\ pstate[FirstUser] = "PRSUSP"
    BY <2>2, BootConstants DEF Booting, BootProcs
  <2>4. FreeKept
    BY <2>1, <2>3, BootConstants, ReadyFree DEF SysInv, Idle
  <2>5. \A p \in Workers : AtHalt(code[p]) => p \notin handling
    BY <2>2, OthersAtHalt DEF Workers
  <2> QED BY <2>1, <2>4, <2>5, SameCode
<1> QED BY <1>1, <1>2, <1>3 DEF Boot

LEMMA OutsideCode ==
    ASSUME SysInv, CodeInv, ClockSignal \/ TypeLine \/ SystemStep
    PROVE  CodeInv'
<1>1. FreeKept
  BY OutsideFree DEF SysInv
<1>2. UNCHANGED <<code, handling>> /\ phase' = phase
  BY DEF ClockSignal, TypeLine, SystemStep, sysVars
<1>3. \A p \in Workers : AtHalt(code[p]) => p \notin handling
  <2> SUFFICES ASSUME NEW p \in Workers, AtHalt(code[p]), p \in handling
               PROVE  FALSE
    OBVIOUS
  <2>1. currpid = p /\ Op = "none" /\ uctx[p] = Running
    BY DEF CodeInv, HaltingOK
  <2>2. ~ClockSignal /\ ~TypeLine
    BY <2>1 DEF ClockSignal, TypeLine, NotHandling
  <2>3. ~KernelStep
    BY <2>1 DEF KernelStep, SemKernelStep, ReceiveEnd, ClkKernelStep, At,
                ReleaseWaiter, SDeleteEnd, SResetEnd, SignalNStep, SignalNEnd,
                InsertdWalk, InsertdEnd, WakeupFirst, WakeupEnd, StrtClkWalk,
                StrtClkWalkDone, StrtClkEnd, ClkIntEnd
  <2>4. ~UserStep
    <3>1. uctx[p].op = "run"
      BY <2>1 DEF Running, InUser
    <3> QED BY <2>1, <3>1 DEF UserStep, SleepNext, StopClkStore
  <2> QED BY <2>2, <2>3, <2>4 DEF SystemStep
<1> QED BY <1>1, <1>2, <1>3, SameCode

LEMMA CodeInvKept ==
    ASSUME SysInv, CodeInv, [SystemNext]_allVars
    PROVE  CodeInv'
<1>1. CASE Boot
  BY <1>1, BootCode
<1>2. CASE Statement
  BY <1>2, CallCode, CliCode, NullLoopCode, CreateCode, KillCode, userretCode, HaltCode
     DEF Statement
<1>3. CASE ClockSignal \/ TypeLine \/ SystemStep
  BY <1>3, OutsideCode
<1>4. CASE kill_XINU
  BY <1>4, kill_XINUCode
<1>5. CASE Ended \/ UNCHANGED allVars
  <2>1. /\ code' = code /\ handling' = handling /\ phase' = phase
        /\ pstate' = pstate /\ currpid' = currpid /\ kctx' = kctx /\ uctx' = uctx
    BY <1>5 DEF Ended, Gone, allVars, sysVars, vars, procVars
  <2>2. \A p \in Workers : HaltingOK(p) => HaltingOK(p)'
    BY <2>1 DEF HaltingOK, FreeBelow, Op
  <2>3. \A p \in Workers : Starter(p)' <=> Starter(p)
    BY <2>1 DEF Starter
  <2> HIDE DEF HaltingOK, Starter
  <2> QED BY <2>1, <2>2, <2>3 DEF CodeInv
<1> QED BY <1>1, <1>2, <1>3, <1>4, <1>5 DEF SystemNext

(* Only a kill of its own frees the process that runs.                     *)
LEMMA OwnKill ==
    ASSUME SysInv, CodeInv, [SystemNext]_allVars,
           Reaches("halt"), pstate'[currpid] = "PRFREE"
    PROVE  /\ currpid # NULLPROC /\ Current.n = currpid
           /\ Kill(currpid)
<1>1. currpid \in Procs /\ pstate[currpid] # "PRFREE"
  BY SchedInvParts, CodeTypes DEF SysInv, IInv, SchedOKNow, SchedOK, CurrentIn
<1>2. ~FreeKept
  BY <1>1 DEF FreeKept
<1>3. /\ phase = "up" /\ code[currpid] # <<>> /\ Current.op = "halt"
      /\ pstate' # pstate
  BY <1>2, SameFree DEF Reaches
<1>4. HaltStmt
  <2>1. ~(ClockSignal \/ TypeLine \/ SystemStep \/ kill_XINU \/ Ended)
    BY <1>2, OutsideFree DEF SysInv
  <2>2. ~(\/ WriteStmt \/ SuspendStmt \/ ResumeStmt \/ SemStmt \/ SCreateStmt
          \/ MsgStmt \/ SleepStmt \/ YylexStmt \/ CommandStmt \/ NullLoop)
    BY <1>2, StatementFree DEF SysInv
  <2>3. ~CreateStmt /\ ~KillStmt /\ ~userret
    BY <1>3 DEF CreateStmt, KillStmt, userret, Reaches
  <2>4. ~Boot
    BY <1>3 DEF Boot, clkinit, ttyinit, nulluserCreate, nulluserResume
  <2>5. ~UNCHANGED allVars
    BY <1>3 DEF allVars, vars, procVars
  <2> QED BY <2>1, <2>2, <2>3, <2>4, <2>5 DEF SystemNext, Statement
<1>5. Kill(Current.n)
  BY <1>3, <1>4 DEF HaltStmt, KillThen, vars, procVars
<1>6. Current.n \in Int
  BY <1>3, CurrentTypes DEF SysInv
<1>7. /\ currpid # NULLPROC
      /\ \A p \in Procs \ {Current.n} : pstate'[p] = "PRFREE" <=> pstate[p] = "PRFREE"
  BY <1>5, <1>6, KillFree DEF SysInv
<1>8. Current.n = currpid
  BY <1>1, <1>7
<1> QED BY <1>5, <1>7, <1>8

(* halt_system kills in the order of the pids and stops at its own: when   *)
(* it gets there the lower ones are free, although the clock, the console  *)
(* and the processes not yet killed come between any two of its kills, and *)
(* although SIGTERM may start it again while it is at it: nobody is left   *)
(* who creates a process.                                                  *)
THEOREM HaltAlwaysKillsLower == SystemSpec => HaltKillsLower
<1> DEFINE Step == \A p \in Procs :
                      /\ currpid = p /\ Reaches("halt") /\ pstate'[p] = "PRFREE"
                      => \A o \in 1 .. p : pstate'[o] = "PRFREE"
<1>1. SysInit => SysInv /\ CodeInv
  BY SysInitBoots, SysInitIInv, NoPrograms DEF SysInv, SysInit
<1>2. SysInv /\ [SystemNext]_allVars => SysInv'
  BY SysInvKept
<1>3. SysInv /\ CodeInv /\ [SystemNext]_allVars => CodeInv'
  BY CodeInvKept
<1>4. SysInv /\ CodeInv /\ [SystemNext]_allVars => Step
  <2> SUFFICES ASSUME SysInv, CodeInv, [SystemNext]_allVars, NEW p \in Procs,
                      currpid = p, Reaches("halt"), pstate'[p] = "PRFREE",
                      NEW o \in 1 .. p
               PROVE  pstate'[o] = "PRFREE"
    OBVIOUS
  <2>1. p # NULLPROC /\ Current.n = p /\ Kill(p) /\ p \in Int
    BY OwnKill, ArgumentTypes
  <2>2. \A i \in Procs \ {p} : pstate'[i] = "PRFREE" <=> pstate[i] = "PRFREE"
    BY <2>1, KillFree DEF SysInv
  <2>3. o \in Workers /\ p \in Workers /\ p >= 1 /\ (o = p \/ o < p)
    BY <2>1, ConstFacts DEF Workers, Procs, NULLPROC
  <2>4. AtHalt(code[p])
    BY <2>1, <2>3 DEF Reaches, AtHalt, Halts, Current
  <2>5. FreeBelow(p)
    BY <2>1, <2>3, <2>4 DEF CodeInv, HaltingOK, Current
  <2>6. CASE o < p
    <3>1. pstate[o] = "PRFREE"
      BY <2>3, <2>5, <2>6 DEF FreeBelow
    <3> QED BY <2>2, <2>3, <2>6, <3>1 DEF Workers
  <2> QED BY <2>3, <2>6
<1> HIDE DEF Step
<1>5. SystemSpec => [][Step]_allVars
  BY <1>1, <1>2, <1>3, <1>4, PTL DEF SystemSpec
<1> QED BY <1>5 DEF HaltKillsLower, Step

-----------------------------------------------------------------------------
(* The order in which the first programs meet.  First what they say at     *)
(* each place, and what is left of a program from a place on.              *)

From(c, n) == SubSeq(c, n, Len(c))

LEMMA FromFacts ==
    ASSUME NEW S, NEW c \in Seq(S), NEW n \in 1 .. Len(c) + 1
    PROVE  /\ From(c, n) \in Seq(S) /\ Len(From(c, n)) = Len(c) - n + 1
           /\ \A i \in 1 .. Len(c) - n + 1 : From(c, n)[i] = c[n + i - 1]
           /\ From(c, n) = <<>> <=> n = Len(c) + 1
           /\ n <= Len(c) => Head(From(c, n)) = c[n] /\ Tail(From(c, n)) = From(c, n + 1)
           /\ From(c, 1) = c
<1> DEFINE L == Len(c)
<1>0. L \in Nat /\ n \in Nat
  OBVIOUS
<1>1. ASSUME NEW m \in 1 .. L + 1
      PROVE  /\ From(c, m) \in Seq(S) /\ Len(From(c, m)) = L - m + 1
             /\ \A i \in 1 .. L - m + 1 : From(c, m)[i] = c[m + i - 1]
  BY <1>0, SubSeqProperties DEF From
<1>2. /\ From(c, n) \in Seq(S) /\ Len(From(c, n)) = L - n + 1
      /\ \A i \in 1 .. L - n + 1 : From(c, n)[i] = c[n + i - 1]
  BY <1>1
<1>3. From(c, n) = <<>> <=> n = L + 1
  <2>1. From(c, n) = <<>> <=> Len(From(c, n)) = 0
    BY <1>2, EmptySeq
  <2> QED BY <1>0, <1>2, <2>1
<1>4. ASSUME n <= L
      PROVE  Head(From(c, n)) = c[n] /\ Tail(From(c, n)) = From(c, n + 1)
  BY <1>0, <1>4, HeadTailOfSubSeq DEF From
<1>5. From(c, 1) = c
  BY SubSeqFull DEF From
<1> QED BY <1>2, <1>3, <1>4, <1>5

LEMMA TwoWrites ==
    /\ Writes(2) \in Seq(Statements) /\ Len(Writes(2)) = 2
    /\ Writes(2)[1] = Write /\ Writes(2)[2] = Write
BY StmtTypes, WritesBuilt DEF Writes

LEMMA ConcatPlaces ==
    ASSUME NEW s \in Seq(Statements), NEW t \in Seq(Statements)
    PROVE  /\ s \o t \in Seq(Statements) /\ Len(s \o t) = Len(s) + Len(t)
           /\ \A n \in 1 .. Len(s) : (s \o t)[n] = s[n]
           /\ \A n \in 1 .. Len(t) : (s \o t)[Len(s) + n] = t[n]
<1>1. /\ s \o t \in Seq(Statements) /\ Len(s \o t) = Len(s) + Len(t)
      /\ \A n \in 1 .. Len(s) + Len(t) :
            (s \o t)[n] = IF n <= Len(s) THEN s[n] ELSE t[n - Len(s)]
  BY ConcatProperties
<1>2. Len(s) \in Nat /\ Len(t) \in Nat
  OBVIOUS
<1>3. ASSUME NEW n \in 1 .. Len(t) PROVE (s \o t)[Len(s) + n] = t[n]
  <2>1. Len(s) + n \in 1 .. Len(s) + Len(t) /\ ~(Len(s) + n <= Len(s)) /\ (Len(s) + n) - Len(s) = n
    BY <1>2
  <2> QED BY <1>1, <2>1
<1> QED BY <1>1, <1>2, <1>3

LEMMA FuncAText ==
    ASSUME NEW m \in Int
    PROVE  /\ funcA(m) \in Seq(Statements) /\ Len(funcA(m)) = 7
           /\ \A n \in {1, 2, 4, 6, 7} : funcA(m)[n] = Write
           /\ funcA(m)[3] = Stmt("wait", m)
           /\ funcA(m)[5] = Stmt("receive", 0)
<1> DEFINE w == Writes(2)
           s == <<Stmt("wait", m), Write, Stmt("receive", 0)>>
           ws == w \o s
<1>1. w \in Seq(Statements) /\ Len(w) = 2 /\ w[1] = Write /\ w[2] = Write
  BY TwoWrites
<1>2. /\ s \in Seq(Statements) /\ Len(s) = 3
      /\ s[1] = Stmt("wait", m) /\ s[2] = Write /\ s[3] = Stmt("receive", 0)
  BY StmtTypes, WritesBuilt DEF OtherOps
<1> HIDE DEF w, s
<1>3. /\ ws \in Seq(Statements) /\ Len(ws) = 5
      /\ ws[1] = w[1] /\ ws[2] = w[2]
      /\ ws[3] = s[1] /\ ws[4] = s[2] /\ ws[5] = s[3]
  <2>1. /\ ws \in Seq(Statements) /\ Len(ws) = Len(w) + Len(s)
        /\ \A n \in 1 .. Len(w) : ws[n] = w[n]
        /\ \A n \in 1 .. Len(s) : ws[Len(w) + n] = s[n]
    BY <1>1, <1>2, ConcatPlaces
  <2> HIDE DEF ws
  <2> QED BY <1>1, <1>2, <2>1
<1> HIDE DEF ws
<1>4. /\ ws \o w \in Seq(Statements) /\ Len(ws \o w) = 7
      /\ (ws \o w)[1] = ws[1] /\ (ws \o w)[2] = ws[2] /\ (ws \o w)[3] = ws[3]
      /\ (ws \o w)[4] = ws[4] /\ (ws \o w)[5] = ws[5]
      /\ (ws \o w)[6] = w[1] /\ (ws \o w)[7] = w[2]
  <2> DEFINE f == ws \o w
  <2>1. /\ f \in Seq(Statements) /\ Len(f) = Len(ws) + Len(w)
        /\ \A n \in 1 .. Len(ws) : f[n] = ws[n]
        /\ \A n \in 1 .. Len(w) : f[Len(ws) + n] = w[n]
    BY <1>1, <1>3, ConcatPlaces
  <2> HIDE DEF f
  <2>2. /\ f \in Seq(Statements) /\ Len(f) = 7
        /\ f[1] = ws[1] /\ f[2] = ws[2] /\ f[3] = ws[3] /\ f[4] = ws[4] /\ f[5] = ws[5]
        /\ f[6] = w[1] /\ f[7] = w[2]
    BY <1>1, <1>3, <2>1
  <2> QED BY <2>2 DEF f
<1>5. funcA(m) = ws \o w
  <2>1. funcA(m) = w \o s \o w
    BY DEF funcA, w, s
  <2> QED BY <2>1 DEF ws
<1> QED BY <1>1, <1>2, <1>3, <1>4, <1>5

LEMMA FuncBText ==
    ASSUME NEW m \in Int, NEW i \in Int
    PROVE  /\ funcB(m, i) \in Seq(Statements) /\ Len(funcB(m, i)) = 12
           /\ \A n \in {1, 2, 4, 6, 8, 10, 12} : funcB(m, i)[n] = Write
           /\ \A n \in {3, 7, 11} : funcB(m, i)[n] = Stmt("sleep", 2)
           /\ funcB(m, i)[5] = Stmt("signal", m)
           /\ funcB(m, i)[9] = Stmt("send", i)
<1> DEFINE w == Writes(2)
           s == <<Stmt("sleep", 2), Write, Stmt("signal", m),
                  Write, Stmt("sleep", 2), Write, Stmt("send", i),
                  Write, Stmt("sleep", 2), Write>>
           f == w \o s
<1>1. w \in Seq(Statements) /\ Len(w) = 2 /\ w[1] = Write /\ w[2] = Write
  BY TwoWrites
<1>2. s \in Seq(Statements) /\ Len(s) = 10
  BY StmtTypes, WritesBuilt DEF OtherOps
<1>3. /\ s[1] = Stmt("sleep", 2) /\ s[2] = Write /\ s[3] = Stmt("signal", m)
      /\ s[4] = Write /\ s[5] = Stmt("sleep", 2) /\ s[6] = Write
      /\ s[7] = Stmt("send", i) /\ s[8] = Write /\ s[9] = Stmt("sleep", 2)
      /\ s[10] = Write
  OBVIOUS
<1>4. funcB(m, i) = f
  BY DEF funcB
<1> HIDE DEF w, s
<1>5. /\ f \in Seq(Statements) /\ Len(f) = Len(w) + Len(s)
      /\ \A n \in 1 .. Len(w) : f[n] = w[n]
      /\ \A n \in 1 .. Len(s) : f[Len(w) + n] = s[n]
  BY <1>1, <1>2, ConcatPlaces
<1> HIDE DEF f
<1>6. /\ f[1] = w[1] /\ f[2] = w[2] /\ f[3] = s[1] /\ f[4] = s[2] /\ f[5] = s[3]
      /\ f[6] = s[4] /\ f[7] = s[5] /\ f[8] = s[6] /\ f[9] = s[7] /\ f[10] = s[8]
      /\ f[11] = s[9] /\ f[12] = s[10]
  BY <1>1, <1>2, <1>5
<1> QED BY <1>1, <1>2, <1>3, <1>4, <1>5, <1>6

LEMMA FuncCText ==
    ASSUME NEW i \in Int, NEW m \in Int
    PROVE  /\ funcC(i, m) \in Seq(Statements) /\ Len(funcC(i, m)) = 6
           /\ \A n \in {1, 2, 4, 6} : funcC(i, m)[n] = Write
           /\ funcC(i, m)[3] = Stmt("sleep", m)
           /\ funcC(i, m)[5] = Stmt("resume", i)
<1> DEFINE w == Writes(2)
           s == <<Stmt("sleep", m), Write, Stmt("resume", i), Write>>
           f == w \o s
<1>1. w \in Seq(Statements) /\ Len(w) = 2 /\ w[1] = Write /\ w[2] = Write
  BY TwoWrites
<1>2. /\ s \in Seq(Statements) /\ Len(s) = 4
      /\ s[1] = Stmt("sleep", m) /\ s[2] = Write /\ s[3] = Stmt("resume", i) /\ s[4] = Write
  BY StmtTypes, WritesBuilt DEF OtherOps
<1>3. funcC(i, m) = f
  BY DEF funcC
<1> HIDE DEF w, s
<1>4. /\ f \in Seq(Statements) /\ Len(f) = Len(w) + Len(s)
      /\ \A n \in 1 .. Len(w) : f[n] = w[n]
      /\ \A n \in 1 .. Len(s) : f[Len(w) + n] = s[n]
  BY <1>1, <1>2, ConcatPlaces
<1> HIDE DEF f
<1>5. /\ f[1] = w[1] /\ f[2] = w[2] /\ f[3] = s[1] /\ f[4] = s[2] /\ f[5] = s[3]
      /\ f[6] = s[4]
  BY <1>1, <1>2, <1>4
<1> QED BY <1>1, <1>2, <1>3, <1>4, <1>5

LEMMA InitialText ==
    LET f == initial_process
    IN  /\ f \in Seq(Statements) /\ Len(f) = 15
        /\ \A n \in {1, 7, 12, 14, 15} : f[n] = Write
        /\ f[2] = Stmt("screate", 0)
        /\ f[3] = OnNamed("create", "A") /\ f[4] = OnNamed("create", "B")
        /\ f[5] = OnNamed("create", "C") /\ f[6] = OnNamed("create", "CLI")
        /\ f[8] = OnNamed("resume", "A") /\ f[9] = OnNamed("resume", "B")
        /\ f[10] = OnNamed("resume", "C") /\ f[11] = OnNamed("resume", "CLI")
        /\ f[13] = OnNamed("suspend", "INIT")
<1> DEFINE w == Writes(2)
           s == <<Write, CreateSem, OnNamed("create", "A"), OnNamed("create", "B"),
                  OnNamed("create", "C"), OnNamed("create", "CLI"), Write,
                  OnNamed("resume", "A"), OnNamed("resume", "B"), OnNamed("resume", "C"),
                  OnNamed("resume", "CLI"), Write, OnNamed("suspend", "INIT")>>
           f == s \o w
<1>1. w \in Seq(Statements) /\ Len(w) = 2 /\ w[1] = Write /\ w[2] = Write
  BY TwoWrites
<1>2. s \in Seq(Statements) /\ Len(s) = 13
  <2>1. \A op \in QuietOps : \A name \in Names : OnNamed(op, name) \in Statements
    BY StmtTypes DEF Builds
  <2>2. \A name \in {"A", "B", "C", "CLI"} : OnNamed("resume", name) \in Statements
    BY <2>1 DEF QuietOps, OtherOps, Names
  <2>3. OnNamed("suspend", "INIT") \in Statements
    BY <2>1 DEF QuietOps, OtherOps, Names
  <2>4. \A name \in {"A", "B", "C", "CLI"} : OnNamed("create", name) \in Statements
    BY StmtTypes DEF Launched
  <2>5. CreateSem \in Statements /\ Write \in Statements
    BY StmtTypes, WritesBuilt DEF OtherOps, CreateSem
  <2> QED BY <2>2, <2>3, <2>4, <2>5
<1>3. /\ s[1] = Write /\ s[2] = Stmt("screate", 0)
      /\ s[3] = OnNamed("create", "A") /\ s[4] = OnNamed("create", "B")
      /\ s[5] = OnNamed("create", "C") /\ s[6] = OnNamed("create", "CLI")
      /\ s[7] = Write
      /\ s[8] = OnNamed("resume", "A") /\ s[9] = OnNamed("resume", "B")
      /\ s[10] = OnNamed("resume", "C") /\ s[11] = OnNamed("resume", "CLI")
      /\ s[12] = Write /\ s[13] = OnNamed("suspend", "INIT")
  BY DEF CreateSem
<1>4. initial_process = f
  BY DEF initial_process
<1> HIDE DEF w, s
<1>5. /\ f \in Seq(Statements) /\ Len(f) = Len(s) + Len(w)
      /\ \A n \in 1 .. Len(s) : f[n] = s[n]
      /\ \A n \in 1 .. Len(w) : f[Len(s) + n] = w[n]
  BY <1>1, <1>2, ConcatPlaces
<1> HIDE DEF f
<1>6. (\A n \in 1 .. 13 : f[n] = s[n]) /\ f[14] = Write /\ f[15] = Write
  BY <1>1, <1>2, <1>5
<1> QED BY <1>1, <1>2, <1>3, <1>4, <1>5, <1>6

-----------------------------------------------------------------------------
(* What no step changes but a few: the processes that wait, for a          *)
(* semaphore, a message or a resume, go on waiting (but w), nobody gets a  *)
(* message (but m), no semaphore counts up (but s), and the loops over the *)
(* waiters of a semaphore are not entered.                                 *)

Parked == {"PRWAIT", "PRRECV", "PRSUSP"}
SemLoops == {"sdelete", "sreset", "signaln"}

ParkedKept(w) == \A p \in Procs \ {w} : pstate[p] \in Parked => pstate'[p] = pstate[p]

Calm(w, s, m) ==
    /\ \A p \in Procs \ {w} :
          pstate[p] \in Parked => pstate'[p] = pstate[p] /\ psem'[p] = psem[p]
    /\ \A p \in Procs \ {m} : phasmsg'[p] => phasmsg[p]
    /\ \A t \in Sems \ {s} : semcnt'[t] <= semcnt[t]
    /\ sstate' = sstate /\ nextsem' = nextsem
    /\ \A p \in Procs : kctx'[p].op \in SemLoops => kctx[p].op \in SemLoops

Quiescent == Calm(NULLPROC, NSEM, NULLPROC)

LEMMA YieldParked ==
    ASSUME IInv, NEW left \in {preempt, 0}, Resched(pstate, rdyq, qkey, pprio, left)
    PROVE  ParkedKept(NULLPROC)
<1>1. /\ SchedOKNow /\ pprio \in [Procs -> Int] /\ preempt \in -1 .. QUANTUM
  BY SchedInvParts, PprioInt, SchedTypes DEF IInv
<1>2. left \in -1 .. QUANTUM
  BY <1>1, ConstFacts
<1>3. \A p \in Procs : Kept(p)
  BY <1>1, <1>2, YieldStep
<1> QED BY <1>3 DEF Kept, ParkedKept, Parked, Runnable

LEMMA ReadyParked ==
    ASSUME IInv, NEW pid \in Procs, pstate[pid] \in Idle,
           Ready(pid) \/ ReadyNoResched(pid)
    PROVE  /\ ParkedKept(pid)
           /\ pstate[pid] = "PRSLEEP" => ParkedKept(NULLPROC)
<1>1. SchedOKNow /\ pprio \in [Procs -> Int] /\ pstate[pid] \notin Runnable
  BY SchedInvParts, PprioInt DEF IInv, Idle, Runnable
<1>2. \A p \in Procs \ {pid} : Kept(p)
  BY <1>1, ReadyStep, ReadyNoReschedStep
<1>3. \A p \in Procs \ {pid} : pstate[p] \in Parked => pstate'[p] = pstate[p]
  BY <1>2 DEF Kept, Parked, Runnable
<1> QED BY <1>3 DEF ParkedKept, Parked

LEMMA BlockParked ==
    ASSUME IInv, currpid # NULLPROC, NEW s \in Idle \cup {"PRFREE"}, NEW k,
           Resched([pstate EXCEPT ![currpid] = s], rdyq, k, pprio, preempt)
    PROVE  pstate'[currpid] = s /\ ParkedKept(NULLPROC)
<1> DEFINE ps == [pstate EXCEPT ![currpid] = s]
<1>1. /\ pstate \in [Procs -> States] /\ rdyq \in Seq(Procs)
      /\ Holds(rdyq, ReadyIn(pstate)) /\ pstate[NULLPROC] \in Runnable
      /\ CurrentIn(pstate) = {currpid} /\ currpid \in Procs
  BY SchedInvParts DEF IInv, SchedOKNow, SchedOK
<1>2. NULLPROC \in ReadyIn(pstate)
  BY <1>1, ConstFacts DEF ReadyIn, CurrentIn, Runnable
<1>3. Last(rdyq) \in ReadyIn(pstate)
  BY <1>1, <1>2, LastFrontHolds
<1>4. ps[currpid] = s /\ s # "PRCURR"
  BY <1>1 DEF Idle
<1>5. pstate' = [ps EXCEPT ![Last(rdyq)] = "PRCURR"]
  BY <1>4 DEF Resched, KeepsCpu, SwitchToLast
<1>6. Last(rdyq) # currpid /\ pstate[currpid] = "PRCURR"
  BY <1>1, <1>3 DEF ReadyIn, CurrentIn
<1>7. pstate'[currpid] = s
  BY <1>1, <1>4, <1>5, <1>6
<1> QED BY <1>1, <1>3, <1>5, <1>6, <1>7 DEF ParkedKept, Parked, ReadyIn

LEMMA SameParked == UNCHANGED pstate => ParkedKept(NULLPROC)
BY DEF ParkedKept

(* Nobody waits in the process that runs, and the null process never does. *)
LEMMA NeverParked ==
    ASSUME IInv
    PROVE  /\ currpid \in Procs /\ pstate[currpid] = "PRCURR"
           /\ pstate[NULLPROC] \notin Parked /\ NULLPROC \in Procs
           /\ semcnt \in [Sems -> Int]
           /\ \A p \in Procs : psem[p] \in Sems
           /\ sstate \in [Sems -> {"SFREE", "SUSED"}] /\ nextsem \in Sems
BY SchedInvParts, ConstFacts
   DEF IInv, SchedOKNow, SchedOK, CurrentIn, Runnable, Parked, SemInv, SemTypeOK

(* Steps that leave the semaphores and the messages alone.                 *)
LEMMA CalmFrame ==
    ASSUME IInv, NEW w, ParkedKept(w), UNCHANGED semVars,
           \A p \in Procs : phasmsg'[p] => phasmsg[p],
           \A p \in Procs : kctx'[p].op \in SemLoops => kctx[p].op \in SemLoops
    PROVE  Calm(w, NSEM, NULLPROC)
<1>1. semcnt' = semcnt /\ sstate' = sstate /\ nextsem' = nextsem /\ psem' = psem
  BY DEF semVars
<1>2. \A t \in Sems : semcnt'[t] <= semcnt[t]
  BY <1>1, NeverParked
<1> QED BY <1>1, <1>2 DEF Calm, ParkedKept

LEMMA LoopsFrame ==
    ASSUME IInv, \/ kctx' = kctx
                 \/ Leave
                 \/ \E op, a, n : op \notin SemLoops /\ Enter(op, a, n)
    PROVE  \A p \in Procs : kctx'[p].op \in SemLoops => kctx[p].op \in SemLoops
<1>1. kctx \in [Procs -> [op : KernelOps, arg : Int, n : Int]]
  BY SchedInvParts DEF IInv, TabOK
<1>2. CASE Leave
  BY <1>1, <1>2 DEF Leave, OutOfKernel, InKernel, SemLoops
<1>3. ASSUME NEW op, NEW a, NEW n, op \notin SemLoops, Enter(op, a, n)
      PROVE  \A p \in Procs : kctx'[p].op \in SemLoops => kctx[p].op \in SemLoops
  <2>1. kctx' = [kctx EXCEPT ![currpid] = InKernel(op, a, n)] /\ InKernel(op, a, n).op = op
    BY <1>3 DEF Enter, InKernel
  <2> QED BY <1>1, <1>3, <2>1
<1> QED BY <1>2, <1>3

LEMMA ClkStepCalm ==
    ASSUME IInv, ClkKernelStep, UNCHANGED <<semVars, msgVars>>
    PROVE  Quiescent
<1>1. ParkedKept(NULLPROC)
  <2>1. CASE InsertdWalk \/ StrtClkWalk \/ StrtClkWalkDone
    BY <2>1, SameParked DEF InsertdWalk, StrtClkWalk, StrtClkWalkDone, schedVars
  <2>2. CASE WakeupEnd \/ StrtClkEnd \/ ClkIntEnd
    BY <2>2, YieldParked, SameParked DEF WakeupEnd, StrtClkEnd, ClkIntEnd, Yield, schedVars
  <2>3. CASE InsertdEnd
    <3>1. currpid # NULLPROC
      BY <2>3, SectionFacts DEF InsertdEnd, IInv, ClkInv, ClkSection
    <3>2. \E k : Resched([pstate EXCEPT ![currpid] = "PRSLEEP"], rdyq, k, pprio, preempt)
      BY <2>3 DEF InsertdEnd
    <3> QED BY <3>1, <3>2, BlockParked DEF Idle
  <2>4. CASE WakeupFirst
    <3>1. clockq # <<>> /\ ReadyNoResched(Head(clockq))
      BY <2>4 DEF WakeupFirst
    <3>2. Head(clockq) \in InState("PRSLEEP")
      BY <3>1, SchedTypes, HeadTailHolds
    <3> QED BY <3>1, <3>2, ReadyParked DEF InState, Idle
  <2> QED BY <2>1, <2>2, <2>3, <2>4 DEF ClkKernelStep
<1>2. \/ kctx' = kctx
      \/ Leave
      \/ \E op, a, n : op \notin SemLoops /\ Enter(op, a, n)
  <2>1. CASE InsertdWalk \/ StrtClkWalk \/ StrtClkWalkDone \/ WakeupEnd
    BY <2>1 DEF InsertdWalk, StrtClkWalk, StrtClkWalkDone, WakeupEnd, SemLoops
  <2>2. CASE InsertdEnd \/ ClkIntEnd \/ StrtClkEnd \/ WakeupFirst
    BY <2>2 DEF InsertdEnd, ClkIntEnd, StrtClkEnd, WakeupFirst
  <2> QED BY <2>1, <2>2 DEF ClkKernelStep
<1>3. \A p \in Procs : phasmsg'[p] => phasmsg[p]
  BY DEF msgVars
<1> QED BY <1>1, <1>2, <1>3, CalmFrame, LoopsFrame DEF Quiescent

(* What goes on in the kernel, and the clock.                              *)
LEMMA OutsideCalm ==
    ASSUME IInv, \A p \in Procs : kctx[p].op \notin SemLoops, ClockSignal \/ SystemStep
    PROVE  Quiescent
<1>1. CASE ClockSignal
  <2>1. ClkInt /\ UNCHANGED <<semVars, msgVars>> /\ pstate' = pstate
    BY <1>1 DEF ClockSignal, ClockInterrupt, ClkInt
  <2>2. kctx' = kctx \/ \E op, a, n : op \notin SemLoops /\ Enter(op, a, n)
    BY <2>1 DEF ClkInt, SemLoops
  <2>3. \A p \in Procs : phasmsg'[p] => phasmsg[p]
    BY <2>1 DEF msgVars
  <2> QED BY <2>1, <2>2, <2>3, SameParked, CalmFrame, LoopsFrame DEF Quiescent
<1>2. CASE SystemStep
  <2>1. CASE UserStep
    <3>1. UNCHANGED <<semVars, msgVars>> /\ pstate' = pstate
      BY <2>1 DEF UserStep, SleepNext, StopClkStore, schedVars
    <3>2. kctx' = kctx \/ \E op, a, n : op \notin SemLoops /\ Enter(op, a, n)
      BY <2>1 DEF UserStep, SleepNext, StopClkStore, EnterSleep10, SemLoops
    <3>3. \A p \in Procs : phasmsg'[p] => phasmsg[p]
      BY <3>1 DEF msgVars
    <3> QED BY <3>1, <3>2, <3>3, SameParked, CalmFrame, LoopsFrame DEF Quiescent
  <2>2. CASE ReceiveEnd /\ UNCHANGED <<semVars, clkVars>>
    <3>1. UNCHANGED semVars /\ pstate' = pstate /\ Leave
      BY <2>2 DEF ReceiveEnd, schedVars
    <3>2. \A p \in Procs : phasmsg'[p] => phasmsg[p]
      <4>1. phasmsg \in [Procs -> BOOLEAN] /\ phasmsg' = [phasmsg EXCEPT ![currpid] = FALSE]
        BY <2>2 DEF ReceiveEnd, IInv, MsgTypeOK
      <4> QED BY <4>1
    <3> QED BY <3>1, <3>2, SameParked, CalmFrame, LoopsFrame DEF Quiescent
  <2>3. ~SemKernelStep
    <3>1. Op \notin SemLoops
      BY NeverParked DEF Op
    <3> QED BY <3>1 DEF SemKernelStep, ReleaseWaiter, SDeleteEnd, SResetEnd, SignalNStep,
                        SignalNEnd, At, SemLoops
  <2>4. CASE ClkKernelStep /\ UNCHANGED <<semVars, msgVars>>
    BY <2>4, ClkStepCalm
  <2> QED BY <1>2, <2>1, <2>2, <2>3, <2>4 DEF SystemStep, KernelStep
<1> QED BY <1>1, <1>2

-----------------------------------------------------------------------------
(* What the calls of the first programs do to those that wait.             *)

Fails == exited' = TRUE /\ pstate' = pstate

LEMMA StutterLoops == kctx' = kctx =>
    \A p \in Procs : kctx'[p].op \in SemLoops => kctx[p].op \in SemLoops
OBVIOUS

LEMMA WriteSleepCalm ==
    ASSUME IInv, WriteStmt \/ SleepStmt
    PROVE  Quiescent
<1>1. /\ UNCHANGED <<semVars, msgVars>> /\ kctx' = kctx
      /\ Yield \/ pstate' = pstate
  BY DEF WriteStmt, SleepStmt, Sleep, procVars, schedVars
<1>2. ParkedKept(NULLPROC)
  BY <1>1, YieldParked, SameParked DEF Yield
<1>3. \A p \in Procs : phasmsg'[p] => phasmsg[p]
  BY <1>1 DEF msgVars
<1> QED BY <1>1, <1>2, <1>3, CalmFrame, StutterLoops DEF Quiescent

LEMMA SuspendSelfCalm ==
    ASSUME IInv, Suspend(currpid), UNCHANGED <<semVars, msgVars>>
    PROVE  Quiescent /\ pstate'[currpid] = "PRSUSP"
<1>1. pstate[currpid] = "PRCURR" /\ currpid # NULLPROC /\ currpid \in Procs
  BY CallFacts DEF Suspend
<1>2. Block("PRSUSP") /\ kctx' = kctx
  BY <1>1 DEF Suspend
<1>3. ParkedKept(NULLPROC) /\ pstate'[currpid] = "PRSUSP"
  BY <1>1, <1>2, BlockParked DEF Block, Idle
<1>4. \A p \in Procs : phasmsg'[p] => phasmsg[p]
  BY DEF msgVars
<1> QED BY <1>2, <1>3, <1>4, CalmFrame, StutterLoops DEF Quiescent

LEMMA ResumeCalm ==
    ASSUME IInv, NEW x \in Int, Resume(x), UNCHANGED <<semVars, msgVars>>
    PROVE  \/ Fails
           \/ x \in Procs /\ pstate[x] = "PRSUSP" /\ Calm(x, NSEM, NULLPROC)
<1>1. CASE ~Suspended(x)
  BY <1>1 DEF Resume, HandleError, Fails
<1>2. CASE Suspended(x)
  <2>1. x \in Procs /\ pstate[x] = "PRSUSP" /\ Ready(x) /\ kctx' = kctx
    BY <1>2, ArgumentTypes DEF Resume, Suspended
  <2>2. ParkedKept(x)
    BY <2>1, ReadyParked DEF Idle
  <2>3. \A p \in Procs : phasmsg'[p] => phasmsg[p]
    BY DEF msgVars
  <2> QED BY <2>1, <2>2, <2>3, CalmFrame, StutterLoops
<1> QED BY <1>1, <1>2

LEMMA ReceiveCalm ==
    ASSUME IInv, Receive, UNCHANGED semVars
    PROVE  Quiescent /\ (~phasmsg[currpid] => pstate'[currpid] = "PRRECV")
<1>1. /\ currpid # NULLPROC /\ Enter("receive", 0, 0) /\ UNCHANGED msgVars
      /\ \/ phasmsg[currpid] /\ pstate' = pstate
         \/ ~phasmsg[currpid] /\ Block("PRRECV")
  BY DEF Receive, Calling, schedVars
<1>2. ParkedKept(NULLPROC) /\ (~phasmsg[currpid] => pstate'[currpid] = "PRRECV")
  BY <1>1, BlockParked, SameParked DEF Block, Idle
<1>3. \A p \in Procs : kctx'[p].op \in SemLoops => kctx[p].op \in SemLoops
  BY <1>1, LoopsFrame DEF SemLoops
<1>4. \A p \in Procs : phasmsg'[p] => phasmsg[p]
  BY <1>1 DEF msgVars
<1> QED BY <1>2, <1>3, <1>4, CalmFrame DEF Quiescent

LEMMA SendCalm ==
    ASSUME IInv, NEW x \in Int, NEW msg, Send(x, msg), UNCHANGED semVars
    PROVE  Calm(x, NSEM, x)
<1>1. /\ x \in Procs /\ kctx' = kctx
      /\ phasmsg' = [phasmsg EXCEPT ![x] = TRUE]
      /\ \/ pstate[x] = "PRRECV" /\ Ready(x)
         \/ pstate' = pstate
  BY ArgumentTypes DEF Send, schedVars
<1>2. ParkedKept(x)
  BY <1>1, ReadyParked DEF Idle, ParkedKept
<1>3. \A p \in Procs \ {x} : phasmsg'[p] => phasmsg[p]
  <2>1. phasmsg \in [Procs -> BOOLEAN]
    BY DEF IInv, MsgTypeOK
  <2> QED BY <1>1, <2>1
<1>4. semcnt' = semcnt /\ sstate' = sstate /\ nextsem' = nextsem /\ psem' = psem
  BY DEF semVars
<1>5. \A t \in Sems : semcnt'[t] <= semcnt[t]
  BY <1>4, NeverParked
<1>6. \A p \in Procs : kctx'[p].op \in SemLoops => kctx[p].op \in SemLoops
  BY <1>1, StutterLoops
<1> QED BY <1>2, <1>3, <1>4, <1>5, <1>6 DEF Calm, ParkedKept

LEMMA WaitCalm ==
    ASSUME IInv, NEW s \in Sems, Wait(s), UNCHANGED msgVars
    PROVE  \/ Fails
           \/ /\ Quiescent
              /\ semcnt[s] <= 0 => pstate'[currpid] = "PRWAIT" /\ psem'[currpid] = s
<1>0. /\ currpid # NULLPROC /\ currpid \in Procs /\ pstate[currpid] = "PRCURR"
      /\ psem \in [Procs -> Sems]
  BY CallFacts DEF Wait, IInv, SemInv, SemTypeOK
<1>1. CASE ~SemUsed(s) /\ SemError
  BY <1>1 DEF SemError, HandleError, Fails
<1>2. CASE /\ semcnt' = [semcnt EXCEPT ![s] = @ - 1]
           /\ \/ /\ semcnt'[s] < 0
                 /\ psem' = [psem EXCEPT ![currpid] = s]
                 /\ Block("PRWAIT")
              \/ /\ semcnt'[s] >= 0
                 /\ UNCHANGED <<schedVars, psem>>
           /\ UNCHANGED <<kctx, sstate, nextsem>>
  <2>1. semcnt \in [Sems -> Int]
    BY NeverParked
  <2>2. semcnt'[s] = semcnt[s] - 1 /\ \A t \in Sems \ {NSEM} : semcnt'[t] <= semcnt[t]
    BY <1>2, <2>1
  <2>3. ParkedKept(NULLPROC)
    BY <1>0, <1>2, BlockParked, SameParked DEF Block, Idle, schedVars
  <2>4. \A p \in Procs \ {currpid} : psem'[p] = psem[p]
    BY <1>0, <1>2
  <2>5. \A p \in Procs \ {NULLPROC} :
            pstate[p] \in Parked => pstate'[p] = pstate[p] /\ psem'[p] = psem[p]
    BY <1>0, <2>3, <2>4 DEF ParkedKept, Parked
  <2>6. \A p \in Procs : phasmsg'[p] => phasmsg[p]
    BY DEF msgVars
  <2>7. Quiescent
    BY <1>2, <2>2, <2>5, <2>6, StutterLoops DEF Quiescent, Calm
  <2>8. semcnt[s] <= 0 => pstate'[currpid] = "PRWAIT" /\ psem'[currpid] = s
    <3> SUFFICES ASSUME semcnt[s] <= 0
                 PROVE  pstate'[currpid] = "PRWAIT" /\ psem'[currpid] = s
      OBVIOUS
    <3>1. semcnt'[s] < 0
      BY <2>1, <2>2
    <3>2. Block("PRWAIT") /\ psem' = [psem EXCEPT ![currpid] = s]
      BY <1>2, <2>1, <2>2, <3>1
    <3> QED BY <1>0, <3>2, BlockParked DEF Block, Idle
  <2> QED BY <2>7, <2>8
<1> QED BY <1>1, <1>2 DEF Wait

LEMMA SignalCalm ==
    ASSUME IInv, Interruptible, NEW s \in Sems, SignalBody(s), UNCHANGED msgVars
    PROVE  \/ Fails
           \/ Calm(NULLPROC, s, NULLPROC)
           \/ \E w \in Procs : /\ pstate[w] = "PRWAIT" /\ psem[w] = s
                               /\ Calm(w, s, NULLPROC)
<1> DEFINE w == Head(semq[s])
<1>0. SemInv /\ Op = "none" /\ semcnt \in [Sems -> Int]
  BY OutOfKernelFacts, NeverParked DEF IInv
<1>1. CASE ~SemUsed(s) /\ SemError
  BY <1>1 DEF SemError, HandleError, Fails
<1>2. ASSUME SemUsed(s), semcnt' = [semcnt EXCEPT ![s] = @ + 1],
             UNCHANGED <<kctx, sstate, psem, nextsem>>, NEW x, ParkedKept(x)
      PROVE  Calm(x, s, NULLPROC)
  <2>1. \A t \in Sems \ {s} : semcnt'[t] <= semcnt[t]
    BY <1>0, <1>2
  <2>2. \A p \in Procs : phasmsg'[p] => phasmsg[p]
    BY DEF msgVars
  <2> QED BY <1>2, <2>1, <2>2, StutterLoops DEF Calm, ParkedKept
<1>3. CASE /\ SemUsed(s) /\ semcnt[s] < 0 /\ Ready(w)
           /\ semcnt' = [semcnt EXCEPT ![s] = @ + 1]
           /\ UNCHANGED <<kctx, sstate, psem, nextsem>>
  <2>1. sstate[s] = "SUSED"
    BY <1>0, <1>3, NeverParked DEF SemUsed
  <2>2. semq[s] # <<>>
    BY <1>0, <1>3, <2>1, SomebodyWaits DEF SemDrains
  <2>3. w \in Procs /\ pstate[w] = "PRWAIT" /\ psem[w] = s
    BY <1>0, <2>2, FirstWaiter
  <2> HIDE DEF w
  <2>4. ParkedKept(w)
    BY <1>3, <2>3, ReadyParked DEF Idle
  <2> QED BY <1>2, <1>3, <2>3, <2>4
<1>4. CASE /\ SemUsed(s) /\ UNCHANGED schedVars
           /\ semcnt' = [semcnt EXCEPT ![s] = @ + 1]
           /\ UNCHANGED <<kctx, sstate, psem, nextsem>>
  <2>1. ParkedKept(NULLPROC)
    BY <1>4, SameParked DEF schedVars
  <2> QED BY <1>2, <1>4, <2>1
<1> QED BY <1>1, <1>3, <1>4 DEF SignalBody

(* Which statement it is that the running program makes.                   *)
LEMMA WhichStatement ==
    ASSUME Statement, code[currpid] # <<>>
    PROVE  /\ phase = "up"
           /\ Current.op = "write" => WriteStmt
           /\ Current.op = "sleep" => SleepStmt
           /\ Current.op \in {"wait", "signal"} => SemStmt
           /\ Current.op \in {"receive", "send"} => MsgStmt
           /\ Current.op = "resume" => ResumeStmt
           /\ Current.op = "suspend" => SuspendStmt
           /\ Current.op = "screate" => SCreateStmt
           /\ Current.op = "create" => CreateStmt
           /\ Current.op = "yylex" => YylexStmt
           /\ Current.op = "command" => CommandStmt
<1>1. phase = "up"
  BY StatementIsUp
<1> DEFINE op == Current.op
<1>2. /\ (WriteStmt => op = "write") /\ (SuspendStmt => op = "suspend")
      /\ (ResumeStmt => op = "resume") /\ (SCreateStmt => op = "screate")
      /\ (SleepStmt => op = "sleep") /\ (CreateStmt => op = "create")
      /\ (KillStmt => op = "kill") /\ (YylexStmt => op = "yylex")
  BY DEF WriteStmt, SuspendStmt, ResumeStmt, SCreateStmt, SleepStmt, CreateStmt,
         KillStmt, YylexStmt, Reaches
<1>3. /\ (SemStmt => op \in {"wait", "signal"}) /\ (MsgStmt => op \in {"receive", "send"})
      /\ (CommandStmt => op = "command") /\ (HaltStmt => op = "halt")
      /\ (NullLoop => op = "return")
      /\ ~userret
  BY DEF SemStmt, MsgStmt, CommandStmt, HaltStmt, NullLoop, userret, Reaches
<1> HIDE DEF op
<1>4. \/ WriteStmt \/ SuspendStmt \/ ResumeStmt \/ SemStmt \/ SCreateStmt \/ MsgStmt
      \/ SleepStmt \/ CreateStmt \/ KillStmt \/ YylexStmt \/ CommandStmt \/ HaltStmt
      \/ NullLoop \/ userret
  BY DEF Statement
<1> QED BY <1>1, <1>2, <1>3, <1>4 DEF op

-----------------------------------------------------------------------------
(* The stages of the meeting.  k[r] is the place in its text that r is at, *)
(* and what the others rely on is a relation between the places: while B   *)
(* is not past its signal, A is not past its wait, and waits if it has got *)
(* that far, and so on.  Before initial_process has made a program nothing *)
(* is asked of it, and those it has made stay suspended until it has made  *)
(* the last one, so that A, B and C run only once sem and the pids they    *)
(* were given are known.                                                   *)

Roles == {"INIT", "A", "B", "C"}
Actors == Roles \cup {"CLI"}

Text(r) ==
    CASE r = "INIT" -> initial_process
      [] r = "A"    -> funcA(named["sem"])
      [] r = "B"    -> funcB(named["sem"], named["A"])
      [] r = "C"    -> funcC(named["INIT"], SLEEPTIME)

Length(r) == CASE r = "INIT" -> 15 [] r = "A" -> 7 [] r = "B" -> 12 [] r = "C" -> 6

(* The place in initial_process that has made a.                           *)
MadeAt(a) ==
    CASE a = "INIT" -> 0 [] a = "A" -> 3 [] a = "B" -> 4 [] a = "C" -> 5 [] a = "CLI" -> 6

Made(a, n) == MadeAt(a) < n

CliLeft == {CLI, Prompt, <<Stmt("yylex", 0)>>, <<Stmt("command", 0)>>}
CliReads == code[named["CLI"]] = <<Stmt("command", 0)>>

Stages == {k \in [Roles -> Nat] : \A r \in Roles : k[r] \in 1 .. Length(r) + 1}

Placed(k) ==
    LET i == k["INIT"]
    IN  /\ \A r \in Roles : Made(r, i) => code[named[r]] = From(Text(r), k[r])
        /\ \A r \in Roles : ~Made(r, i) => k[r] = 1
        /\ Made("CLI", i) => code[named["CLI"]] \in CliLeft
        /\ \A p \in Procs : code[p] # <<>> =>
              pstate[p] # "PRFREE" /\ \E a \in Actors : Made(a, i) /\ p = named[a]
        /\ \A a \in Actors : Made(a, i) => named[a] \in Workers
        /\ \A a, b \in Actors :
              Made(a, i) /\ Made(b, i) /\ named[a] = named[b] => a = b
        /\ named["CLI"] # 0 => Made("CLI", i)

(* B has not signalled, has not sent; C has not resumed INIT.              *)
Unsignalled(k) ==
    semcnt[named["sem"]] <= 0
        /\ (k["A"] <= 3 \/ (k["A"] = 4 /\ pstate[named["A"]] = "PRWAIT"))
Unsent(k) ==
    ~phasmsg[named["A"]]
        /\ (k["A"] <= 5 \/ (k["A"] = 6 /\ pstate[named["A"]] = "PRRECV"))
Unresumed(k) ==
    k["INIT"] <= 13 \/ (k["INIT"] = 14 /\ pstate[named["INIT"]] = "PRSUSP")

(* How they stand to each other.  Nobody types, so CLI stays in its first  *)
(* wait for a line.                                                        *)
Meeting(k) ==
    /\ \A p \in Procs : kctx[p].op \notin SemLoops
    /\ semcnt[ISEM] <= 0
    /\ k["INIT"] <= 2 => sstate[ISEM] = "SUSED" /\ sstate[nextsem] = "SFREE"
    /\ k["INIT"] > 2 => named["sem"] \in Sems \ {ISEM}
    /\ k["INIT"] <= 6 =>
          \A a \in Actors \ {"INIT"} : Made(a, k["INIT"]) => pstate[named[a]] = "PRSUSP"
    /\ k["INIT"] > 2 /\ k["B"] <= 5 => Unsignalled(k)
    /\ k["INIT"] > 3 /\ k["B"] <= 9 => Unsent(k)
    /\ k["C"] <= 5 => Unresumed(k)
    /\ k["INIT"] > 6 /\ CliReads =>
          pstate[named["CLI"]] = "PRWAIT" /\ psem[named["CLI"]] = ISEM

Playing(k) ==
    /\ Placed(k) /\ Meeting(k)
    /\ phase \in {"resume", "up"} /\ (phase = "resume" => k["INIT"] = 1)
    /\ ~shutdown

Booted == IF phase \in {"resume", "up"} THEN \E k \in Stages : Playing(k)
          ELSE named["CLI"] = 0 /\ ~shutdown

LEMMA NamesDiffer ==
    /\ \A a \in Actors : a \in Names /\ MadeAt(a) \in Nat
    /\ MadeAt("INIT") = 0 /\ MadeAt("A") = 3 /\ MadeAt("B") = 4
    /\ MadeAt("C") = 5 /\ MadeAt("CLI") = 6
    /\ Length("INIT") = 15 /\ Length("A") = 7 /\ Length("B") = 12 /\ Length("C") = 6
BY DEF Actors, Roles, Names, MadeAt, Length

LEMMA TextTypes ==
    ASSUME ProgramsOK
    PROVE  \A r \in Roles : Text(r) \in Seq(Statements) /\ Len(Text(r)) = Length(r)
<1>1. named["sem"] \in Int /\ named["A"] \in Int /\ named["INIT"] \in Int /\ SLEEPTIME \in Int
  BY SystemAssumption DEF ProgramsOK, Names
<1>2. CASE TRUE
  <2>1. Text("INIT") \in Seq(Statements) /\ Len(Text("INIT")) = Length("INIT")
    BY InitialText, NamesDiffer DEF Text
  <2>2. Text("A") \in Seq(Statements) /\ Len(Text("A")) = Length("A")
    BY <1>1, FuncAText, NamesDiffer DEF Text
  <2>3. Text("B") \in Seq(Statements) /\ Len(Text("B")) = Length("B")
    BY <1>1, FuncBText, NamesDiffer DEF Text
  <2>4. Text("C") \in Seq(Statements) /\ Len(Text("C")) = Length("C")
    BY <1>1, FuncCText, NamesDiffer DEF Text
  <2> QED BY <2>1, <2>2, <2>3, <2>4 DEF Roles
<1> QED BY <1>2

(* Where a program stands when it is at place n.                           *)
LEMMA PlaceFacts ==
    ASSUME ProgramsOK, NEW r \in Roles, NEW n \in 1 .. Length(r) + 1
    PROVE  /\ From(Text(r), n) \in Seq(Statements)
           /\ Len(From(Text(r), n)) = Length(r) - n + 1
           /\ \A i \in 1 .. Length(r) - n + 1 : From(Text(r), n)[i] = Text(r)[n + i - 1]
           /\ From(Text(r), n) = <<>> <=> n = Length(r) + 1
           /\ n <= Length(r) => /\ Head(From(Text(r), n)) = Text(r)[n]
                                /\ Tail(From(Text(r), n)) = From(Text(r), n + 1)
           /\ From(Text(r), 1) = Text(r)
           /\ Length(r) \in Nat
<1> DEFINE c == Text(r)
<1>1. c \in Seq(Statements) /\ Len(c) = Length(r) /\ Len(c) \in Nat
  BY TextTypes
<1> HIDE DEF c
<1>2. n \in 1 .. Len(c) + 1
  BY <1>1
<1>3. /\ From(c, n) \in Seq(Statements) /\ Len(From(c, n)) = Len(c) - n + 1
      /\ \A i \in 1 .. Len(c) - n + 1 : From(c, n)[i] = c[n + i - 1]
      /\ From(c, n) = <<>> <=> n = Len(c) + 1
      /\ n <= Len(c) => Head(From(c, n)) = c[n] /\ Tail(From(c, n)) = From(c, n + 1)
      /\ From(c, 1) = c
  BY <1>1, <1>2, FromFacts
<1> QED BY <1>1, <1>3 DEF c

LEMMA StageTypes ==
    ASSUME NEW k \in Stages
    PROVE  /\ k \in [Roles -> Nat]
           /\ k["INIT"] \in 1 .. 16 /\ k["A"] \in 1 .. 8 /\ k["B"] \in 1 .. 13
           /\ k["C"] \in 1 .. 7
           /\ Made("INIT", k["INIT"])
           /\ Made("A", k["INIT"]) <=> k["INIT"] > 3
           /\ Made("B", k["INIT"]) <=> k["INIT"] > 4
           /\ Made("C", k["INIT"]) <=> k["INIT"] > 5
           /\ Made("CLI", k["INIT"]) <=> k["INIT"] > 6
BY NamesDiffer DEF Stages, Roles, Made

LEMMA StageNats ==
    \A k \in Stages : /\ k["INIT"] \in Nat /\ k["A"] \in Nat
                      /\ k["B"] \in Nat /\ k["C"] \in Nat
BY DEF Stages, Roles

(* The step of a program from one place to another.                        *)
LEMMA StageMoves ==
    ASSUME NEW k \in Stages, NEW r \in Roles, NEW n \in 1 .. Length(r) + 1
    PROVE  /\ [k EXCEPT ![r] = n] \in Stages
           /\ [k EXCEPT ![r] = n][r] = n
           /\ \A o \in Roles \ {r} : [k EXCEPT ![r] = n][o] = k[o]
BY NamesDiffer DEF Stages, Roles

LEMMA WhoRuns ==
    ASSUME SysInv, NEW k \in Stages, Placed(k), code[currpid] # <<>>
    PROVE  \E a \in Actors : Made(a, k["INIT"]) /\ currpid = named[a]
BY CodeTypes DEF Placed

LEMMA TextFrame == named' = named => \A r \in Roles : Text(r)' = Text(r)
BY DEF Text, Roles

(* Nobody has gone on.                                                     *)
LEMMA PlacedSame ==
    ASSUME NEW k \in Stages, Placed(k), UNCHANGED <<code, named>>,
           \A p \in Procs : code[p] # <<>> /\ pstate'[p] = "PRFREE" => pstate[p] = "PRFREE"
    PROVE  Placed(k)'
<1> DEFINE i == k["INIT"]
<1>1. \A r \in Roles : Text(r)' = Text(r)
  BY TextFrame
<1>2. \A r \in Roles : Made(r, i) => code'[named'[r]] = From(Text(r)', k[r])
  BY <1>1 DEF Placed
<1>3. \A p \in Procs : code'[p] # <<>> =>
          pstate'[p] # "PRFREE" /\ \E a \in Actors : Made(a, i) /\ p = named'[a]
  BY DEF Placed
<1> QED BY <1>2, <1>3 DEF Placed

(* One of them has: a has rest left to do.                                 *)
LEMMA PlacedMoves ==
    ASSUME SysInv, NEW k \in Stages, Placed(k), FreeKept, named' = named,
           NEW a \in Actors, Made(a, k["INIT"]), currpid = named[a],
           NEW rest, Continue(rest), NEW kn \in Stages,
           \A b \in Actors : Made(b, kn["INIT"]) <=> Made(b, k["INIT"]),
           \A r \in Roles \ {a} : kn[r] = k[r],
           a \in Roles => rest = From(Text(a), kn[a]),
           a = "CLI" => rest \in CliLeft
    PROVE  Placed(kn)'
<1> DEFINE i == k["INIT"]
           j == kn["INIT"]
<1>1. \A r \in Roles : Text(r)' = Text(r)
  BY TextFrame
<1>2. /\ named[a] \in Procs /\ pstate[named[a]] # "PRFREE"
      /\ code'[named[a]] = rest
      /\ \A p \in Procs \ {named[a]} : code'[p] = code[p]
  BY CodeTypes, NeverParked DEF Continue, SysInv
<1>3. \A b \in Actors : Made(b, i) => named[b] \in Procs
  BY DEF Placed, Workers
<1>4. \A b \in Actors \ {a} : Made(b, i) => named[b] # named[a]
  BY DEF Placed
<1>5. \A r \in Roles : Made(r, j) => code'[named'[r]] = From(Text(r)', kn[r])
  <2> SUFFICES ASSUME NEW r \in Roles, Made(r, i)
               PROVE  code'[named[r]] = From(Text(r), kn[r])
    BY <1>1 DEF Actors
  <2>1. CASE r = a
    BY <1>2, <2>1
  <2>2. CASE r # a
    <3>1. code'[named[r]] = code[named[r]]
      BY <1>2, <1>3, <1>4, <2>2 DEF Actors
    <3> QED BY <2>2, <3>1 DEF Placed
  <2> QED BY <2>1, <2>2
<1>6. \A r \in Roles : ~Made(r, j) => kn[r] = 1
  BY DEF Placed, Actors
<1>7. Made("CLI", j) => code'[named'["CLI"]] \in CliLeft
  <2> SUFFICES ASSUME Made("CLI", i) PROVE code'[named["CLI"]] \in CliLeft
    BY DEF Actors
  <2>1. CASE a = "CLI"
    BY <1>2, <2>1
  <2>2. CASE a # "CLI"
    <3>1. code'[named["CLI"]] = code[named["CLI"]]
      BY <1>2, <1>3, <1>4, <2>2 DEF Actors
    <3> QED BY <3>1 DEF Placed
  <2> QED BY <2>1, <2>2
<1>8. \A p \in Procs : code'[p] # <<>> =>
          pstate'[p] # "PRFREE" /\ \E b \in Actors : Made(b, j) /\ p = named'[b]
  <2> SUFFICES ASSUME NEW p \in Procs, code'[p] # <<>>
               PROVE  pstate[p] # "PRFREE" /\ \E b \in Actors : Made(b, i) /\ p = named[b]
    BY DEF FreeKept
  <2>1. CASE p = named[a]
    BY <1>2, <2>1
  <2>2. CASE p # named[a]
    BY <1>2, <2>2 DEF Placed
  <2> QED BY <2>1, <2>2
<1>9. /\ \A b \in Actors : Made(b, j) => named'[b] \in Workers
      /\ \A b, c \in Actors : Made(b, j) /\ Made(c, j) /\ named'[b] = named'[c] => b = c
      /\ named'["CLI"] # 0 => Made("CLI", j)
  BY DEF Placed, Actors
<1> QED BY <1>5, <1>6, <1>7, <1>8, <1>9 DEF Placed

(* What is left of it once the program has ended.                          *)
Met(k) ==
    named["CLI"] # 0 =>
        /\ \A r \in {"A", "B", "C"} : code[named[r]] = From(Text(r), k[r])
        /\ k["B"] <= 5 => k["A"] <= 5
        /\ k["B"] <= 9 => named["A"] \in Live
        /\ k["C"] <= 5 => named["INIT"] \in Live

(* The inductive invariant.                                                *)
DemoInv ==
    /\ events \in Nat
    /\ events = 0 => IF exited THEN \E k \in Stages : Met(k) ELSE Booted

(* Who is there at a stage.                                                *)
Cast(k) ==
    /\ \A a \in Actors : Made(a, k["INIT"]) => named[a] \in Workers
    /\ \A r \in Roles : ~Made(r, k["INIT"]) => k[r] = 1

LEMMA WhoIsThere ==
    ASSUME NEW k \in Stages, Cast(k)
    PROVE  /\ named["INIT"] \in Workers
           /\ k["INIT"] > 3 => named["A"] \in Workers
           /\ k["INIT"] > 6 => named["CLI"] \in Workers
           /\ k["INIT"] <= 3 => k["A"] = 1
           /\ k["INIT"] <= 4 => k["B"] = 1
           /\ k["INIT"] <= 5 => k["C"] = 1
BY StageTypes DEF Cast, Actors, Roles

LEMMA PlacedCast == \A k : Placed(k) => Cast(k)
BY DEF Placed, Cast

CliWaits == pstate[named["CLI"]] = "PRWAIT" /\ psem[named["CLI"]] = ISEM

(* A step in which w at most is woken, s counted up and m sent to.         *)
LEMMA MeetingKept ==
    ASSUME SysInv, NEW k \in Stages, Cast(k), Meeting(k), named' = named,
           NEW w \in Procs, NEW s, NEW m \in Procs, Calm(w, s, m), semcnt' \in [Sems -> Int],
           w = named["INIT"] => k["C"] > 5 \/ pstate[w] # "PRSUSP",
           k["INIT"] > 3 /\ w = named["A"] =>
               \/ pstate[w] = "PRSUSP" \/ k["B"] > 9
               \/ k["B"] > 5 /\ pstate[w] = "PRWAIT",
           k["INIT"] > 6 /\ w = named["CLI"] => pstate[w] = "PRSUSP" \/ psem[w] # ISEM,
           pstate[w] = "PRSUSP" => k["INIT"] > 6,
           s # ISEM, k["INIT"] > 2 /\ s = named["sem"] => k["B"] > 5,
           k["INIT"] > 3 /\ m = named["A"] => k["B"] > 9,
           k["INIT"] > 6 /\ CliReads' => CliReads \/ CliWaits'
    PROVE  Meeting(k)'
<1> USE StageTypes
<1>0. ISEM \in Sems /\ semcnt \in [Sems -> Int] /\ phasmsg \in [Procs -> BOOLEAN]
  BY NeverParked, ConstFacts DEF SysInv, IInv, MsgTypeOK, TtySems, ISEM, Sems
<1>1. /\ \A p \in Procs : kctx'[p].op \notin SemLoops
      /\ semcnt'[ISEM] <= 0
  <2>1. semcnt'[ISEM] <= semcnt[ISEM] /\ semcnt[ISEM] <= 0
    BY <1>0 DEF Calm, Meeting
  <2> QED BY <1>0, <2>1 DEF Calm, Meeting
<1>2. /\ k["INIT"] <= 2 => sstate'[ISEM] = "SUSED" /\ sstate'[nextsem'] = "SFREE"
      /\ k["INIT"] > 2 => named'["sem"] \in Sems \ {ISEM}
  BY DEF Calm, Meeting
<1>3. k["INIT"] <= 6 =>
          \A a \in Actors \ {"INIT"} : Made(a, k["INIT"]) => pstate'[named'[a]] = "PRSUSP"
  <2> SUFFICES ASSUME k["INIT"] <= 6, NEW a \in Actors \ {"INIT"}, Made(a, k["INIT"])
               PROVE  pstate'[named[a]] = "PRSUSP"
    OBVIOUS
  <2>1. pstate[named[a]] = "PRSUSP" /\ named[a] \in Procs
    BY DEF Meeting, Cast, Workers
  <2>2. named[a] # w
    BY <2>1
  <2> QED BY <2>1, <2>2 DEF Calm, Parked
<1>4. k["INIT"] > 2 /\ k["B"] <= 5 => Unsignalled(k)'
  <2> SUFFICES ASSUME k["INIT"] > 2, k["B"] <= 5
               PROVE  Unsignalled(k)'
    OBVIOUS
  <2>1. semcnt[named["sem"]] <= 0 /\ named["sem"] \in Sems
    BY DEF Meeting, Unsignalled
  <2>2. semcnt'[named'["sem"]] <= 0
    <3>1. named["sem"] # s
      OBVIOUS
    <3>2. semcnt'[named["sem"]] <= semcnt[named["sem"]]
      BY <2>1, <3>1 DEF Calm
    <3>3. semcnt'[named["sem"]] <= 0
      BY <1>0, <2>1, <3>2
    <3> QED BY <3>3
  <2>3. k["A"] <= 3 \/ (k["A"] = 4 /\ pstate'[named'["A"]] = "PRWAIT")
    <3> SUFFICES ASSUME ~(k["A"] <= 3)
                 PROVE  k["A"] = 4 /\ pstate'[named["A"]] = "PRWAIT"
      OBVIOUS
    <3>1. k["A"] = 4 /\ pstate[named["A"]] = "PRWAIT"
      BY DEF Meeting, Unsignalled
    <3>2. named["A"] \in Procs /\ named["A"] # w
      BY <3>1, WhoIsThere DEF Workers
    <3> QED BY <3>1, <3>2 DEF Calm, Parked
  <2> QED BY <2>2, <2>3 DEF Unsignalled
<1>5. k["INIT"] > 3 /\ k["B"] <= 9 => Unsent(k)'
  <2> SUFFICES ASSUME k["INIT"] > 3, k["B"] <= 9
               PROVE  Unsent(k)'
    OBVIOUS
  <2>0. Unsent(k) /\ named["A"] \in Procs
    BY WhoIsThere DEF Meeting, Workers
  <2>1. ~phasmsg'[named'["A"]]
    BY <1>0, <2>0 DEF Calm, Unsent
  <2>2. k["A"] <= 5 \/ (k["A"] = 6 /\ pstate'[named'["A"]] = "PRRECV")
    <3> SUFFICES ASSUME ~(k["A"] <= 5)
                 PROVE  k["A"] = 6 /\ pstate'[named["A"]] = "PRRECV"
      OBVIOUS
    <3>1. k["A"] = 6 /\ pstate[named["A"]] = "PRRECV"
      BY <2>0 DEF Unsent
    <3>2. named["A"] # w
      BY <3>1
    <3> QED BY <2>0, <3>1, <3>2 DEF Calm, Parked
  <2> QED BY <2>1, <2>2 DEF Unsent
<1>6. k["C"] <= 5 => Unresumed(k)'
  <2> SUFFICES ASSUME k["C"] <= 5, ~(k["INIT"] <= 13)
               PROVE  k["INIT"] = 14 /\ pstate'[named["INIT"]] = "PRSUSP"
    BY DEF Unresumed
  <2>1. k["INIT"] = 14 /\ pstate[named["INIT"]] = "PRSUSP" /\ named["INIT"] \in Procs
    BY WhoIsThere DEF Meeting, Unresumed, Workers
  <2>2. named["INIT"] # w
    BY <2>1
  <2> QED BY <2>1, <2>2 DEF Calm, Parked
<1>7. k["INIT"] > 6 /\ CliReads' =>
          pstate'[named'["CLI"]] = "PRWAIT" /\ psem'[named'["CLI"]] = ISEM
  <2> SUFFICES ASSUME k["INIT"] > 6, CliReads'
               PROVE  pstate'[named["CLI"]] = "PRWAIT" /\ psem'[named["CLI"]] = ISEM
    OBVIOUS
  <2> SUFFICES ASSUME CliReads
               PROVE  pstate'[named["CLI"]] = "PRWAIT" /\ psem'[named["CLI"]] = ISEM
    BY DEF CliWaits
  <2>1. /\ pstate[named["CLI"]] = "PRWAIT" /\ psem[named["CLI"]] = ISEM
        /\ named["CLI"] \in Procs
    BY WhoIsThere DEF Meeting, Workers
  <2>2. named["CLI"] # w
    BY <2>1
  <2> QED BY <2>1, <2>2 DEF Calm, Parked
<1> QED BY <1>1, <1>2, <1>3, <1>4, <1>5, <1>6, <1>7 DEF Meeting

LEMMA WorkersLive ==
    ASSUME NEW p \in Workers, pstate[p] # "PRFREE"
    PROVE  p \in Live
BY ConstFacts DEF Live, Workers, isbadpid, Procs, NULLPROC

(* What is asked of the meeting holds at every stage of it.                *)
LEMMA PlayingMet ==
    ASSUME SysInv, NEW k \in Stages, Placed(k), Meeting(k)
    PROVE  Met(k)
<1> SUFFICES ASSUME named["CLI"] # 0
             PROVE  /\ \A r \in {"A", "B", "C"} : code[named[r]] = From(Text(r), k[r])
                    /\ k["B"] <= 5 => k["A"] <= 5
                    /\ k["B"] <= 9 => named["A"] \in Live
                    /\ k["C"] <= 5 => named["INIT"] \in Live
  BY DEF Met
<1>0. k["INIT"] > 6
  BY StageTypes DEF Placed, Actors
<1>1. \A r \in Roles : Made(r, k["INIT"]) /\ named[r] \in Workers
                       /\ code[named[r]] = From(Text(r), k[r])
  BY <1>0, StageTypes DEF Placed, Roles, Actors
<1>2. k["B"] <= 5 => k["A"] <= 5
  BY <1>0, StageTypes DEF Meeting, Unsignalled
<1>3. ASSUME NEW r \in Roles, k[r] <= Length(r) PROVE named[r] \in Live
  <2>1. From(Text(r), k[r]) # <<>>
    <3>1. k[r] \in 1 .. Length(r) + 1 /\ ProgramsOK
      BY DEF Stages, SysInv
    <3>2. Length(r) \in Nat /\ (From(Text(r), k[r]) = <<>> <=> k[r] = Length(r) + 1)
      BY <3>1, PlaceFacts
    <3> QED BY <1>3, <3>1, <3>2
  <2>2. pstate[named[r]] # "PRFREE"
    BY <1>1, <2>1 DEF Placed, Workers
  <2> QED BY <1>1, <2>2, WorkersLive
<1>4. k["B"] <= 9 => named["A"] \in Live
  <2> SUFFICES ASSUME k["B"] <= 9 PROVE named["A"] \in Live
    OBVIOUS
  <2>1. k["A"] <= 7
    BY <1>0, StageTypes DEF Meeting, Unsent
  <2> QED BY <1>3, <2>1, NamesDiffer DEF Roles
<1>5. k["C"] <= 5 => named["INIT"] \in Live
  <2> SUFFICES ASSUME k["C"] <= 5 PROVE named["INIT"] \in Live
    OBVIOUS
  <2>1. k["INIT"] <= 15
    BY <1>0, StageTypes DEF Meeting, Unresumed
  <2> QED BY <1>3, <2>1, NamesDiffer DEF Roles
<1> QED BY <1>1, <1>2, <1>4, <1>5 DEF Roles

(* A call that ends the program leaves it so.                              *)
LEMMA FailsMet ==
    ASSUME SysInv, NEW k \in Stages, Met(k), NEW kn \in Stages, Placed(kn)',
           UNCHANGED <<pstate, named>>, kn["B"] >= k["B"], kn["C"] >= k["C"],
           kn["B"] <= 5 => kn["A"] <= 5
    PROVE  Met(kn)'
<1> SUFFICES ASSUME named["CLI"] # 0
             PROVE  /\ \A r \in {"A", "B", "C"} :
                          code'[named'[r]] = From(Text(r)', kn[r])
                    /\ kn["B"] <= 5 => kn["A"] <= 5
                    /\ kn["B"] <= 9 => named'["A"] \in Live'
                    /\ kn["C"] <= 5 => named'["INIT"] \in Live'
  BY DEF Met
<1>1. kn["INIT"] > 6
  BY StageTypes DEF Placed, Actors
<1>2. \A r \in {"A", "B", "C"} : code'[named'[r]] = From(Text(r)', kn[r])
  BY <1>1, StageTypes DEF Placed, Roles
<1>3. Live' = Live
  BY DEF Live
<1>4. (kn["B"] <= 9 => named'["A"] \in Live') /\ (kn["C"] <= 5 => named'["INIT"] \in Live')
  BY <1>3, StageTypes DEF Met
<1> QED BY <1>2, <1>4

(* A step in which nobody is woken.                                        *)
LEMMA QuietMeeting ==
    ASSUME SysInv, NEW k \in Stages, Placed(k), Meeting(k), named' = named, Quiescent,
           semcnt' \in [Sems -> Int],
           k["INIT"] > 6 /\ CliReads' => CliReads \/ CliWaits'
    PROVE  Meeting(k)'
<1>1. /\ NULLPROC \in Procs /\ pstate[NULLPROC] \notin Parked
      /\ NSEM \notin Sems /\ ISEM \in Sems
  BY NeverParked, BootConstants, ConstFacts DEF SysInv, Sems
<1>2. Calm(NULLPROC, NSEM, NULLPROC)
  BY DEF Quiescent
<1>3. NULLPROC # named["INIT"] /\ (k["INIT"] > 3 => NULLPROC # named["A"])
      /\ (k["INIT"] > 6 => NULLPROC # named["CLI"])
  BY WhoIsThere, PlacedCast DEF Workers
<1>4. k["INIT"] > 2 => NSEM # named["sem"]
  BY <1>1 DEF Meeting
<1>5. NSEM # ISEM /\ pstate[NULLPROC] # "PRSUSP"
  BY <1>1 DEF Parked
<1>6. Cast(k)
  BY PlacedCast
<1> QED BY <1>1, <1>2, <1>3, <1>4, <1>5, <1>6, MeetingKept

(* The one that runs, when it is at its place in the text.                 *)
LEMMA RoleFacts ==
    ASSUME SysInv, NEW k \in Stages, Placed(k), NEW r \in Roles, Made(r, k["INIT"]),
           currpid = named[r], code[currpid] # <<>>
    PROVE  /\ k[r] \in 1 .. Length(r) /\ Length(r) \in Nat
           /\ Current = Text(r)[k[r]]
           /\ Tail(code[currpid]) = From(Text(r), k[r] + 1)
           /\ currpid \in Workers /\ pstate[currpid] = "PRCURR"
<1>1. code[currpid] = From(Text(r), k[r]) /\ k[r] \in 1 .. Length(r) + 1 /\ ProgramsOK
  BY DEF Placed, Stages, SysInv
<1>2. /\ Length(r) \in Nat
      /\ From(Text(r), k[r]) = <<>> <=> k[r] = Length(r) + 1
      /\ k[r] <= Length(r) => /\ Head(From(Text(r), k[r])) = Text(r)[k[r]]
                              /\ Tail(From(Text(r), k[r])) = From(Text(r), k[r] + 1)
  BY <1>1, PlaceFacts
<1>3. k[r] \in 1 .. Length(r)
  BY <1>1, <1>2
<1>4. currpid \in Workers /\ pstate[currpid] = "PRCURR"
  BY NeverParked DEF Placed, Actors, SysInv
<1> QED BY <1>1, <1>2, <1>3, <1>4 DEF Current

Step(k, r) == [k EXCEPT ![r] = k[r] + 1]

LEMMA StepTypes ==
    ASSUME NEW k \in Stages, NEW r \in Roles, k[r] \in 1 .. Length(r), Length(r) \in Nat
    PROVE  /\ Step(k, r) \in Stages /\ Step(k, r)[r] = k[r] + 1
           /\ \A o \in Roles \ {r} : Step(k, r)[o] = k[o]
<1>1. k[r] + 1 \in 1 .. Length(r) + 1
  OBVIOUS
<1> QED BY <1>1, StageMoves DEF Step

(* It goes on, while the others stay where they are.                       *)
LEMMA RoleAdvance ==
    ASSUME SysInv, NEW k \in Stages, Placed(k), NEW r \in Roles, Made(r, k["INIT"]),
           currpid = named[r], code[currpid] # <<>>, named' = named, FreeKept, Advance,
           r = "INIT" => k[r] \notin 3 .. 6
    PROVE  /\ Placed(Step(k, r))'
           /\ k["INIT"] > 6 /\ CliReads' => CliReads
<1> DEFINE kn == Step(k, r)
<1>1. /\ k[r] \in 1 .. Length(r) /\ Length(r) \in Nat
      /\ Tail(code[currpid]) = From(Text(r), k[r] + 1)
  BY RoleFacts
<1>2. kn \in Stages /\ kn[r] = k[r] + 1 /\ \A o \in Roles \ {r} : kn[o] = k[o]
  BY <1>1, StepTypes
<1> HIDE DEF kn
<1>3. \A b \in Actors : Made(b, kn["INIT"]) <=> Made(b, k["INIT"])
  <2>1. CASE r = "INIT"
    <3>1. kn["INIT"] = k["INIT"] + 1 /\ k["INIT"] \in Nat /\ k["INIT"] \notin 3 .. 6
      BY <1>1, <1>2, <2>1
    <3>2. \A b \in Actors : MadeAt(b) \in {0, 3, 4, 5, 6}
      BY DEF Actors, Roles, MadeAt
    <3> QED BY <1>1, <2>1, <3>1, <3>2 DEF Made
  <2>2. CASE r # "INIT"
    BY <1>2, <2>2 DEF Roles
  <2> QED BY <2>1, <2>2
<1>4. Continue(From(Text(r), kn[r]))
  BY <1>1, <1>2 DEF Advance
<1>5. r \in Actors /\ r # "CLI"
  BY DEF Actors, Roles
<1>6. Placed(kn)'
  BY <1>2, <1>3, <1>4, <1>5, PlacedMoves
<1>7. k["INIT"] > 6 /\ CliReads' => CliReads
  <2> SUFFICES ASSUME k["INIT"] > 6 PROVE CliReads' => CliReads
    OBVIOUS
  <2>1. named["CLI"] \in Procs /\ named["CLI"] # currpid
    BY <1>5, StageTypes DEF Placed, Workers, Actors
  <2>2. code'[named["CLI"]] = code[named["CLI"]]
    BY <1>4, <2>1, CodeTypes DEF Continue
  <2> QED BY <2>2 DEF CliReads
<1> QED BY <1>6, <1>7 DEF kn

-----------------------------------------------------------------------------
(* The statements, one program after the other.                            *)

(* What a statement leads to: a stage, or the end of the program with the  *)
(* meeting as it was.                                                      *)
GoesOn == \E k \in Stages : (Placed(k) /\ Meeting(k))' \/ (exited' = TRUE /\ Met(k)')

LEMMA FailsGoesOn ==
    ASSUME SysInv, NEW k \in Stages, Placed(k), Meeting(k), Fails, named' = named,
           NEW kn \in Stages, Placed(kn)', kn["B"] >= k["B"], kn["C"] >= k["C"],
           kn["B"] <= 5 => kn["A"] <= 5
    PROVE  GoesOn
<1>1. Met(k)
  BY PlayingMet
<1>2. exited' = TRUE /\ Met(kn)'
  BY <1>1, FailsMet DEF Fails
<1> QED BY <1>2 DEF GoesOn

LEMMA AGoesOn ==
    ASSUME SysInv, semcnt' \in [Sems -> Int], NEW k \in Stages, Placed(k), Meeting(k),
           Made("A", k["INIT"]), currpid = named["A"], code[currpid] # <<>>, Statement
    PROVE  GoesOn
<1> DEFINE n == k["A"]
           m == named["sem"]
<1>1. /\ n \in 1 .. 7 /\ Current = Text("A")[n]
      /\ currpid \in Workers /\ pstate[currpid] = "PRCURR"
      /\ Tail(code[currpid]) = From(Text("A"), n + 1)
  BY RoleFacts, NamesDiffer DEF Roles
<1>2. k["INIT"] > 3 /\ m \in Sems \ {ISEM} /\ Text("A") = funcA(m) /\ m \in Int
  <2>1. k["INIT"] > 3 /\ k["INIT"] \in Nat
    <3>1. k["INIT"] \in Nat
      BY StageNats
    <3>2. k["INIT"] > 3
      BY StageTypes
    <3> QED BY <3>1, <3>2
  <2>2. m \in Sems \ {ISEM}
    BY <2>1 DEF Meeting
  <2>3. Text("A") = funcA(m)
    BY DEF Text
  <2>4. m \in Int
    BY <2>2, ConstFacts DEF Sems
  <2> QED BY <2>1, <2>2, <2>3, <2>4
<1>3. /\ k["B"] <= 5 => (n <= 3 /\ semcnt[m] <= 0)
      /\ k["B"] <= 9 => (n <= 5 /\ ~phasmsg[currpid])
  <2>0. k["INIT"] > 2 /\ k["INIT"] > 3
    BY <1>2, StageNats
  <2>1. k["B"] <= 5 => Unsignalled(k)
    BY <2>0 DEF Meeting
  <2>2. k["B"] <= 9 => Unsent(k)
    BY <2>0 DEF Meeting
  <2> QED BY <1>1, <2>1, <2>2 DEF Unsignalled, Unsent
<1>4. PICK kn \in Stages : /\ kn = Step(k, "A") /\ kn["A"] = n + 1
                           /\ \A o \in Roles \ {"A"} : kn[o] = k[o]
  BY <1>1, StepTypes, NamesDiffer DEF Roles
<1>5. kn["INIT"] = k["INIT"] /\ kn["B"] = k["B"] /\ kn["C"] = k["C"]
  BY <1>4 DEF Roles
<1>6. ASSUME named' = named, FreeKept, Advance
      PROVE  Placed(kn)' /\ (k["INIT"] > 6 /\ CliReads' => CliReads)
  BY <1>4, <1>6, RoleAdvance DEF Roles
<1>7. ASSUME named' = named, FreeKept, Advance, Quiescent,
             k["B"] <= 5 => \/ n <= 2
                            \/ n = 3 /\ pstate'[named["A"]] = "PRWAIT",
             k["B"] <= 9 => n # 5 \/ pstate'[named["A"]] = "PRRECV"
      PROVE  GoesOn
  <2>1. Placed(kn)' /\ (k["INIT"] > 6 /\ CliReads' => CliReads)
    BY <1>6, <1>7
  <2>2. Meeting(k)'
    BY <1>7, <2>1, QuietMeeting
  <2>3. k["INIT"] > 2 /\ kn["B"] <= 5 => Unsignalled(kn)'
    BY <1>1, <1>2, <1>3, <1>4, <1>5, <1>7, <2>2 DEF Meeting, Unsignalled
  <2>4. k["INIT"] > 3 /\ kn["B"] <= 9 => Unsent(kn)'
    BY <1>1, <1>2, <1>3, <1>4, <1>5, <1>7, <2>2 DEF Meeting, Unsent
  <2>5. kn["C"] <= 5 => Unresumed(kn)'
    BY <1>5, <2>2 DEF Meeting, Unresumed
  <2>6. Meeting(kn)'
    BY <1>5, <2>2, <2>3, <2>4, <2>5 DEF Meeting
  <2> QED BY <2>1, <2>6 DEF GoesOn
<1>8. CASE n \in {1, 2, 4, 6, 7}
  <2>1. Current.op = "write"
    <3>1. \A i \in {1, 2, 4, 6, 7} : funcA(m)[i] = Write
      BY <1>2, FuncAText
    <3>2. Current = Write
      BY <1>1, <1>2, <1>8, <3>1
    <3> QED BY <3>2 DEF Write, Stmt
  <2>2. WriteStmt
    BY <2>1, WhichStatement
  <2>3. Quiescent /\ FreeKept /\ named' = named /\ Advance
    BY <2>2, WriteSleepCalm, StatementFree DEF SysInv, WriteStmt
  <2> QED BY <1>1, <1>3, <1>7, <1>8, <2>3
<1>9. CASE n = 3
  <2>1. Current = Stmt("wait", m)
    BY <1>1, <1>2, <1>9, FuncAText
  <2>2. Argument = m /\ Current.op = "wait"
    BY <2>1 DEF Argument, Stmt
  <2>3. SemStmt
    BY <2>2, WhichStatement
  <2>4. /\ Wait(m) /\ named' = named /\ Advance /\ UNCHANGED msgVars /\ FreeKept
    BY <2>2, <2>3, StatementFree DEF SemStmt, Reaches, SysInv
  <2>5. \/ Fails
        \/ Quiescent /\ (semcnt[m] <= 0 => pstate'[currpid] = "PRWAIT")
    BY <1>2, <2>4, WaitCalm DEF SysInv
  <2>6. CASE Fails
    <3>1. Placed(kn)'
      BY <1>6, <2>4
    <3>2. kn["B"] >= k["B"] /\ kn["C"] >= k["C"] /\ kn["A"] <= 5
      <4>1. k["B"] \in Int /\ k["C"] \in Int
        BY StageNats
      <4>2. kn["A"] = 4
        BY <1>4, <1>9
      <4> QED BY <1>5, <4>1, <4>2
    <3> QED BY <2>4, <2>6, <3>1, <3>2, FailsGoesOn
  <2>7. CASE Quiescent /\ (semcnt[m] <= 0 => pstate'[currpid] = "PRWAIT")
    BY <1>3, <1>7, <1>9, <2>4, <2>7
  <2> QED BY <2>5, <2>6, <2>7
<1>10. CASE n = 5
  <2>1. Current.op = "receive"
    <3>1. funcA(m)[5] = Stmt("receive", 0)
      BY <1>2, FuncAText
    <3>2. Current = Stmt("receive", 0)
      BY <1>1, <1>2, <1>10, <3>1
    <3> QED BY <3>2 DEF Stmt
  <2>2. MsgStmt
    BY <2>1, WhichStatement
  <2>3. Receive /\ named' = named /\ Advance /\ UNCHANGED semVars /\ FreeKept
    BY <2>1, <2>2, StatementFree DEF MsgStmt, Reaches, SysInv
  <2>4. Quiescent /\ (~phasmsg[currpid] => pstate'[currpid] = "PRRECV")
    BY <2>3, ReceiveCalm DEF SysInv
  <2> QED BY <1>3, <1>7, <1>10, <2>3, <2>4
<1> QED BY <1>1, <1>8, <1>9, <1>10

(* B or C goes on and nobody is woken.                                     *)
LEMMA QuietGoesOn ==
    ASSUME SysInv, semcnt' \in [Sems -> Int], NEW k \in Stages, Placed(k), Meeting(k),
           NEW r \in {"B", "C"}, Made(r, k["INIT"]), currpid = named[r],
           code[currpid] # <<>>, named' = named, FreeKept, Advance, Quiescent
    PROVE  GoesOn
<1>1. k[r] \in 1 .. Length(r) /\ Length(r) \in Nat /\ r \in Roles
  BY RoleFacts DEF Roles
<1>2. PICK kn \in Stages : /\ kn = Step(k, r) /\ kn[r] = k[r] + 1
                           /\ \A o \in Roles \ {r} : kn[o] = k[o]
  BY <1>1, StepTypes
<1>3. Placed(kn)' /\ (k["INIT"] > 6 /\ CliReads' => CliReads)
  BY <1>1, <1>2, RoleAdvance
<1>4. Meeting(k)'
  BY <1>3, QuietMeeting
<1>5. /\ kn["INIT"] = k["INIT"] /\ kn["A"] = k["A"]
      /\ kn["B"] >= k["B"] /\ kn["C"] >= k["C"]
  BY <1>1, <1>2, StageTypes DEF Roles
<1>a. /\ kn["B"] <= 5 => k["B"] <= 5
      /\ kn["B"] <= 9 => k["B"] <= 9
      /\ kn["C"] <= 5 => k["C"] <= 5
  <2>1. /\ k["B"] \in Nat /\ kn["B"] \in Nat
        /\ k["C"] \in Nat /\ kn["C"] \in Nat
    BY StageNats
  <2> QED BY <1>5, <2>1
<1>b. /\ k["INIT"] > 2 /\ k["B"] <= 5 => Unsignalled(k)'
      /\ k["INIT"] > 3 /\ k["B"] <= 9 => Unsent(k)'
      /\ k["C"] <= 5 => Unresumed(k)'
  BY <1>4 DEF Meeting
<1>6. k["INIT"] > 2 /\ kn["B"] <= 5 => Unsignalled(kn)'
  BY <1>5, <1>a, <1>b DEF Unsignalled
<1>7. k["INIT"] > 3 /\ kn["B"] <= 9 => Unsent(kn)'
  BY <1>5, <1>a, <1>b DEF Unsent
<1>8. kn["C"] <= 5 => Unresumed(kn)'
  BY <1>5, <1>a, <1>b DEF Unresumed
<1>9. Meeting(kn)'
  BY <1>4, <1>5, <1>6, <1>7, <1>8 DEF Meeting
<1> QED BY <1>3, <1>9 DEF GoesOn

(* A, B, C and CLI do not run before they are all made, and differ.        *)
LEMMA OnceAllAreMade ==
    ASSUME SysInv, NEW k \in Stages, Placed(k), Meeting(k),
           NEW a \in Actors \ {"INIT"}, Made(a, k["INIT"]), currpid = named[a]
    PROVE  /\ k["INIT"] > 6
           /\ \A b \in Actors : Made(b, k["INIT"])
           /\ \A b \in Actors \ {a} : named[b] # named[a]
           /\ \A b \in Actors : named[b] \in Workers
<1>1. k["INIT"] > 6
  <2>1. pstate[named[a]] = "PRCURR" /\ k["INIT"] \in Nat
    BY NeverParked, StageTypes DEF SysInv
  <2> QED BY <2>1 DEF Meeting
<1>2. \A b \in Actors : Made(b, k["INIT"])
  BY <1>1, StageTypes DEF Actors, Roles
<1> QED BY <1>1, <1>2 DEF Placed

LEMMA COnGoesOn ==
    ASSUME SysInv, semcnt' \in [Sems -> Int], NEW k \in Stages, Placed(k), Meeting(k),
           Made("C", k["INIT"]), currpid = named["C"], code[currpid] # <<>>, Statement
    PROVE  GoesOn
<1> DEFINE n == k["C"]
           i == named["INIT"]
<1>1. n \in 1 .. 6 /\ Current = Text("C")[n]
  BY RoleFacts, NamesDiffer DEF Roles
<1>2. /\ k["INIT"] > 6
      /\ i \in Workers /\ i # named["A"] /\ i # named["CLI"] /\ i # currpid
      /\ named["A"] \in Workers
  <2>1. /\ k["INIT"] > 6
        /\ \A b, c \in Actors : named[b] = named[c] => b = c
        /\ \A b \in Actors : named[b] \in Workers
    BY OnceAllAreMade DEF Placed, Actors, Roles
  <2> QED BY <2>1 DEF Actors, Roles
<1>3. Text("C") = funcC(i, SLEEPTIME) /\ i \in Int /\ SLEEPTIME \in Int
  <2>1. Text("C") = funcC(i, SLEEPTIME)
    BY DEF Text
  <2>2. i \in Int /\ SLEEPTIME \in Int
    BY <1>2, SystemAssumption, ConstFacts DEF Workers, Procs
  <2> QED BY <2>1, <2>2
<1>4. /\ \A x \in {1, 2, 4, 6} : funcC(i, SLEEPTIME)[x] = Write
      /\ funcC(i, SLEEPTIME)[3] = Stmt("sleep", SLEEPTIME)
      /\ funcC(i, SLEEPTIME)[5] = Stmt("resume", i)
  BY <1>3, FuncCText
<1>5. CASE n \in {1, 2, 3, 4, 6}
  <2>1. Current = Write \/ Current = Stmt("sleep", SLEEPTIME)
    BY <1>1, <1>3, <1>4, <1>5
  <2>2. Current.op = "write" \/ Current.op = "sleep"
    <3>1. CASE Current = Write
      BY <3>1 DEF Write, Stmt
    <3>2. CASE Current = Stmt("sleep", SLEEPTIME)
      BY <3>2 DEF Stmt
    <3> QED BY <2>1, <3>1, <3>2
  <2>3. WriteStmt \/ SleepStmt
    BY <2>2, WhichStatement
  <2>4. Quiescent /\ FreeKept /\ named' = named /\ Advance
    BY <2>3, WriteSleepCalm, StatementFree DEF SysInv, WriteStmt, SleepStmt
  <2> QED BY <2>4, QuietGoesOn
<1>6. CASE n = 5
  <2>1. Current = Stmt("resume", i)
    BY <1>1, <1>3, <1>4, <1>6
  <2>2. Argument = i /\ Current.op = "resume"
    BY <2>1 DEF Argument, Stmt
  <2>3. ResumeStmt
    BY <2>2, WhichStatement
  <2>4. Resume(i) /\ named' = named /\ Advance /\ UNCHANGED <<semVars, msgVars>> /\ FreeKept
    BY <2>2, <2>3, StatementFree DEF ResumeStmt, SysInv
  <2>5. PICK kn \in Stages : /\ kn = Step(k, "C") /\ kn["C"] = 6
                             /\ \A o \in Roles \ {"C"} : kn[o] = k[o]
    BY <1>1, <1>6, StepTypes, NamesDiffer DEF Roles
  <2>6. Placed(kn)' /\ (k["INIT"] > 6 /\ CliReads' => CliReads)
    BY <2>4, <2>5, RoleAdvance DEF Roles
  <2>7. kn["INIT"] = k["INIT"] /\ kn["A"] = k["A"] /\ kn["B"] = k["B"]
    BY <2>5 DEF Roles
  <2>8. \/ Fails
        \/ pstate[i] = "PRSUSP" /\ Calm(i, NSEM, NULLPROC)
    BY <1>3, <2>4, ResumeCalm DEF SysInv
  <2>9. CASE Fails
    <3>1. kn["B"] >= k["B"] /\ kn["C"] >= k["C"] /\ (kn["B"] <= 5 => kn["A"] <= 5)
      <4>1. k["B"] <= 5 => k["A"] <= 5
        <5>1. k["INIT"] \in Nat /\ k["A"] \in Nat
          BY StageNats
        <5>2. k["B"] <= 5 => Unsignalled(k)
          BY <1>2, <5>1 DEF Meeting
        <5> QED BY <5>1, <5>2 DEF Unsignalled
      <4> QED BY <1>6, <2>5, <2>7, <4>1, StageNats
    <3> QED BY <2>4, <2>6, <2>9, <3>1, FailsGoesOn
  <2>10. CASE pstate[i] = "PRSUSP" /\ Calm(i, NSEM, NULLPROC)
    <3>1. Cast(kn)
      BY <2>5, <2>7, PlacedCast, <1>2, StageTypes, OnceAllAreMade DEF Cast
    <3>2. Meeting(kn)
      BY <2>5, <2>7 DEF Meeting, Unsignalled, Unsent
    <3>3. i \in Procs /\ NULLPROC \in Procs /\ NULLPROC # named["A"]
      BY <1>2, ConstFacts DEF Workers
    <3>4. NSEM # ISEM /\ NSEM # named["sem"]
      <4>1. NSEM \notin Sems /\ ISEM \in Sems
        BY BootConstants, ConstFacts DEF Sems
      <4>2. named["sem"] \in Sems
        BY <1>2, StageNats DEF Meeting
      <4> QED BY <4>1, <4>2
    <3>5. Meeting(kn)'
      BY <1>2, <2>4, <2>5, <2>6, <2>7, <2>10, <3>1, <3>2, <3>3, <3>4, MeetingKept
    <3> QED BY <2>6, <3>5 DEF GoesOn
  <2> QED BY <2>8, <2>9, <2>10
<1> QED BY <1>1, <1>5, <1>6

LEMMA BSignals ==
    ASSUME SysInv, semcnt' \in [Sems -> Int], NEW k \in Stages, Placed(k), Meeting(k),
           Made("B", k["INIT"]), currpid = named["B"], code[currpid] # <<>>, Statement,
           k["B"] = 5, NEW m \in Sems \ {ISEM}, m = named["sem"],
           Current = Stmt("signal", m)
    PROVE  GoesOn
<1>1. Argument = m /\ Current.op = "signal"
  BY DEF Argument, Stmt
<1>2. SemStmt
  BY <1>1, WhichStatement
<1>3. /\ Interruptible /\ SignalBody(m) /\ named' = named /\ Advance
      /\ UNCHANGED msgVars /\ FreeKept
  BY <1>1, <1>2, StatementFree DEF SemStmt, Reaches, Signal, Calling, SysInv
<1>4. PICK kn \in Stages : /\ kn = Step(k, "B") /\ kn["B"] = 6
                           /\ \A o \in Roles \ {"B"} : kn[o] = k[o]
  BY StepTypes, NamesDiffer DEF Roles
<1>5. Placed(kn)' /\ (k["INIT"] > 6 /\ CliReads' => CliReads)
  BY <1>3, <1>4, RoleAdvance DEF Roles
<1>6. kn["INIT"] = k["INIT"] /\ kn["A"] = k["A"] /\ kn["C"] = k["C"]
  BY <1>4 DEF Roles
<1>7. k["INIT"] > 6 /\ \A b \in Actors : named[b] \in Workers /\ Made(b, k["INIT"])
  BY OnceAllAreMade DEF Actors, Roles
<1>8. Cast(kn)
  BY <1>6, <1>7 DEF Cast, Actors
<1>9. Meeting(kn)
  BY <1>4, <1>6 DEF Meeting, Unsent, Unresumed
<1>10. /\ NULLPROC \in Procs /\ pstate[NULLPROC] # "PRSUSP"
       /\ \A b \in Actors : named[b] # NULLPROC
  BY <1>7, NeverParked DEF Workers, Parked, SysInv
<1>11. named["INIT"] # NULLPROC /\ named["A"] # NULLPROC /\ named["CLI"] # NULLPROC
  BY <1>10 DEF Actors, Roles
<1>12. CASE Fails
  BY <1>3, <1>4, <1>5, <1>6, <1>12, FailsGoesOn, StageNats
<1>13. CASE Calm(NULLPROC, m, NULLPROC)
  <2>1. Meeting(kn)'
    BY <1>3, <1>4, <1>5, <1>6, <1>8, <1>9, <1>10, <1>11, <1>13, MeetingKept
  <2> QED BY <1>5, <2>1 DEF GoesOn
<1>14. ASSUME NEW w \in Procs, pstate[w] = "PRWAIT", psem[w] = m, Calm(w, m, NULLPROC)
       PROVE  GoesOn
  <2>1. Meeting(kn)'
    BY <1>3, <1>4, <1>5, <1>6, <1>8, <1>9, <1>10, <1>11, <1>14, MeetingKept
  <2> QED BY <1>5, <2>1 DEF GoesOn
<1> QED BY <1>3, <1>12, <1>13, <1>14, SignalCalm DEF SysInv

LEMMA BSends ==
    ASSUME SysInv, semcnt' \in [Sems -> Int], NEW k \in Stages, Placed(k), Meeting(k),
           Made("B", k["INIT"]), currpid = named["B"], code[currpid] # <<>>, Statement,
           k["B"] = 9, NEW i \in Workers, i = named["A"], Current = Stmt("send", i)
    PROVE  GoesOn
<1>1. Argument = i /\ Current.op = "send"
  BY DEF Argument, Stmt
<1>2. MsgStmt
  BY <1>1, WhichStatement
<1>3. /\ UNCHANGED semVars /\ named' = named /\ FreeKept
      /\ \/ (\E msg \in Msgs : Send(i, msg)) /\ Advance
         \/ UNCHANGED <<procVars, msgVars>> /\ Continue(<<>>)
  BY <1>1, <1>2, StatementFree DEF MsgStmt, Reaches, SysInv
<1>4. /\ k["INIT"] > 6
      /\ \A b \in Actors : named[b] \in Workers /\ Made(b, k["INIT"])
      /\ i # named["INIT"] /\ i # named["CLI"]
      /\ \A b \in Actors \ {"B"} : named[b] # currpid
  <2>1. /\ k["INIT"] > 6
        /\ \A b \in Actors : named[b] \in Workers /\ Made(b, k["INIT"])
        /\ \A b \in Actors \ {"B"} : named[b] # currpid
    BY OnceAllAreMade DEF Actors, Roles
  <2> QED BY <2>1 DEF Placed, Actors, Roles
<1>5. CASE (\E msg \in Msgs : Send(i, msg)) /\ Advance
  <2>1. Calm(i, NSEM, i)
    BY <1>3, <1>5, SendCalm, ConstFacts DEF Workers, Procs, SysInv
  <2>2. PICK kn \in Stages : /\ kn = Step(k, "B") /\ kn["B"] = 10
                             /\ \A o \in Roles \ {"B"} : kn[o] = k[o]
    BY StepTypes, NamesDiffer DEF Roles
  <2>3. Placed(kn)' /\ (k["INIT"] > 6 /\ CliReads' => CliReads)
    BY <1>3, <1>5, <2>2, RoleAdvance DEF Roles
  <2>4. kn["INIT"] = k["INIT"] /\ kn["A"] = k["A"] /\ kn["C"] = k["C"]
    BY <2>2 DEF Roles
  <2>5. Cast(kn)
    BY <1>4, <2>4 DEF Cast, Actors
  <2>6. Meeting(kn)
    BY <2>2, <2>4 DEF Meeting, Unresumed
  <2>7. NSEM # ISEM /\ NSEM # named["sem"]
    <3>1. NSEM \notin Sems /\ ISEM \in Sems
      BY BootConstants, ConstFacts DEF Sems
    <3>2. named["sem"] \in Sems
      BY <1>4, StageNats DEF Meeting
    <3> QED BY <3>1, <3>2
  <2>8. i \in Procs
    BY DEF Workers
  <2>9. Meeting(kn)'
    BY <1>3, <1>4, <2>1, <2>2, <2>3, <2>4, <2>5, <2>6, <2>7, <2>8, MeetingKept
  <2> QED BY <2>3, <2>9 DEF GoesOn
<1>6. CASE UNCHANGED <<procVars, msgVars>> /\ Continue(<<>>)
  <2>1. Quiescent
    <3>1. pstate' = pstate /\ kctx' = kctx
      BY <1>6 DEF procVars, schedVars
    <3>2. \A p \in Procs : phasmsg'[p] => phasmsg[p]
      BY <1>6 DEF msgVars
    <3> QED BY <1>3, <3>1, <3>2, SameParked, CalmFrame, StutterLoops DEF Quiescent, SysInv
  <2>2. PICK kn \in Stages : kn["B"] = 13 /\ \A o \in Roles \ {"B"} : kn[o] = k[o]
    <3>1. 13 \in 1 .. Length("B") + 1 /\ "B" \in Roles
      BY NamesDiffer DEF Roles
    <3> DEFINE kn == [k EXCEPT !["B"] = 13]
    <3>2. kn \in Stages /\ kn["B"] = 13 /\ \A o \in Roles \ {"B"} : kn[o] = k[o]
      BY <3>1, StageMoves
    <3> QED BY <3>2
  <2>3. <<>> = From(Text("B"), kn["B"])
    <3>1. 13 \in 1 .. Length("B") + 1 /\ 13 = Length("B") + 1
      BY NamesDiffer
    <3>2. From(Text("B"), 13) = <<>> <=> 13 = Length("B") + 1
      BY <3>1, PlaceFacts DEF Roles, SysInv
    <3> QED BY <2>2, <3>1, <3>2
  <2>4. kn["INIT"] = k["INIT"] /\ kn["A"] = k["A"] /\ kn["C"] = k["C"]
    BY <2>2 DEF Roles
  <2>5. Placed(kn)'
    BY <1>3, <1>6, <2>2, <2>3, <2>4, PlacedMoves DEF Actors, Roles
  <2>6. k["INIT"] > 6 /\ CliReads' => CliReads
    <3>1. named["CLI"] \in Procs /\ named["CLI"] # currpid
      BY <1>4 DEF Workers, Actors, Roles
    <3>2. code'[named["CLI"]] = code[named["CLI"]]
      BY <1>6, <3>1, CodeTypes DEF Continue
    <3> QED BY <1>3, <3>2 DEF CliReads
  <2>7. Meeting(k)'
    BY <1>3, <2>1, <2>6, QuietMeeting
  <2>8. Meeting(kn)'
    BY <2>2, <2>4, <2>7 DEF Meeting, Unresumed
  <2> QED BY <2>5, <2>8 DEF GoesOn
<1> QED BY <1>3, <1>5, <1>6

LEMMA BGoesOn ==
    ASSUME SysInv, semcnt' \in [Sems -> Int], NEW k \in Stages, Placed(k), Meeting(k),
           Made("B", k["INIT"]), currpid = named["B"], code[currpid] # <<>>, Statement
    PROVE  GoesOn
<1> DEFINE n == k["B"]
           m == named["sem"]
           i == named["A"]
<1>1. n \in 1 .. 12 /\ Current = Text("B")[n]
  BY RoleFacts, NamesDiffer DEF Roles
<1>2. k["INIT"] > 6 /\ i \in Workers /\ m \in Sems \ {ISEM}
  <2>1. k["INIT"] > 6 /\ i \in Workers
    BY OnceAllAreMade DEF Actors, Roles
  <2> QED BY <2>1, StageNats DEF Meeting
<1>3. Text("B") = funcB(m, i) /\ i \in Int /\ m \in Int
  BY <1>2, ConstFacts DEF Text, Workers, Procs, Sems
<1>4. /\ \A x \in {1, 2, 4, 6, 8, 10, 12} : funcB(m, i)[x] = Write
      /\ \A x \in {3, 7, 11} : funcB(m, i)[x] = Stmt("sleep", 2)
      /\ funcB(m, i)[5] = Stmt("signal", m)
      /\ funcB(m, i)[9] = Stmt("send", i)
  BY <1>3, FuncBText
<1>5. CASE n \notin {5, 9}
  <2>1. Current = Write \/ Current = Stmt("sleep", 2)
    BY <1>1, <1>3, <1>4, <1>5
  <2>2. Current.op = "write" \/ Current.op = "sleep"
    <3>1. CASE Current = Write
      BY <3>1 DEF Write, Stmt
    <3>2. CASE Current = Stmt("sleep", 2)
      BY <3>2 DEF Stmt
    <3> QED BY <2>1, <3>1, <3>2
  <2>3. WriteStmt \/ SleepStmt
    BY <2>2, WhichStatement
  <2>4. Quiescent /\ FreeKept /\ named' = named /\ Advance
    BY <2>3, WriteSleepCalm, StatementFree DEF SysInv, WriteStmt, SleepStmt
  <2> QED BY <2>4, QuietGoesOn
<1>6. CASE n = 5
  <2>1. Current = Stmt("signal", m)
    BY <1>1, <1>3, <1>4, <1>6
  <2> QED BY <1>2, <1>6, <2>1, BSignals
<1>7. CASE n = 9
  <2>1. Current = Stmt("send", i)
    BY <1>1, <1>3, <1>4, <1>7
  <2> QED BY <1>2, <1>7, <2>1, BSends
<1> QED BY <1>5, <1>6, <1>7

(* INIT goes on, having made nothing.                                      *)
LEMMA InitMoves ==
    ASSUME SysInv, NEW k \in Stages, Placed(k), Meeting(k)',
           currpid = named["INIT"], code[currpid] # <<>>, named' = named, FreeKept, Advance,
           k["INIT"] = 1 \/ k["INIT"] > 6,
           k["C"] <= 5 => \/ k["INIT"] <= 12
                          \/ k["INIT"] = 13 /\ pstate'[named["INIT"]] = "PRSUSP"
    PROVE  GoesOn
<1>1. k["INIT"] \in 1 .. 15 /\ k["INIT"] \in Nat
  BY RoleFacts, StageTypes, NamesDiffer DEF Roles
<1>2. PICK kn \in Stages : /\ kn = Step(k, "INIT") /\ kn["INIT"] = k["INIT"] + 1
                           /\ \A o \in Roles \ {"INIT"} : kn[o] = k[o]
  BY <1>1, StepTypes, NamesDiffer DEF Roles
<1>3. Placed(kn)'
  <2>1. k["INIT"] \notin 3 .. 6 /\ "INIT" \in Roles /\ Made("INIT", k["INIT"])
    BY <1>1, StageTypes DEF Roles
  <2> QED BY <1>2, <2>1, RoleAdvance
<1>4. kn["A"] = k["A"] /\ kn["B"] = k["B"] /\ kn["C"] = k["C"]
  BY <1>2 DEF Roles
<1>5. /\ kn["INIT"] <= 2 => k["INIT"] <= 2
      /\ kn["INIT"] > 2 => k["INIT"] > 2
      /\ kn["INIT"] > 3 => k["INIT"] > 3
      /\ kn["INIT"] > 6 => k["INIT"] > 6
      /\ kn["INIT"] <= 6 => (k["INIT"] <= 6 /\ kn["INIT"] = 2)
  BY <1>1, <1>2
<1>6. kn["INIT"] <= 6 =>
        \A a \in Actors \ {"INIT"} : Made(a, kn["INIT"]) => pstate'[named'[a]] = "PRSUSP"
  <2>1. \A a \in Actors \ {"INIT"} : ~Made(a, 2)
    BY DEF Actors, Roles, Made, MadeAt
  <2> QED BY <1>5, <2>1
<1>7. kn["INIT"] > 2 /\ kn["B"] <= 5 => Unsignalled(kn)'
  BY <1>4, <1>5 DEF Meeting, Unsignalled
<1>8. kn["INIT"] > 3 /\ kn["B"] <= 9 => Unsent(kn)'
  BY <1>4, <1>5 DEF Meeting, Unsent
<1>9. kn["C"] <= 5 => Unresumed(kn)'
  <2>1. k["INIT"] <= 12 => kn["INIT"] <= 13
    BY <1>1, <1>2
  <2>2. k["INIT"] = 13 => kn["INIT"] = 14
    BY <1>2
  <2> QED BY <1>4, <2>1, <2>2 DEF Unresumed
<1>10. Meeting(kn)'
  BY <1>5, <1>6, <1>7, <1>8, <1>9 DEF Meeting
<1> QED BY <1>3, <1>10 DEF GoesOn

LEMMA InitWrites ==
    ASSUME SysInv, semcnt' \in [Sems -> Int], NEW k \in Stages, Placed(k), Meeting(k),
           currpid = named["INIT"], code[currpid] # <<>>, WriteStmt,
           k["INIT"] \in {1, 7, 12, 14, 15}
    PROVE  GoesOn
<1>1. Quiescent /\ FreeKept /\ named' = named /\ Advance
  BY WriteSleepCalm, StatementFree DEF SysInv, WriteStmt
<1>2. k["INIT"] > 6 /\ CliReads' => CliReads
  <2>1. "INIT" \in Roles /\ Made("INIT", k["INIT"]) /\ k["INIT"] \notin 3 .. 6
    BY StageTypes DEF Roles
  <2> QED BY <1>1, <2>1, RoleAdvance
<1>3. Meeting(k)'
  BY <1>1, <1>2, QuietMeeting
<1>4. k["C"] <= 5 => k["INIT"] <= 12
  <2>1. k["C"] <= 5 => Unresumed(k)
    BY DEF Meeting
  <2>2. pstate[named["INIT"]] = "PRCURR"
    BY NeverParked DEF SysInv
  <2>3. k["C"] <= 5 => k["INIT"] <= 13
    BY <2>1, <2>2 DEF Unresumed
  <2> QED BY <2>3
<1>5. k["INIT"] = 1 \/ k["INIT"] > 6
  OBVIOUS
<1> QED BY <1>1, <1>3, <1>4, <1>5, InitMoves

LEMMA InitSuspends ==
    ASSUME SysInv, semcnt' \in [Sems -> Int], NEW k \in Stages, Placed(k), Meeting(k),
           currpid = named["INIT"], code[currpid] # <<>>, SuspendStmt,
           k["INIT"] = 13, Current = OnNamed("suspend", "INIT")
    PROVE  GoesOn
<1>1. Argument = currpid
  BY DEF Argument, OnNamed
<1>2. currpid \in Live /\ pstate[currpid] = "PRCURR"
  BY NeverParked, WorkersLive, PlacedCast, WhoIsThere DEF SysInv
<1>3. /\ Suspend(currpid) /\ UNCHANGED <<semVars, msgVars>> /\ named' = named
      /\ Advance /\ FreeKept
  BY <1>1, <1>2, StatementFree DEF SuspendStmt, SysInv
<1>4. Quiescent /\ pstate'[currpid] = "PRSUSP"
  BY <1>3, SuspendSelfCalm DEF SysInv
<1>5. k["INIT"] > 6 /\ CliReads' => CliReads
  <2>1. "INIT" \in Roles /\ Made("INIT", k["INIT"]) /\ k["INIT"] \notin 3 .. 6
    BY StageTypes DEF Roles
  <2> QED BY <1>3, <2>1, RoleAdvance
<1>6. Meeting(k)'
  BY <1>3, <1>4, <1>5, QuietMeeting
<1> QED BY <1>3, <1>4, <1>6, InitMoves

LEMMA InitResumes ==
    ASSUME SysInv, semcnt' \in [Sems -> Int], NEW k \in Stages, Placed(k), Meeting(k),
           currpid = named["INIT"], code[currpid] # <<>>, ResumeStmt,
           k["INIT"] \in 8 .. 11,
           NEW a \in Actors \ {"INIT"}, Current = OnNamed("resume", a)
    PROVE  GoesOn
<1> DEFINE x == named[a]
<1>0. a # ""
  BY DEF Actors, Roles
<1>1. Argument = x
  BY <1>0 DEF Argument, OnNamed
<1>2. k["INIT"] > 6 /\ Made(a, k["INIT"]) /\ Made("INIT", k["INIT"])
  BY StageTypes DEF Actors, Roles
<1>3. /\ \A b \in Actors : Made(b, k["INIT"]) /\ named[b] \in Workers
      /\ \A b, c \in Actors : named[b] = named[c] => b = c
  <2>1. \A b \in Actors : Made(b, k["INIT"])
    BY <1>2, StageTypes DEF Actors, Roles
  <2> QED BY <2>1 DEF Placed
<1>4. x \in Int /\ x \in Procs /\ x # named["INIT"]
  BY <1>3, ConstFacts DEF Workers, Procs, Actors, Roles
<1>5. Resume(x) /\ UNCHANGED <<semVars, msgVars>> /\ named' = named /\ Advance /\ FreeKept
  BY <1>1, StatementFree DEF ResumeStmt, SysInv
<1> HIDE DEF x
<1>6. k["INIT"] > 6 /\ CliReads' => CliReads
  <2>1. "INIT" \in Roles /\ k["INIT"] \notin 3 .. 6
    BY DEF Roles
  <2> QED BY <1>2, <1>5, <2>1, RoleAdvance
<1>7. \/ Fails
      \/ pstate[x] = "PRSUSP" /\ Calm(x, NSEM, NULLPROC)
  BY <1>4, <1>5, ResumeCalm DEF SysInv
<1>8. CASE Fails
  <2>1. PICK kn \in Stages : /\ kn = Step(k, "INIT")
                             /\ \A o \in Roles \ {"INIT"} : kn[o] = k[o]
    <3>1. k["INIT"] \in 1 .. Length("INIT") /\ Length("INIT") \in Nat /\ "INIT" \in Roles
      BY NamesDiffer DEF Roles
    <3> QED BY <3>1, StepTypes
  <2>2. Placed(kn)'
    <3>1. "INIT" \in Roles /\ k["INIT"] \notin 3 .. 6
      BY DEF Roles
    <3> QED BY <1>2, <1>5, <2>1, <3>1, RoleAdvance
  <2>3. k["B"] <= 5 => k["A"] <= 5
    <3>1. k["A"] \in Nat /\ (k["B"] <= 5 => Unsignalled(k))
      BY <1>2, StageNats DEF Meeting
    <3> QED BY <3>1 DEF Unsignalled
  <2>4. kn["B"] >= k["B"] /\ kn["C"] >= k["C"] /\ (kn["B"] <= 5 => kn["A"] <= 5)
    BY <2>1, <2>3, StageNats DEF Roles
  <2> QED BY <1>5, <1>8, <2>2, <2>4, FailsGoesOn
<1>9. CASE pstate[x] = "PRSUSP" /\ Calm(x, NSEM, NULLPROC)
  <2>1. Cast(k) /\ NULLPROC \in Procs /\ NULLPROC # named["A"]
    BY <1>3, PlacedCast, ConstFacts DEF Workers, Actors, Roles
  <2>2. NSEM # ISEM /\ NSEM # named["sem"]
    <3>1. NSEM \notin Sems /\ ISEM \in Sems
      BY BootConstants, ConstFacts DEF Sems
    <3>2. named["sem"] \in Sems
      BY <1>2, StageNats DEF Meeting
    <3> QED BY <3>1, <3>2
  <2>3. Meeting(k)'
    BY <1>2, <1>4, <1>5, <1>6, <1>9, <2>1, <2>2, MeetingKept
  <2>4. k["INIT"] <= 12
    OBVIOUS
  <2> QED BY <1>2, <1>5, <2>3, <2>4, InitMoves
<1> QED BY <1>7, <1>8, <1>9

Starting == \A r \in Roles : From(Text(r), 1) = Text(r)

LEMMA AtStart == ProgramsOK => Starting
<1> SUFFICES ASSUME ProgramsOK, NEW r \in Roles PROVE From(Text(r), 1) = Text(r)
  BY DEF Starting
<1>1. 1 \in 1 .. Length(r) + 1
  BY NamesDiffer DEF Roles
<1> QED BY <1>1, PlaceFacts

LEMMA CliAtStart == CLI # <<Stmt("command", 0)>>
<1> DEFINE S == {Write, Stmt("yylex", 0)}
           w == <<Write>>
           p == Prompt
<1>1. w \in Seq(S) /\ p \in Seq(S) /\ Len(w) = 1 /\ Len(p) = 2
  BY DEF Prompt
<1>2. CLI = w \o p
  BY DEF CLI
<1> HIDE DEF S, w, p
<1>3. Len(CLI) = 3
  BY <1>1, <1>2, ConcatProperties
<1>4. Len(<<Stmt("command", 0)>>) = 1
  OBVIOUS
<1> QED BY <1>3, <1>4

LEMMA InitTakesSem ==
    ASSUME SysInv, NEW k \in Stages, Placed(k), Meeting(k),
           currpid = named["INIT"], code[currpid] # <<>>, SCreateStmt,
           k["INIT"] = 2, Argument = 0
    PROVE  GoesOn
<1>1. /\ "INIT" \in Roles /\ Made("INIT", 2) /\ Length("INIT") = 15
      /\ \A a \in Actors \ {"INIT"} : ~Made(a, 2) /\ ~Made(a, 3)
      /\ Made("INIT", 3)
  BY NamesDiffer DEF Roles, Actors, Made, MadeAt
<1>2. /\ Tail(code[currpid]) = From(Text("INIT"), 3)
      /\ currpid \in Workers /\ pstate[currpid] = "PRCURR"
  <2>1. /\ Tail(code[currpid]) = From(Text("INIT"), k["INIT"] + 1)
        /\ currpid \in Workers /\ pstate[currpid] = "PRCURR"
    BY <1>1, RoleFacts
  <2> QED BY <2>1
<1>3. /\ SCreateBody(0) /\ Advance /\ Interruptible
      /\ named' = [named EXCEPT !["sem"] =
                      IF exited' THEN @ ELSE CHOOSE s \in Sems : IsNewSem(s)]
      /\ phasmsg' = phasmsg
  BY DEF SCreateStmt, SCreate, Calling, msgVars
<1>4. /\ nextsem \in Sems /\ sstate[nextsem] = "SFREE" /\ sstate[ISEM] = "SUSED"
      /\ semcnt[ISEM] <= 0 /\ ISEM \in Sems
      /\ semcnt \in [Sems -> Int] /\ sstate \in [Sems -> {"SFREE", "SUSED"}]
      /\ named \in [Names -> Int] /\ code \in [Procs -> Seq(Statements)]
  BY NeverParked, BootConstants DEF Meeting, SysInv, ProgramsOK
<1>5. PICK s \in Sems : /\ IsNewSem(s)
                        /\ sstate' = [sstate EXCEPT ![s] = "SUSED"]
                        /\ semcnt' = [semcnt EXCEPT ![s] = 0]
                        /\ UNCHANGED <<procVars, semq, psem>>
  BY <1>3, <1>4 DEF SCreateBody
<1>6. s = nextsem /\ s # ISEM
  BY <1>4, <1>5, FirstSemLookedAt
<1>7. ~exited'
  BY <1>3, <1>5 DEF Interruptible, procVars
<1>8. (CHOOSE t \in Sems : IsNewSem(t)) = s
  <2>1. \A t \in Sems : IsNewSem(t) => t = s
    BY <1>4, <1>6, FirstSemLookedAt
  <2> QED BY <1>5, <2>1
<1>9. named' = [named EXCEPT !["sem"] = s]
  BY <1>3, <1>7, <1>8
<1>10. named'["sem"] = s /\ \A name \in Names \ {"sem"} : named'[name] = named[name]
  BY <1>4, <1>9 DEF Names
<1>11. /\ \A a \in Actors : named'[a] = named[a]
       /\ pstate' = pstate /\ kctx' = kctx
  BY <1>5, <1>10 DEF Actors, Roles, Names, procVars, schedVars
<1>12. PICK kn \in Stages : /\ kn["INIT"] = 3
                            /\ \A o \in Roles \ {"INIT"} : kn[o] = k[o]
  <2> DEFINE kn == Step(k, "INIT")
  <2>1. kn \in Stages /\ kn["INIT"] = 3 /\ \A o \in Roles \ {"INIT"} : kn[o] = k[o]
    BY <1>1, StepTypes
  <2> QED BY <2>1
<1>13. \A o \in Roles \ {"INIT"} : kn[o] = 1
  BY <1>1, <1>12 DEF Placed, Actors
<1>14. /\ code'[currpid] = From(Text("INIT"), 3)
       /\ \A p \in Procs \ {currpid} : code'[p] = code[p]
  BY <1>2, <1>3, <1>4 DEF Advance, Continue, Workers
<1>15. Placed(kn)'
  <2>1. \A r \in Roles : Made(r, 3) => code'[named'[r]] = From(Text(r)', kn[r])
    <3>1. Text("INIT")' = Text("INIT")
      BY DEF Text
    <3> QED BY <1>1, <1>11, <1>12, <1>14, <3>1 DEF Actors
  <2>2. \A p \in Procs : code'[p] # <<>> =>
            pstate'[p] # "PRFREE" /\ \E a \in Actors : Made(a, 3) /\ p = named'[a]
    <3> SUFFICES ASSUME NEW p \in Procs, code'[p] # <<>>
                 PROVE  pstate[p] # "PRFREE" /\ p = named["INIT"]
      BY <1>1, <1>11 DEF Actors
    <3>1. CASE p = currpid
      BY <1>2, <3>1
    <3>2. CASE p # currpid
      <4>1. code[p] # <<>>
        BY <1>14, <3>2
      <4> QED BY <1>1, <4>1 DEF Placed, Actors
    <3> QED BY <3>1, <3>2
  <2>3. /\ \A a \in Actors : Made(a, 3) => named'[a] \in Workers
        /\ \A a, b \in Actors :
              Made(a, 3) /\ Made(b, 3) /\ named'[a] = named'[b] => a = b
        /\ named'["CLI"] # 0 => Made("CLI", 3)
    BY <1>1, <1>2, <1>11 DEF Actors, Placed
  <2>4. /\ \A r \in Roles : ~Made(r, 3) => kn[r] = 1
        /\ ~Made("CLI", 3)
    BY <1>1, <1>13 DEF Actors, Roles
  <2> QED BY <1>12, <2>1, <2>2, <2>3, <2>4 DEF Placed
<1>16. Meeting(kn)'
  <2>1. semcnt'[named'["sem"]] = 0 /\ semcnt'[ISEM] <= 0
    BY <1>4, <1>5, <1>6, <1>10
  <2>2. kn["A"] = 1 /\ named'["sem"] \in Sems \ {ISEM}
    BY <1>6, <1>10, <1>13 DEF Roles
  <2>3. \A p \in Procs : kctx'[p].op \notin SemLoops
    BY <1>11 DEF Meeting
  <2>4. Unsignalled(kn)' /\ Unresumed(kn)'
    BY <1>12, <2>1, <2>2 DEF Unsignalled, Unresumed
  <2>5. \A a \in Actors \ {"INIT"} : ~Made(a, kn["INIT"])
    BY <1>1, <1>12
  <2> QED BY <1>12, <2>1, <2>2, <2>3, <2>4, <2>5 DEF Meeting
<1> QED BY <1>15, <1>16 DEF GoesOn

(* newpid finds one entry.                                                 *)
LEMMA SameDistance ==
    ASSUME NEW N \in Nat, NEW n \in 0 .. N - 1, NEW a \in 0 .. N - 1, NEW b \in 0 .. N - 1,
           (n - a) % N = (n - b) % N
    PROVE  a = b
<1>1. ASSUME NEW x \in 0 .. N - 1
      PROVE  (n - x) % N = IF n >= x THEN n - x ELSE n - x + N
  <2>1. CASE n >= x
    <3>1. n - x \in 0 .. N - 1 /\ N > 0
      BY <2>1
    <3> QED BY <2>1, <3>1, SmallModulus
  <2>2. CASE n < x
    <3>1. n - x + N \in 0 .. N - 1 /\ N > 0
      BY <2>2
    <3>2. (n - x + N) % N = n - x + N
      BY <3>1, SmallModulus
    <3>3. (n - x) % N = (n - x + N) % N
      BY <3>1
    <3> QED BY <2>2, <3>2, <3>3
  <2> QED BY <2>1, <2>2
<1>2. /\ (n - a) % N = IF n >= a THEN n - a ELSE n - a + N
      /\ (n - b) % N = IF n >= b THEN n - b ELSE n - b + N
  BY <1>1
<1> QED BY <1>2

LEMMA OnePid ==
    ASSUME nextproc \in Procs, NEW p \in Procs, NEW o \in Procs, IsNewPid(p), IsNewPid(o)
    PROVE  p = o
<1>1. Distance(p) <= Distance(o) /\ Distance(o) <= Distance(p)
  BY DEF IsNewPid
<1>2. NPROC \in Nat /\ NPROC > 0 /\ Procs = 0 .. NPROC - 1
  BY ConstFacts DEF Procs
<1>3. Distance(p) \in Int /\ Distance(o) \in Int
  BY <1>2 DEF Distance
<1>4. (nextproc - p) % NPROC = (nextproc - o) % NPROC
  BY <1>1, <1>3 DEF Distance
<1> QED BY <1>2, <1>4, SameDistance

(* What INIT leaves behind when it has made a: pid.                        *)
LEMMA InitMakes ==
    ASSUME SysInv, SysInv', NEW k \in Stages, Placed(k), Meeting(k),
           NEW a \in Actors \ {"INIT"}, k["INIT"] = MadeAt(a),
           currpid = named["INIT"], code[currpid] # <<>>,
           NEW pid \in Procs, pstate[pid] = "PRFREE",
           pstate' = [pstate EXCEPT ![pid] = "PRSUSP"],
           phasmsg' = [phasmsg EXCEPT ![pid] = FALSE],
           kctx' = [kctx EXCEPT ![pid] = OutOfKernel],
           UNCHANGED <<semcnt, sstate, nextsem>>,
           named' = [named EXCEPT ![a] = pid],
           code' = [code EXCEPT ![currpid] = Tail(code[currpid]), ![pid] = Program(a, 0)]
    PROVE  GoesOn
<1> DEFINE n == k["INIT"]
<1>1. /\ n \in 3 .. 6 /\ "INIT" \in Roles /\ Length("INIT") = 15
      /\ \A b \in Actors : MadeAt(b) \in Nat
      /\ \A b \in Actors : MadeAt(b) < n + 1 <=> MadeAt(b) < n \/ b = a
      /\ ~(MadeAt(a) < n) /\ MadeAt("INIT") < n
  BY DEF Actors, Roles, MadeAt, Length
<1>2. /\ \A b \in Actors : Made(b, n + 1) <=> Made(b, n) \/ b = a
      /\ ~Made(a, n) /\ Made("INIT", n)
  BY <1>1 DEF Made
<1>3. /\ Tail(code[currpid]) = From(Text("INIT"), n + 1)
      /\ currpid \in Workers /\ pstate[currpid] = "PRCURR"
  BY <1>1, <1>2, RoleFacts
<1>4. PICK kn \in Stages : /\ kn["INIT"] = n + 1
                           /\ \A o \in Roles \ {"INIT"} : kn[o] = k[o]
  <2> DEFINE kn == Step(k, "INIT")
  <2>1. kn \in Stages /\ kn["INIT"] = n + 1 /\ \A o \in Roles \ {"INIT"} : kn[o] = k[o]
    BY <1>1, StepTypes
  <2> QED BY <2>1
<1> HIDE DEF n
<1>5. /\ named \in [Names -> Int] /\ code \in [Procs -> Seq(Statements)]
      /\ pstate \in [Procs -> States] /\ pstate[NULLPROC] # "PRFREE"
      /\ phasmsg \in [Procs -> BOOLEAN]
      /\ kctx \in [Procs -> [op : KernelOps, arg : Int, n : Int]]
  BY SchedInvParts, CodeTypes, NeverParked, ConstFacts
     DEF SysInv, ProgramsOK, IInv, MsgTypeOK, TabOK, SchedOKNow, SchedOK, Runnable
<1>6. /\ named'[a] = pid /\ pid \in Workers /\ pid # currpid
      /\ \A name \in Names \ {a} : named'[name] = named[name]
  BY <1>3, <1>5, NamesDiffer DEF Workers
<1>7. \A b \in Actors : Made(b, n) =>
          /\ b # a /\ named'[b] = named[b] /\ named[b] \in Workers
          /\ named[b] # pid /\ pstate[named[b]] # "PRFREE"
  <2> SUFFICES ASSUME NEW b \in Actors, Made(b, n)
               PROVE  /\ b # a /\ named'[b] = named[b] /\ named[b] \in Workers
                      /\ pstate[named[b]] # "PRFREE"
    OBVIOUS
  <2>1. b # a /\ named'[b] = named[b]
    BY <1>2, <1>6, NamesDiffer
  <2>2. named[b] \in Workers
    BY DEF Placed, n
  <2>3. pstate[named[b]] # "PRFREE"
    <3>1. CASE b = "INIT"
      BY <1>3, <3>1
    <3>2. CASE b # "INIT"
      <4>1. n <= 6
        BY <1>1
      <4>2. pstate[named[b]] = "PRSUSP"
        BY <3>2, <4>1 DEF Meeting, n
      <4> QED BY <4>2
    <3> QED BY <3>1, <3>2
  <2> QED BY <2>1, <2>2, <2>3
<1>8. /\ code'[currpid] = From(Text("INIT"), n + 1) /\ code'[pid] = Program(a, 0)
      /\ \A p \in Procs \ {currpid, pid} : code'[p] = code[p]
  BY <1>3, <1>5, <1>6 DEF Workers
<1>9. /\ pstate'[pid] = "PRSUSP" /\ phasmsg'[pid] = FALSE /\ kctx'[pid] = OutOfKernel
      /\ \A p \in Procs \ {pid} : /\ pstate'[p] = pstate[p] /\ phasmsg'[p] = phasmsg[p]
                                  /\ kctx'[p] = kctx[p]
  BY <1>5
<1>10. /\ \A r \in Roles : Made(r, n) => Text(r)' = Text(r)
       /\ a \in Roles => Program(a, 0) = Text(a)'
  <2>1. /\ Text("INIT")' = Text("INIT")
        /\ named'["sem"] = named["sem"]
    BY <1>6, NamesDiffer DEF Text, Names, Actors, Roles
  <2>2. Text("A")' = Text("A") /\ (a = "A" => Program(a, 0) = Text(a)')
    BY <2>1 DEF Text, Program
  <2>3. /\ named'["INIT"] = named["INIT"]
        /\ a \in {"B", "C", "CLI"} => named'["A"] = named["A"]
    BY <1>6 DEF Names
  <2>4. a = "B" => Program(a, 0) = Text(a)'
    BY <2>1, <2>3 DEF Text, Program
  <2>5. Text("C")' = Text("C") /\ (a = "C" => Program(a, 0) = Text(a)')
    BY <2>3 DEF Text, Program
  <2>6. Made("B", n) => a \in {"C", "CLI"}
    BY DEF Made, MadeAt, n, Actors, Roles
  <2>7. Made("B", n) => Text("B")' = Text("B")
    BY <2>1, <2>3, <2>6 DEF Text
  <2>8. a \in {"A", "B", "C", "CLI"}
    BY DEF Actors, Roles
  <2> QED BY <2>1, <2>2, <2>4, <2>5, <2>7, <2>8 DEF Roles
<1>11. \A r \in Roles : From(Text(r)', 1) = Text(r)'
  <2>1. ProgramsOK'
    BY DEF SysInv
  <2>2. Starting'
    BY <2>1, AtStart, PTL
  <2> QED BY <2>2 DEF Starting
<1>12. Placed(kn)'
  <2>1. \A r \in Roles : Made(r, n + 1) => code'[named'[r]] = From(Text(r)', kn[r])
    <3> SUFFICES ASSUME NEW r \in Roles, Made(r, n + 1)
                 PROVE  code'[named'[r]] = From(Text(r)', kn[r])
      OBVIOUS
    <3>0. r \in Actors
      BY DEF Actors
    <3>1. CASE r = "INIT"
      <4>1. named'["INIT"] = currpid /\ Text("INIT")' = Text("INIT")
        BY <1>1, <1>2, <1>7, <1>10, <3>0, <3>1
      <4> QED BY <1>4, <1>8, <3>1, <4>1
    <3>2. CASE r = a
      <4>1. kn[r] = 1
        <5>1. k[r] = 1
          BY <1>2, <3>2 DEF Placed, n
        <5> QED BY <1>4, <3>2, <5>1
      <4>2. code'[named'[r]] = Text(r)'
        BY <1>6, <1>8, <1>10, <3>2
      <4> QED BY <1>11, <4>1, <4>2
    <3>3. CASE r # "INIT" /\ r # a
      <4>1. Made(r, n)
        BY <1>2, <3>0, <3>3
      <4>2. /\ named'[r] = named[r] /\ named[r] \in Procs /\ named[r] # pid
            /\ Text(r)' = Text(r) /\ kn[r] = k[r]
        BY <1>4, <1>7, <1>10, <3>0, <3>3, <4>1 DEF Workers
      <4>3. named[r] # currpid
        BY <1>1, <1>2, <3>0, <3>3, <4>1 DEF Placed, n, Actors
      <4>4. code[named[r]] = From(Text(r), k[r])
        BY <4>1 DEF Placed, n
      <4> QED BY <1>8, <4>2, <4>3, <4>4
    <3> QED BY <3>1, <3>2, <3>3
  <2>2. \A r \in Roles : ~Made(r, n + 1) => kn[r] = 1
    <3> SUFFICES ASSUME NEW r \in Roles, ~Made(r, n + 1)
                 PROVE  kn[r] = 1
      OBVIOUS
    <3>1. ~Made(r, n) /\ r # "INIT"
      BY <1>2 DEF Actors
    <3> QED BY <1>4, <3>1 DEF Placed, n
  <2>3. Made("CLI", n + 1) => code'[named'["CLI"]] \in CliLeft
    <3> SUFFICES ASSUME Made("CLI", n + 1) PROVE code'[named'["CLI"]] \in CliLeft
      OBVIOUS
    <3>1. a = "CLI"
      BY <1>1 DEF Made, MadeAt, Actors, Roles
    <3>2. Program(a, 0) = CLI
      BY <3>1 DEF Program
    <3> QED BY <1>6, <1>8, <3>1, <3>2 DEF CliLeft
  <2>4. \A p \in Procs : code'[p] # <<>> =>
            pstate'[p] # "PRFREE" /\ \E b \in Actors : Made(b, n + 1) /\ p = named'[b]
    <3> SUFFICES ASSUME NEW p \in Procs, code'[p] # <<>>
                 PROVE  pstate'[p] # "PRFREE" /\ \E b \in Actors : Made(b, n + 1) /\ p = named'[b]
      OBVIOUS
    <3>1. CASE p = pid
      BY <1>2, <1>6, <1>9, <3>1
    <3>2. CASE p # pid
      <4>1. code[p] # <<>>
        BY <1>8, <3>2
      <4>2. PICK b \in Actors : Made(b, n) /\ p = named[b]
        BY <4>1 DEF Placed, n
      <4>3. named'[b] = p /\ Made(b, n + 1) /\ pstate'[p] # "PRFREE"
        BY <1>2, <1>7, <1>9, <3>2, <4>2
      <4> QED BY <4>3
    <3> QED BY <3>1, <3>2
  <2>5. \A b \in Actors : Made(b, n + 1) => named'[b] \in Workers
    BY <1>2, <1>6, <1>7
  <2>6. \A b, c \in Actors :
            Made(b, n + 1) /\ Made(c, n + 1) /\ named'[b] = named'[c] => b = c
    <3> SUFFICES ASSUME NEW b \in Actors, NEW c \in Actors, Made(b, n + 1), Made(c, n + 1),
                        named'[b] = named'[c]
                 PROVE  b = c
      OBVIOUS
    <3>1. (b = a \/ Made(b, n)) /\ (c = a \/ Made(c, n))
      BY <1>2
    <3>2. CASE b = a \/ c = a
      BY <1>6, <1>7, <3>1, <3>2
    <3>3. CASE Made(b, n) /\ Made(c, n)
      BY <1>7, <3>3 DEF Placed, n
    <3> QED BY <3>1, <3>2, <3>3
  <2>7. named'["CLI"] # 0 => Made("CLI", n + 1)
    <3> SUFFICES ASSUME a # "CLI", named'["CLI"] # 0 PROVE Made("CLI", n + 1)
      BY <1>2 DEF Actors
    <3>1. named["CLI"] # 0
      BY <1>6 DEF Names
    <3> QED BY <1>2, <3>1 DEF Placed, n, Actors
  <2>8. kn["INIT"] = n + 1
    BY <1>4
  <2>9. /\ \A r \in Roles :
              Made(r, kn["INIT"]) => code'[named'[r]] = From(Text(r)', kn[r])
        /\ \A r \in Roles : ~Made(r, kn["INIT"]) => kn[r] = 1
        /\ Made("CLI", kn["INIT"]) => code'[named'["CLI"]] \in CliLeft
    BY <2>1, <2>2, <2>3, <2>8
  <2>10. \A p \in Procs : code'[p] # <<>> =>
            pstate'[p] # "PRFREE" /\ \E b \in Actors : Made(b, kn["INIT"]) /\ p = named'[b]
    BY <2>4, <2>8
  <2>11. /\ \A b \in Actors : Made(b, kn["INIT"]) => named'[b] \in Workers
         /\ \A b, c \in Actors :
               Made(b, kn["INIT"]) /\ Made(c, kn["INIT"]) /\ named'[b] = named'[c] => b = c
         /\ named'["CLI"] # 0 => Made("CLI", kn["INIT"])
    BY <2>5, <2>6, <2>7, <2>8
  <2> QED BY <2>9, <2>10, <2>11 DEF Placed
<1>13. Meeting(kn)'
  <2>0. kn["INIT"] \in 4 .. 7 /\ n + 1 \in 4 .. 7 /\ n > 2
    BY <1>1, <1>4
  <2>1. \A p \in Procs : kctx'[p].op \notin SemLoops
    <3>1. OutOfKernel.op \notin SemLoops
      BY BootConstants DEF SemLoops
    <3> QED BY <1>9, <3>1 DEF Meeting
  <2>2. semcnt'[ISEM] <= 0
    BY DEF Meeting
  <2>3. named'["sem"] = named["sem"] /\ named["sem"] \in Sems \ {ISEM}
    BY <1>6, <2>0 DEF Names, Actors, Roles, Meeting, n
  <2>4. kn["INIT"] <= 6 => \A b \in Actors \ {"INIT"} :
            Made(b, kn["INIT"]) => pstate'[named'[b]] = "PRSUSP"
    <3> SUFFICES ASSUME NEW b \in Actors \ {"INIT"}, Made(b, n + 1)
                 PROVE  pstate'[named'[b]] = "PRSUSP"
      BY <1>4
    <3>1. CASE b = a
      BY <1>6, <1>9, <3>1
    <3>2. CASE b # a
      <4>1. Made(b, n) /\ n <= 6
        BY <1>1, <1>2, <3>2
      <4>2. pstate[named[b]] = "PRSUSP"
        BY <4>1 DEF Meeting, n
      <4> QED BY <1>7, <1>9, <4>1, <4>2 DEF Workers
    <3> QED BY <3>1, <3>2
  <2>5. kn["A"] = k["A"] /\ kn["B"] = k["B"] /\ k["A"] \in Nat
    BY <1>4, StageNats DEF Roles
  <2>6. kn["B"] <= 5 => Unsignalled(kn)'
    <3> SUFFICES ASSUME kn["B"] <= 5 PROVE Unsignalled(kn)'
      OBVIOUS
    <3>1. Unsignalled(k)
      BY <2>0, <2>5 DEF Meeting, n
    <3>2. k["A"] <= 3
      <4>1. CASE Made("A", n)
        <5>1. pstate[named["A"]] = "PRSUSP"
          BY <1>1, <4>1 DEF Meeting, n, Actors, Roles
        <5> QED BY <3>1, <5>1 DEF Unsignalled
      <4>2. CASE ~Made("A", n)
        <5>1. k["A"] = 1
          BY <4>2 DEF Placed, n, Roles
        <5> QED BY <5>1
      <4> QED BY <4>1, <4>2
    <3>3. semcnt'[named'["sem"]] <= 0
      BY <2>3, <3>1 DEF Unsignalled
    <3> QED BY <2>5, <3>2, <3>3 DEF Unsignalled
  <2>7. kn["B"] <= 9 => Unsent(kn)'
    <3> SUFFICES ASSUME kn["B"] <= 9 PROVE Unsent(kn)'
      OBVIOUS
    <3>1. CASE a = "A"
      <4>1. k["A"] = 1
        BY <1>2, <3>1 DEF Placed, n, Roles
      <4>2. phasmsg'[named'["A"]] = FALSE
        BY <1>6, <1>9, <3>1
      <4> QED BY <2>5, <4>1, <4>2 DEF Unsent
    <3>2. CASE a # "A"
      <4>1. n > 3 /\ Made("A", n)
        BY <1>1, <3>2 DEF n, Made, MadeAt, Actors, Roles
      <4>2. Unsent(k)
        BY <2>5, <4>1 DEF Meeting, n
      <4>3. pstate[named["A"]] = "PRSUSP"
        BY <1>1, <4>1 DEF Meeting, n, Actors, Roles
      <4>4. named'["A"] = named["A"] /\ named["A"] # pid /\ named["A"] \in Procs
        BY <1>7, <4>1 DEF Actors, Roles, Workers
      <4>5. phasmsg'[named'["A"]] = phasmsg[named["A"]]
        BY <1>9, <4>4
      <4> QED BY <2>5, <4>2, <4>3, <4>5 DEF Unsent
    <3> QED BY <3>1, <3>2
  <2>8. Unresumed(kn)'
    BY <2>0 DEF Unresumed
  <2>9. kn["INIT"] > 6 => ~CliReads'
    <3> SUFFICES ASSUME kn["INIT"] > 6 PROVE ~CliReads'
      OBVIOUS
    <3>1. n = 6
      BY <1>1, <1>4
    <3>2. a = "CLI"
      BY <3>1 DEF n, MadeAt, Actors, Roles
    <3>3. Program(a, 0) = CLI
      BY <3>2 DEF Program
    <3> QED BY <1>6, <1>8, <3>2, <3>3, CliAtStart DEF CliReads
  <2> QED BY <2>0, <2>1, <2>2, <2>3, <2>4, <2>6, <2>7, <2>8, <2>9 DEF Meeting
<1> QED BY <1>12, <1>13 DEF GoesOn

LEMMA InitCreates ==
    ASSUME SysInv, SysInv', NEW k \in Stages, Placed(k), Meeting(k),
           NEW a \in Actors \ {"INIT"}, k["INIT"] = MadeAt(a),
           currpid = named["INIT"], code[currpid] # <<>>, CreateStmt,
           Current = OnNamed("create", a)
    PROVE  GoesOn
<1> DEFINE ssize == IF Current.name = "CLI" THEN 10 * INITSTK ELSE INITSTK
<1>1. Current.name = a /\ Current.n = 0 /\ a \in DOMAIN named
  BY NamesDiffer DEF OnNamed, SysInv, ProgramsOK
<1>2. /\ Interruptible
      /\ \/ SemError
         \/ \E pid \in Procs : NewProcess(pid, ssize, INITPRIO)
      /\ \/ exited' /\ named' = named
         \/ \E pid \in Procs :
               /\ ~exited' /\ IsNewPid(pid)
               /\ named' = [named EXCEPT ![a] = pid]
               /\ code' = [code EXCEPT ![currpid] = Tail(code[currpid]), ![pid] = Program(a, 0)]
  BY <1>1 DEF CreateStmt, Create, Calling
<1> HIDE DEF ssize
<1>3. CASE exited' /\ named' = named
  <2>1. ~Made("CLI", k["INIT"])
    BY DEF Made, MadeAt, Actors, Roles
  <2>2. named'["CLI"] = 0
    BY <1>3, <2>1 DEF Placed
  <2>3. exited' = TRUE
    <3>1. SchedInv'
      BY DEF SysInv, IInv
    <3>2. exited' \in BOOLEAN
      BY <3>1 DEF SchedInv, ProcTypeOK
    <3> QED BY <1>3, <3>2
  <2>4. Met(k)'
    BY <2>2 DEF Met
  <2> QED BY <2>3, <2>4 DEF GoesOn
<1>4. ASSUME NEW pid \in Procs, ~exited', IsNewPid(pid),
             named' = [named EXCEPT ![a] = pid],
             code' = [code EXCEPT ![currpid] = Tail(code[currpid]), ![pid] = Program(a, 0)]
      PROVE  GoesOn
  <2>1. PICK o \in Procs : NewProcess(o, ssize, INITPRIO)
    BY <1>2, <1>4 DEF SemError, HandleError
  <2>2. nextproc \in Procs
    BY DEF SysInv, IInv, SchedInv, ProcTypeOK
  <2>3. o = pid
    BY <1>4, <2>1, <2>2, OnePid DEF NewProcess
  <2>4. /\ pstate[pid] = "PRFREE"
        /\ pstate' = [pstate EXCEPT ![pid] = "PRSUSP"]
        /\ phasmsg' = [phasmsg EXCEPT ![pid] = FALSE]
        /\ kctx' = [kctx EXCEPT ![pid] = OutOfKernel]
        /\ UNCHANGED <<semcnt, sstate, nextsem>>
    BY <2>1, <2>3 DEF NewProcess, IsNewPid
  <2> QED BY <1>4, <2>4, InitMakes
<1> QED BY <1>2, <1>3, <1>4

LEMMA InitGoesOn ==
    ASSUME SysInv, SysInv', NEW k \in Stages, Placed(k), Meeting(k),
           currpid = named["INIT"], code[currpid] # <<>>, Statement
    PROVE  GoesOn
<1> DEFINE n == k["INIT"]
           f == initial_process
<1>1. n \in 1 .. 15 /\ Current = f[n]
  <2>1. "INIT" \in Roles /\ Made("INIT", k["INIT"]) /\ Length("INIT") = 15
    BY NamesDiffer, StageTypes DEF Roles
  <2>2. Text("INIT") = f
    BY DEF Text
  <2> QED BY <2>1, <2>2, RoleFacts
<1>2. /\ \A x \in {1, 7, 12, 14, 15} : f[x] = Write
      /\ f[2] = Stmt("screate", 0)
      /\ f[3] = OnNamed("create", "A") /\ f[4] = OnNamed("create", "B")
      /\ f[5] = OnNamed("create", "C") /\ f[6] = OnNamed("create", "CLI")
      /\ f[8] = OnNamed("resume", "A") /\ f[9] = OnNamed("resume", "B")
      /\ f[10] = OnNamed("resume", "C") /\ f[11] = OnNamed("resume", "CLI")
      /\ f[13] = OnNamed("suspend", "INIT")
  BY InitialText
<1> HIDE DEF f
<1>3. semcnt' \in [Sems -> Int]
  <2>1. SemInv'
    BY DEF SysInv, IInv
  <2> QED BY <2>1 DEF SemInv, SemTypeOK
<1>4. CASE n \in {1, 7, 12, 14, 15}
  <2>1. Current = Write
    BY <1>1, <1>2, <1>4
  <2>2. Current.op = "write"
    BY <2>1 DEF Write, Stmt
  <2>3. WriteStmt
    BY <2>2, WhichStatement
  <2> QED BY <1>3, <1>4, <2>3, InitWrites
<1>5. CASE n = 2
  <2>1. Current = Stmt("screate", 0)
    BY <1>1, <1>2, <1>5
  <2>2. Current.op = "screate" /\ Argument = 0
    BY <2>1 DEF Stmt, Argument
  <2>3. SCreateStmt
    BY <2>2, WhichStatement
  <2> QED BY <1>5, <2>2, <2>3, InitTakesSem
<1>6. ASSUME NEW a \in Actors \ {"INIT"}, n = MadeAt(a), Current = OnNamed("create", a)
      PROVE  GoesOn
  <2>1. Current.op = "create"
    BY <1>6 DEF OnNamed
  <2>2. CreateStmt
    BY <2>1, WhichStatement
  <2> QED BY <1>6, <2>2, InitCreates
<1>7. CASE n \in 3 .. 6
  <2>1. PICK a \in {"A", "B", "C", "CLI"} : n = MadeAt(a) /\ Current = OnNamed("create", a)
    <3>1. /\ n = 3 => Current = OnNamed("create", "A")
          /\ n = 4 => Current = OnNamed("create", "B")
          /\ n = 5 => Current = OnNamed("create", "C")
          /\ n = 6 => Current = OnNamed("create", "CLI")
      BY <1>1, <1>2
    <3>2. n = 3 \/ n = 4 \/ n = 5 \/ n = 6
      BY <1>7
    <3> HIDE DEF n
    <3> QED BY <3>1, <3>2, NamesDiffer
  <2>2. a \in Actors \ {"INIT"}
    BY DEF Actors, Roles
  <2> QED BY <1>6, <2>1, <2>2
<1>8. CASE n \in 8 .. 11
  <2>1. PICK a \in {"A", "B", "C", "CLI"} : Current = OnNamed("resume", a)
    <3>1. /\ n = 8 => Current = OnNamed("resume", "A")
          /\ n = 9 => Current = OnNamed("resume", "B")
          /\ n = 10 => Current = OnNamed("resume", "C")
          /\ n = 11 => Current = OnNamed("resume", "CLI")
      BY <1>1, <1>2
    <3>2. n = 8 \/ n = 9 \/ n = 10 \/ n = 11
      BY <1>8
    <3> HIDE DEF n
    <3> QED BY <3>1, <3>2
  <2>2. a \in Actors \ {"INIT"} /\ Current.op = "resume"
    BY <2>1 DEF Actors, Roles, OnNamed
  <2>3. ResumeStmt
    BY <2>2, WhichStatement
  <2> QED BY <1>3, <1>8, <2>1, <2>2, <2>3, InitResumes
<1>9. CASE n = 13
  <2>1. Current = OnNamed("suspend", "INIT")
    BY <1>1, <1>2, <1>9
  <2>2. Current.op = "suspend"
    BY <2>1 DEF OnNamed
  <2>3. SuspendStmt
    BY <2>2, WhichStatement
  <2> QED BY <1>3, <1>9, <2>1, <2>3, InitSuspends
<1> QED BY <1>1, <1>4, <1>5, <1>7, <1>8, <1>9

LEMMA CliTexts ==
    /\ Head(CLI) = Write /\ Tail(CLI) = Prompt /\ CLI # <<>>
    /\ Head(Prompt) = Write /\ Tail(Prompt) = <<Stmt("yylex", 0)>> /\ Prompt # <<>>
    /\ Prompt # <<Stmt("command", 0)>>
    /\ <<Stmt("yylex", 0)>> # <<Stmt("command", 0)>>
    /\ Head(<<Stmt("yylex", 0)>>) = Stmt("yylex", 0)
<1> DEFINE w == <<Write>>
           p == Prompt
           S == Statements
<1>1. w \in Seq(S) /\ p \in Seq(S) /\ Len(w) = 1 /\ Len(p) = 2 /\ w[1] = Write
  BY StmtTypes, WritesBuilt DEF Prompt, OtherOps
<1>2. CLI = w \o p
  BY DEF CLI
<1>3. Head(p) = Write /\ Tail(p) = <<Stmt("yylex", 0)>>
  BY DEF Prompt
<1> HIDE DEF w, p
<1>4. /\ CLI \in Seq(S) /\ Len(CLI) = 3 /\ CLI[1] = Write
      /\ CLI[2] = p[1] /\ CLI[3] = p[2]
  <2>1. /\ w \o p \in Seq(Statements) /\ Len(w \o p) = Len(w) + Len(p)
        /\ \A n \in 1 .. Len(w) : (w \o p)[n] = w[n]
        /\ \A n \in 1 .. Len(p) : (w \o p)[Len(w) + n] = p[n]
    BY <1>1, ConcatPlaces
  <2> QED BY <1>1, <1>2, <2>1
<1> HIDE DEF S
<1>5. CLI # <<>> /\ Head(CLI) = Write /\ Tail(CLI) \in Seq(S) /\ Len(Tail(CLI)) = 2
      /\ Tail(CLI)[1] = CLI[2] /\ Tail(CLI)[2] = CLI[3]
  <2>1. CLI # <<>> /\ Head(CLI) = Write
    BY <1>4
  <2> DEFINE t == Tail(CLI)
  <2>2. t \in Seq(S) /\ Len(t) = Len(CLI) - 1 /\ \A i \in 1 .. Len(t) : t[i] = CLI[i + 1]
    BY <1>4, <2>1, HeadTailProperties
  <2> HIDE DEF t
  <2>3. Len(t) = 2 /\ t[1] = CLI[2] /\ t[2] = CLI[3]
    BY <1>4, <2>2
  <2> QED BY <2>1, <2>2, <2>3 DEF t
<1>6. Tail(CLI) = p
  <2>1. \A i \in 1 .. Len(p) : Tail(CLI)[i] = p[i]
    <3>1. \A i \in 1 .. 2 : i = 1 \/ i = 2
      OBVIOUS
    <3> QED BY <1>1, <1>4, <1>5, <3>1
  <2> QED BY <1>1, <1>5, <2>1, SeqEqual
<1>7. p # <<>> /\ p # <<Stmt("command", 0)>>
  <2>1. Len(<<Stmt("command", 0)>>) = 1
    OBVIOUS
  <2> QED BY <1>1, <2>1
<1>8. <<Stmt("yylex", 0)>> # <<Stmt("command", 0)>>
  <2>1. Stmt("yylex", 0).op = "yylex" /\ Stmt("command", 0).op = "command"
    BY DEF Stmt
  <2>2. <<Stmt("yylex", 0)>>[1] = Stmt("yylex", 0) /\ <<Stmt("command", 0)>>[1] = Stmt("command", 0)
    OBVIOUS
  <2> QED BY <2>1, <2>2
<1> QED BY <1>3, <1>5, <1>6, <1>7, <1>8 DEF p

(* CLI goes on until it waits for a line that nobody types.                *)
LEMMA CliGoesOn ==
    ASSUME SysInv, semcnt' \in [Sems -> Int], NEW k \in Stages, Placed(k), Meeting(k),
           Made("CLI", k["INIT"]), currpid = named["CLI"], code[currpid] # <<>>, Statement
    PROVE  GoesOn
<1> DEFINE c == code[currpid]
<1>1. /\ k["INIT"] > 6 /\ currpid \in Workers /\ pstate[currpid] = "PRCURR"
      /\ c \in CliLeft
  <2>1. k["INIT"] > 6 /\ currpid \in Workers
    BY OnceAllAreMade DEF Actors, Roles
  <2>2. pstate[currpid] = "PRCURR"
    BY NeverParked DEF SysInv
  <2> QED BY <2>1, <2>2 DEF Placed
<1>2. c # <<Stmt("command", 0)>>
  BY <1>1 DEF Meeting, CliReads
<1>3. ASSUME NEW rest \in CliLeft, Continue(rest), named' = named, FreeKept
      PROVE  Placed(k)' /\ code'[named'["CLI"]] = rest
  <2>1. Placed(k)'
    BY <1>3, PlacedMoves DEF Actors, Roles
  <2>2. code'[currpid] = rest
    BY <1>3, CodeTypes DEF Continue
  <2> QED BY <1>3, <2>1, <2>2
<1>4. CASE c \in {CLI, Prompt}
  <2>1. Current = Write /\ Tail(c) \in {Prompt, <<Stmt("yylex", 0)>>}
    BY <1>4, CliTexts DEF Current
  <2>2. Current.op = "write"
    BY <2>1 DEF Write, Stmt
  <2>3. WriteStmt
    BY <2>2, WhichStatement
  <2>4. Quiescent /\ FreeKept /\ named' = named /\ Advance
    BY <2>3, WriteSleepCalm, StatementFree DEF SysInv, WriteStmt
  <2>5. Placed(k)' /\ ~CliReads'
    <3>1. Tail(c) \in CliLeft /\ Continue(Tail(c))
      BY <2>1, <2>4 DEF CliLeft, Advance
    <3>2. Placed(k)' /\ code'[named'["CLI"]] = Tail(c)
      BY <1>3, <2>4, <3>1
    <3> QED BY <2>1, <3>2, CliTexts DEF CliReads
  <2>6. Meeting(k)'
    BY <2>4, <2>5, QuietMeeting
  <2> QED BY <2>5, <2>6 DEF GoesOn
<1>5. CASE c = <<Stmt("yylex", 0)>>
  <2>1. Current = Stmt("yylex", 0)
    BY <1>5, CliTexts DEF Current
  <2>2. Current.op = "yylex"
    BY <2>1 DEF Stmt
  <2>3. YylexStmt
    BY <2>2, WhichStatement
  <2>4. /\ Wait(ISEM) /\ Continue(<<Stmt("command", 0)>>) /\ named' = named
        /\ UNCHANGED msgVars /\ FreeKept
    BY <2>3, StatementFree DEF YylexStmt, SysInv
  <2>5. Placed(k)'
    BY <1>3, <2>4 DEF CliLeft
  <2>6. ISEM \in Sems /\ semcnt[ISEM] <= 0
    BY BootConstants DEF Meeting
  <2>7. \/ Fails
        \/ Quiescent /\ pstate'[currpid] = "PRWAIT" /\ psem'[currpid] = ISEM
    BY <2>4, <2>6, WaitCalm DEF SysInv
  <2>8. CASE Fails
    <3>1. k["B"] <= 5 => k["A"] <= 5
      <4>1. k["A"] \in Nat /\ (k["B"] <= 5 => Unsignalled(k))
        BY <1>1, StageNats DEF Meeting
      <4> QED BY <4>1 DEF Unsignalled
    <3>2. k["B"] >= k["B"] /\ k["C"] >= k["C"]
      BY StageNats
    <3> QED BY <2>4, <2>5, <2>8, <3>1, <3>2, FailsGoesOn
  <2>9. CASE Quiescent /\ pstate'[currpid] = "PRWAIT" /\ psem'[currpid] = ISEM
    <3>1. CliWaits'
      BY <2>4, <2>9 DEF CliWaits
    <3>2. Meeting(k)'
      BY <2>4, <2>9, <3>1, QuietMeeting
    <3> QED BY <2>5, <3>2 DEF GoesOn
  <2> QED BY <2>7, <2>8, <2>9
<1> QED BY <1>1, <1>2, <1>4, <1>5 DEF CliLeft

-----------------------------------------------------------------------------
(* Every step, from clkinit to the end of the program.                     *)

LEMMA StatementGoesOn ==
    ASSUME SysInv, SysInv', NEW k \in Stages, Placed(k), Meeting(k),
           code[currpid] # <<>>, Statement
    PROVE  GoesOn
<1>1. semcnt' \in [Sems -> Int]
  <2>1. SemInv'
    BY DEF SysInv, IInv
  <2> QED BY <2>1 DEF SemInv, SemTypeOK
<1>2. PICK a \in Actors : Made(a, k["INIT"]) /\ currpid = named[a]
  BY WhoRuns
<1>3. CASE a = "INIT"
  BY <1>2, <1>3, InitGoesOn
<1>4. CASE a = "A"
  BY <1>1, <1>2, <1>4, AGoesOn
<1>5. CASE a = "B"
  BY <1>1, <1>2, <1>5, BGoesOn
<1>6. CASE a = "C"
  BY <1>1, <1>2, <1>6, COnGoesOn
<1>7. CASE a = "CLI"
  BY <1>1, <1>2, <1>7, CliGoesOn
<1> QED BY <1>3, <1>4, <1>5, <1>6, <1>7 DEF Actors, Roles

(* A step in which nobody goes on.                                         *)
LEMMA SameStage ==
    ASSUME SysInv, SysInv', NEW k \in Stages, Placed(k), Meeting(k),
           UNCHANGED <<code, named>>, Quiescent,
           \A p \in Procs : code[p] # <<>> /\ pstate'[p] = "PRFREE" => pstate[p] = "PRFREE"
    PROVE  (Placed(k) /\ Meeting(k))'
<1>1. semcnt' \in [Sems -> Int]
  <2>1. SemInv'
    BY DEF SysInv, IInv
  <2> QED BY <2>1 DEF SemInv, SemTypeOK
<1>2. Placed(k)'
  BY PlacedSame
<1>3. CliReads' => CliReads
  BY DEF CliReads
<1>4. Meeting(k)'
  BY <1>1, <1>3, QuietMeeting
<1> QED BY <1>2, <1>4

(* The procedure of one of them returns.                                   *)
LEMMA ReturnGoesOn ==
    ASSUME SysInv, SysInv', NEW k \in Stages, Placed(k), Meeting(k),
           code[currpid] = <<>>, userret
    PROVE  (Placed(k) /\ Meeting(k))'
<1>1. /\ Kill(currpid) /\ UNCHANGED <<code, named>>
      /\ currpid \in Procs /\ pstate[currpid] = "PRCURR" /\ currpid \in Int
  BY NeverParked, ArgumentTypes DEF userret, SysInv
<1>2. /\ Block("PRFREE") /\ UNCHANGED <<semVars, msgVars>>
      /\ kctx' = [kctx EXCEPT ![currpid] = OutOfKernel]
  BY <1>1 DEF Kill, KillCurrent, KillWaiting, KillSleeping, KillReady, KillOffQueues
<1>3. /\ currpid # NULLPROC
      /\ \A p \in Procs \ {currpid} : pstate'[p] = "PRFREE" <=> pstate[p] = "PRFREE"
  BY <1>1, KillFree DEF SysInv
<1>4. ParkedKept(NULLPROC)
  BY <1>2, <1>3, BlockParked DEF Block, SysInv
<1>5. \A p \in Procs : kctx'[p].op \in SemLoops => kctx[p].op \in SemLoops
  BY <1>2, LoopsFrame DEF Leave, SysInv
<1>6. \A p \in Procs : phasmsg'[p] => phasmsg[p]
  BY <1>2 DEF msgVars
<1>7. Quiescent
  BY <1>2, <1>4, <1>5, <1>6, CalmFrame DEF Quiescent, SysInv
<1>8. \A p \in Procs : code[p] # <<>> /\ pstate'[p] = "PRFREE" => pstate[p] = "PRFREE"
  BY <1>3
<1> QED BY <1>1, <1>7, <1>8, SameStage

(* The clock, and what goes on in the kernel.                              *)
LEMMA OutsideStage ==
    ASSUME SysInv, SysInv', NEW k \in Stages, Placed(k), Meeting(k),
           ClockSignal \/ SystemStep
    PROVE  (Placed(k) /\ Meeting(k))'
<1>1. \A p \in Procs : kctx[p].op \notin SemLoops
  BY DEF Meeting
<1>2. Quiescent
  BY <1>1, OutsideCalm DEF SysInv
<1>3. FreeKept
  BY OutsideFree DEF SysInv
<1>4. UNCHANGED <<code, named>>
  BY DEF ClockSignal, SystemStep, sysVars
<1>5. \A p \in Procs : code[p] # <<>> /\ pstate'[p] = "PRFREE" => pstate[p] = "PRFREE"
  BY <1>3 DEF FreeKept
<1> QED BY <1>2, <1>4, <1>5, SameStage

(* The first user process, just made, and resumed.                         *)
LEMMA FirstStage ==
    ASSUME SysInv, SysInv', CodeInv, nulluserCreate, named["CLI"] = 0
    PROVE  \E k \in Stages : (Placed(k) /\ Meeting(k))' /\ k["INIT"] = 1
<1> DEFINE k == [r \in Roles |-> 1]
<1>1. k \in Stages /\ k["INIT"] = 1 /\ k["A"] = 1 /\ k["B"] = 1 /\ k["C"] = 1
      /\ \A r \in Roles : k[r] = 1
  BY NamesDiffer DEF Stages, Roles
<1> HIDE DEF k
<1>2. /\ phase = "create" /\ phase' = "resume" /\ code = [p \in Procs |-> <<>>]
  BY DEF nulluserCreate, CodeInv
<1>3. PICK pid \in Procs : /\ NewProcess(pid, INITSTK, INITPRIO)
                           /\ code' = [code EXCEPT ![pid] = initial_process]
                           /\ named' = [named EXCEPT !["INIT"] = pid]
  BY DEF nulluserCreate
<1>4. /\ pid # NULLPROC /\ pstate'[pid] = "PRSUSP"
      /\ named'["INIT"] = pid /\ named'["CLI"] = 0
      /\ code'[pid] = initial_process /\ \A p \in Procs \ {pid} : code'[p] = <<>>
  <2>1. pid # NULLPROC
    BY <1>3, NeverParked, SchedInvParts
       DEF NewProcess, IsNewPid, SysInv, IInv, SchedOKNow, SchedOK, Runnable
  <2>2. pstate \in [Procs -> States] /\ pstate' = [pstate EXCEPT ![pid] = "PRSUSP"]
    BY <1>3, CodeTypes DEF NewProcess
  <2>3. named'["INIT"] = pid /\ named'["CLI"] = 0
    BY <1>3 DEF SysInv, ProgramsOK, Names
  <2>4. code'[pid] = initial_process /\ \A p \in Procs \ {pid} : code'[p] = <<>>
    BY <1>2, <1>3
  <2> QED BY <2>1, <2>2, <2>3, <2>4
<1>5. /\ Made("INIT", 1) /\ \A a \in Actors \ {"INIT"} : ~Made(a, 1)
      /\ "INIT" \in Actors /\ "INIT" \in Roles /\ Roles \subseteq Actors
      /\ "CLI" \in Actors \ {"INIT"}
  BY NamesDiffer DEF Roles, Actors, Made, MadeAt
<1>6. Placed(k)'
  <2>1. code'[named'["INIT"]] = From(Text("INIT")', 1)
    <3>1. From(Text("INIT"), 1) = Text("INIT")
      BY <1>5, AtStart DEF Starting, SysInv
    <3>2. Text("INIT") = initial_process /\ Text("INIT")' = initial_process
      BY DEF Text
    <3> QED BY <1>4, <3>1, <3>2
  <2>2. /\ \A r \in Roles : Made(r, k["INIT"]) => code'[named'[r]] = From(Text(r)', k[r])
        /\ \A r \in Roles : ~Made(r, k["INIT"]) => k[r] = 1
        /\ ~Made("CLI", k["INIT"]) /\ named'["CLI"] = 0
    BY <1>1, <1>4, <1>5, <2>1
  <2>3. \A p \in Procs : code'[p] # <<>> =>
            pstate'[p] # "PRFREE" /\ \E a \in Actors : Made(a, k["INIT"]) /\ p = named'[a]
    BY <1>1, <1>4, <1>5
  <2>4. /\ \A a \in Actors : Made(a, k["INIT"]) => named'[a] \in Workers
        /\ \A a, b \in Actors : Made(a, k["INIT"]) /\ Made(b, k["INIT"])
                                /\ named'[a] = named'[b] => a = b
    BY <1>1, <1>3, <1>4, <1>5 DEF Workers
  <2> QED BY <2>2, <2>3, <2>4 DEF Placed
<1>7. Meeting(k)'
  <2>1. /\ \A p \in Procs : kctx'[p].op \notin SemLoops
    <3>1. \A p \in Procs : kctx[p].op \in {"none", "clkint"}
      BY <1>2, BootFacts
    <3>2. /\ kctx' = [kctx EXCEPT ![pid] = OutOfKernel]
          /\ kctx \in [Procs -> [op : KernelOps, arg : Int, n : Int]]
      BY <1>3, SchedInvParts DEF NewProcess, SysInv, IInv, TabOK
    <3>3. \A p \in Procs : kctx'[p].op \in {"none", "clkint"}
      BY <3>1, <3>2, BootConstants
    <3> QED BY <3>3 DEF SemLoops
  <2>2. semcnt'[ISEM] <= 0 /\ sstate'[ISEM] = "SUSED" /\ sstate'[nextsem'] = "SFREE"
    <3>1. Booting /\ OsemTaken /\ IsemTaken
      BY <1>2, BootFacts DEF OsemTaken, IsemTaken
    <3>2. UNCHANGED <<semcnt, sstate, nextsem>>
      BY <1>3 DEF NewProcess
    <3>3. semcnt[ISEM] = 0 /\ sstate[ISEM] = "SUSED" /\ nextsem = NextSemAfter(OSEM)
      BY <3>1, BootConstants DEF Booting, BootSems
    <3>4. NextSemAfter(OSEM) \in Sems \ {ISEM, OSEM}
      BY SystemAssumption, ConstFacts DEF NextSemAfter, OSEM, ISEM, Sems
    <3>5. sstate[nextsem] = "SFREE"
      BY <3>1, <3>3, <3>4 DEF Booting, BootSems
    <3> QED BY <3>2, <3>3, <3>5
  <2>3. Unresumed(k)'
    BY <1>1 DEF Unresumed
  <2>4. \A a \in Actors \ {"INIT"} : ~Made(a, k["INIT"])
    BY <1>1, <1>5
  <2> QED BY <1>1, <2>1, <2>2, <2>3, <2>4 DEF Meeting
<1> QED BY <1>1, <1>6, <1>7

LEMMA ResumeStage ==
    ASSUME SysInv, NEW k \in Stages, Placed(k), Meeting(k), k["INIT"] = 1, nulluserResume
    PROVE  (Placed(k) /\ Meeting(k))'
<1>1. /\ phase = "resume" /\ Ready(named["INIT"])
      /\ UNCHANGED <<kctx, semVars, msgVars, code, named>>
  BY DEF nulluserResume
<1>2. named["INIT"] = FirstUser /\ pstate[FirstUser] = "PRSUSP"
  BY <1>1, BootFacts, BootConstants DEF Booting, BootProcs, Created
<1>3. FreeKept
  BY <1>1, <1>2, BootConstants, ReadyFree DEF SysInv, Idle
<1>4. Placed(k)'
  <2>1. \A p \in Procs : code[p] # <<>> /\ pstate'[p] = "PRFREE" => pstate[p] = "PRFREE"
    BY <1>3 DEF FreeKept
  <2> QED BY <1>1, <2>1, PlacedSame
<1>5. \A a \in Actors \ {"INIT"} : ~Made(a, k["INIT"])
  BY NamesDiffer DEF Roles, Actors, Made, MadeAt
<1>6. /\ kctx' = kctx /\ semcnt' = semcnt /\ sstate' = sstate /\ nextsem' = nextsem
  BY <1>1 DEF semVars
<1>7. Unresumed(k)'
  BY DEF Unresumed
<1>8. Meeting(k)'
  BY <1>5, <1>6, <1>7 DEF Meeting
<1> QED BY <1>4, <1>8

(* The program has ended: nothing happens any more.                        *)
LEMMA NothingAfterExit ==
    ASSUME SysInv, exited, SystemNext
    PROVE  Ended
<1>1. ~Boot
  <2>1. phase = "up"
    BY BootFacts
  <2> QED BY <2>1 DEF Boot, clkinit, ttyinit, nulluserCreate, nulluserResume
<1>2. ~Interruptible /\ (\A op : ~At(op)) /\ (\A name : ~Calling(name))
  BY DEF Interruptible, At, Calling
<1>3. ~Statement
  <2>1. ~WriteStmt /\ ~CommandStmt /\ ~HaltStmt /\ ~NullLoop
    BY <1>2 DEF WriteStmt, CommandStmt, HaltStmt, NullLoop
  <2>2. ~SuspendStmt /\ ~ResumeStmt /\ ~SleepStmt
    BY <1>2 DEF SuspendStmt, ResumeStmt, SleepStmt, Suspend, Resume, Sleep
  <2>3. ~SemStmt /\ ~SCreateStmt /\ ~YylexStmt
    BY <1>2 DEF SemStmt, SCreateStmt, YylexStmt, Wait, Signal, SCreate
  <2>4. ~MsgStmt /\ ~CreateStmt
    BY <1>2 DEF MsgStmt, CreateStmt, Receive, Send, Create
  <2>5. ~KillStmt /\ ~userret
    BY <1>2 DEF KillStmt, userret, KillThen, Kill
  <2> QED BY <2>1, <2>2, <2>3, <2>4, <2>5 DEF Statement
<1>4. ~ClockSignal /\ ~TypeLine /\ ~kill_XINU
  BY <1>2 DEF ClockSignal, ClockInterrupt, ClkInt, TypeLine, kill_XINU
<1>5. ~SystemStep
  <2>1. ~UserStep
    BY <1>2 DEF UserStep, SleepNext, StopClkStore
  <2>2. ~SemKernelStep /\ ~ReceiveEnd
    BY <1>2 DEF SemKernelStep, ReleaseWaiter, SDeleteEnd, SResetEnd, SignalNStep,
                SignalNEnd, ReceiveEnd
  <2>3. ~ClkKernelStep
    BY <1>2 DEF ClkKernelStep, InsertdWalk, InsertdEnd, WakeupFirst, WakeupEnd,
                StrtClkWalk, StrtClkWalkDone, StrtClkEnd, ClkIntEnd
  <2> QED BY <2>1, <2>2, <2>3 DEF SystemStep, KernelStep
<1> QED BY <1>1, <1>3, <1>4, <1>5 DEF SystemNext

LEMMA MetSame ==
    ASSUME NEW k, Met(k), UNCHANGED <<code, named, pstate>>
    PROVE  Met(k)'
<1>1. \A r \in Roles : Text(r)' = Text(r)
  BY TextFrame
<1>2. Live' = Live
  BY DEF Live
<1> QED BY <1>1, <1>2 DEF Met, Roles

(* The other parts of the demonstration: nobody shuts the system down.     *)
LEMMA StaysUp ==
    ASSUME SysInv, NEW k \in Stages, Placed(k), Statement, ~shutdown
    PROVE  phase' = "up" /\ ~shutdown' /\ events' = events
<1>1. phase' = "up"
  BY StatementIsUp
<1>2. currpid = NULLPROC => code[currpid] = <<>>
  <2> SUFFICES ASSUME currpid = NULLPROC, code[currpid] # <<>> PROVE FALSE
    OBVIOUS
  <2>1. PICK a \in Actors : Made(a, k["INIT"]) /\ currpid = named[a]
    BY WhoRuns
  <2> QED BY <2>1 DEF Placed, Workers
<1>3. CASE HaltStmt
  <2>1. code[currpid] # <<>>
    BY <1>3 DEF HaltStmt, Reaches
  <2>2. currpid # NULLPROC /\ currpid \in Procs
    BY <1>2, <2>1, CodeTypes
  <2>3. ~isbadpid(currpid)
    BY <2>2, ConstFacts DEF isbadpid, Procs, NULLPROC
  <2> QED BY <1>1, <1>3, <2>3 DEF HaltStmt
<1>4. CASE ~HaltStmt
  BY <1>1, <1>4 DEF Statement, WriteStmt, SuspendStmt, ResumeStmt, SemStmt, SCreateStmt,
     MsgStmt, SleepStmt, CreateStmt, KillStmt, YylexStmt, CommandStmt, NullLoop,
     userret, restVars
<1> QED BY <1>3, <1>4

LEMMA ProgramGoesOn ==
    ASSUME SysInv, SysInv', NEW k \in Stages, Placed(k), Meeting(k), ~shutdown, Statement
    PROVE  GoesOn
<1>1. CASE code[currpid] # <<>>
  BY <1>1, StatementGoesOn
<1>2. CASE code[currpid] = <<>>
  <2>1. userret
    <3>1. ~NullLoop
      BY <1>2 DEF NullLoop, Reaches
    <3> QED BY <1>2, <3>1 DEF Statement, WriteStmt, SuspendStmt, ResumeStmt, SemStmt,
                SCreateStmt, MsgStmt, SleepStmt, CreateStmt, KillStmt, YylexStmt,
                CommandStmt, HaltStmt, Reaches
  <2> QED BY <1>2, <2>1, ReturnGoesOn DEF GoesOn
<1> QED BY <1>1, <1>2

LEMMA AtAnyStage == SysInv => \A k \in Stages : Placed(k) /\ Meeting(k) => Met(k)
BY PlayingMet

LEMMA NotExitedYet == SysInv => (phase # "up" => exited = FALSE)
BY BootFacts

(* A step of nobody.                                                       *)
LEMMA StutterStage ==
    ASSUME SysInv, SysInv', NEW k \in Stages, Placed(k), Meeting(k), UNCHANGED allVars
    PROVE  (Placed(k) /\ Meeting(k))'
<1>1. /\ UNCHANGED <<code, named>> /\ pstate' = pstate /\ kctx' = kctx
      /\ UNCHANGED semVars /\ phasmsg' = phasmsg
  BY DEF allVars, sysVars, vars, procVars, msgVars
<1>2. Quiescent
  BY <1>1, SameParked, StutterLoops, CalmFrame DEF Quiescent, SysInv
<1> QED BY <1>1, <1>2, SameStage

LEMMA DemoInvKept ==
    ASSUME SysInv, SysInv', CodeInv, DemoInv, [SystemNext]_allVars
    PROVE  DemoInv'
<1>0. (exited \in BOOLEAN) /\ (exited' \in BOOLEAN) /\ events \in Nat
  <2>1. SchedInv /\ SchedInv'
    BY DEF SysInv, IInv
  <2>2. (exited \in BOOLEAN) /\ (exited' \in BOOLEAN)
    BY <2>1 DEF SchedInv, ProcTypeOK
  <2> QED BY <2>2 DEF DemoInv
<1>1. CASE TypeLine \/ kill_XINU
  <2>1. events' = events + 1
    BY <1>1 DEF TypeLine, kill_XINU
  <2>2. events' \in Nat /\ events' # 0
    BY <1>0, <2>1
  <2> QED BY <2>2 DEF DemoInv
<1>2. ~(TypeLine \/ kill_XINU) => events' = events
  <2> SUFFICES ASSUME ~(TypeLine \/ kill_XINU) PROVE events' = events
    OBVIOUS
  <2>1. Statement => events' = events
    BY DEF Statement, WriteStmt, SuspendStmt, ResumeStmt, SemStmt, SCreateStmt,
           MsgStmt, SleepStmt, CreateStmt, KillStmt, YylexStmt, CommandStmt, HaltStmt,
           NullLoop, userret, restVars
  <2>2. Boot => events' = events
    BY DEF Boot, clkinit, ttyinit, nulluserCreate, nulluserResume
  <2>3. SystemStep \/ ClockSignal \/ Ended \/ UNCHANGED allVars => events' = events
    BY DEF SystemStep, ClockSignal, Ended, allVars, sysVars
  <2> QED BY <2>1, <2>2, <2>3 DEF SystemNext
<1>3. CASE events # 0
  BY <1>0, <1>1, <1>2, <1>3 DEF DemoInv
<1>4. CASE exited /\ events = 0 /\ ~(TypeLine \/ kill_XINU)
  <2>1. UNCHANGED <<code, named, pstate, exited>>
    <3>1. CASE SystemNext
      BY <1>4, <3>1, NothingAfterExit DEF Ended, Gone, vars, procVars, sysVars
    <3>2. CASE UNCHANGED allVars
      BY <3>2 DEF allVars, sysVars, vars, procVars
    <3> QED BY <3>1, <3>2
  <2>2. PICK k \in Stages : Met(k)
    BY <1>4 DEF DemoInv
  <2>3. Met(k)'
    BY <2>1, <2>2, MetSame
  <2> QED BY <1>0, <1>2, <1>4, <2>1, <2>3 DEF DemoInv
<1>5. CASE ~exited /\ events = 0 /\ ~(TypeLine \/ kill_XINU)
  <2>0. Booted /\ events' = 0
    BY <1>2, <1>5 DEF DemoInv
  <2>a. SysInv' => \A k \in Stages : (Placed(k) /\ Meeting(k))' => Met(k)'
    <3>1. (SysInv => \A k \in Stages : Placed(k) /\ Meeting(k) => Met(k))'
      BY AtAnyStage, PTL
    <3> QED BY <3>1
  <2>b. ASSUME NEW k \in Stages, (Placed(k) /\ Meeting(k))', phase' \in {"resume", "up"},
               phase' = "resume" => k["INIT"] = 1, ~shutdown'
        PROVE  DemoInv'
    <3>1. CASE exited'
      <4>1. Met(k)'
        BY <2>a, <2>b
      <4> QED BY <2>0, <3>1, <4>1 DEF DemoInv
    <3>2. CASE ~exited'
      <4>1. Playing(k)'
        BY <2>b DEF Playing
      <4>2. Booted'
        BY <2>b, <4>1 DEF Booted
      <4> QED BY <2>0, <3>2, <4>2 DEF DemoInv
    <3> QED BY <3>1, <3>2
  <2>c. ASSUME phase' \notin {"resume", "up"}, named'["CLI"] = 0, ~shutdown'
        PROVE  DemoInv'
    <3>2. exited' = FALSE
      <4>1. (SysInv => (phase # "up" => exited = FALSE))'
        BY NotExitedYet, PTL
      <4> QED BY <2>c, <4>1
    <3>1. Booted'
      BY <2>c DEF Booted
    <3> QED BY <1>5, <2>0, <2>c, <3>1, <3>2 DEF DemoInv
  <2>1. CASE phase \notin {"resume", "up"}
    <3>1. named["CLI"] = 0 /\ ~shutdown
      BY <2>0, <2>1 DEF Booted
    <3>2. CASE clkinit \/ ttyinit
      <4>1. phase' \notin {"resume", "up"} /\ named' = named /\ shutdown' = shutdown
        BY <3>2 DEF clkinit, ttyinit
      <4> QED BY <2>c, <3>1, <4>1
    <3>3. CASE nulluserCreate
      <4>1. PICK k \in Stages : (Placed(k) /\ Meeting(k))' /\ k["INIT"] = 1
        BY <3>1, <3>3, FirstStage
      <4>2. phase' \in {"resume", "up"} /\ ~shutdown'
        BY <3>1, <3>3 DEF nulluserCreate
      <4> QED BY <2>b, <4>1, <4>2
    <3>4. CASE ClockSignal \/ SystemStep \/ UNCHANGED allVars
      <4>1. phase' = phase /\ named' = named /\ shutdown' = shutdown
        BY <3>4 DEF ClockSignal, SystemStep, sysVars, allVars
      <4> QED BY <2>1, <2>c, <3>1, <4>1
    <3>5. ~nulluserResume /\ ~Statement /\ ~Ended
      BY <1>5, <2>1, StatementIsUp DEF nulluserResume, Ended, Gone
    <3> QED BY <1>5, <3>2, <3>3, <3>4, <3>5 DEF SystemNext, Boot
  <2>2. CASE phase \in {"resume", "up"}
    <3>1. PICK k \in Stages : Playing(k)
      BY <2>0, <2>2 DEF Booted
    <3>2. Placed(k) /\ Meeting(k) /\ (phase = "resume" => k["INIT"] = 1) /\ ~shutdown
      BY <3>1 DEF Playing
    <3>3. CASE Statement
      <4>1. phase' = "up" /\ ~shutdown'
        BY <3>2, <3>3, StaysUp
      <4>2. PICK kn \in Stages : (Placed(kn) /\ Meeting(kn))' \/ (exited' = TRUE /\ Met(kn)')
        BY <3>2, <3>3, ProgramGoesOn DEF GoesOn
      <4>3. CASE (Placed(kn) /\ Meeting(kn))'
        BY <2>b, <4>1, <4>3
      <4>4. CASE exited' = TRUE /\ Met(kn)'
        BY <2>0, <4>4 DEF DemoInv
      <4> QED BY <4>2, <4>3, <4>4
    <3>4. CASE ClockSignal \/ SystemStep
      <4>1. (Placed(k) /\ Meeting(k))'
        BY <3>2, <3>4, OutsideStage
      <4>2. phase' = phase /\ shutdown' = shutdown
        BY <3>4 DEF ClockSignal, SystemStep, sysVars
      <4> QED BY <2>2, <2>b, <3>2, <4>1, <4>2
    <3>5. CASE nulluserResume
      <4>1. k["INIT"] = 1 /\ phase' = "up" /\ shutdown' = shutdown
        BY <3>2, <3>5 DEF nulluserResume
      <4>2. (Placed(k) /\ Meeting(k))'
        BY <3>2, <3>5, <4>1, ResumeStage
      <4> QED BY <2>b, <3>2, <4>1, <4>2
    <3>6. CASE UNCHANGED allVars
      <4>1. (Placed(k) /\ Meeting(k))'
        BY <3>2, <3>6, StutterStage
      <4>2. phase' = phase /\ shutdown' = shutdown
        BY <3>6 DEF allVars, sysVars
      <4> QED BY <2>2, <2>b, <3>2, <4>1, <4>2
    <3>7. ~clkinit /\ ~ttyinit /\ ~nulluserCreate /\ ~Ended
      BY <1>5, <2>2 DEF clkinit, ttyinit, nulluserCreate, Ended, Gone
    <3> QED BY <1>5, <3>3, <3>4, <3>5, <3>6, <3>7 DEF SystemNext, Boot
  <2> QED BY <2>1, <2>2
<1> QED BY <1>0, <1>1, <1>3, <1>4, <1>5

-----------------------------------------------------------------------------
(* The order.                                                              *)

(* What is left to do, from the place a program has got to.                *)
LEMMA LeftToDo ==
    ASSUME ProgramsOK, NEW r \in Roles, NEW n \in 1 .. Length(r) + 1, NEW op,
           code[named[r]] = From(Text(r), n)
    PROVE  ToDo(r, op) <=> \E i \in n .. Length(r) : Text(r)[i].op = op
<1>1. /\ From(Text(r), n) \in Seq(Statements)
      /\ Len(From(Text(r), n)) = Length(r) - n + 1
      /\ \A i \in 1 .. Length(r) - n + 1 : From(Text(r), n)[i] = Text(r)[n + i - 1]
      /\ Length(r) \in Nat
  BY PlaceFacts
<1> DEFINE c == From(Text(r), n)
           L == Length(r)
<1>2. DOMAIN c = 1 .. L - n + 1
  BY <1>1, LenProperties
<1>3. ToDo(r, op) <=> \E i \in 1 .. L - n + 1 : Text(r)[n + i - 1].op = op
  BY <1>1, <1>2 DEF ToDo
<1> HIDE DEF L
<1>4. \A i \in 1 .. L - n + 1 : n + i - 1 \in n .. L
  BY <1>1 DEF L
<1>5. \A j \in n .. L : /\ j - n + 1 \in 1 .. L - n + 1
                        /\ n + (j - n + 1) - 1 = j
  BY <1>1 DEF L
<1>6. (\E i \in 1 .. L - n + 1 : Text(r)[n + i - 1].op = op)
          => \E j \in n .. L : Text(r)[j].op = op
  BY <1>4
<1>7. (\E j \in n .. L : Text(r)[j].op = op)
          => \E i \in 1 .. L - n + 1 : Text(r)[n + i - 1].op = op
  <2> SUFFICES ASSUME NEW j \in n .. L, Text(r)[j].op = op
               PROVE  \E i \in 1 .. L - n + 1 : Text(r)[n + i - 1].op = op
    OBVIOUS
  <2>1. PICK i \in 1 .. L - n + 1 : n + i - 1 = j
    BY <1>5
  <2> QED BY <2>1
<1> QED BY <1>3, <1>6, <1>7 DEF L

(* Where the calls that the others wait for are in the texts.              *)
LEMMA WhereTheyCall ==
    ASSUME ProgramsOK
    PROVE  /\ Text("A")[5].op = "receive"
           /\ \A i \in 1 .. 12 : /\ Text("B")[i].op = "signal" => i = 5
                                 /\ Text("B")[i].op = "send" => i = 9
           /\ \A i \in 1 .. 6 : Text("C")[i].op = "resume" => i = 5
<1> DEFINE m == named["sem"]
           a == named["A"]
           i0 == named["INIT"]
<1>1. m \in Int /\ a \in Int /\ i0 \in Int /\ SLEEPTIME \in Int
  BY SystemAssumption DEF ProgramsOK, Names
<1>2. Text("A") = funcA(m) /\ Text("B") = funcB(m, a) /\ Text("C") = funcC(i0, SLEEPTIME)
  BY DEF Text
<1>3. \A op, n : Stmt(op, n).op = op
  BY DEF Stmt
<1> HIDE DEF m, a, i0
<1>4. Text("A")[5].op = "receive"
  BY <1>1, <1>2, <1>3, FuncAText
<1>5. ASSUME NEW i \in 1 .. 12
      PROVE  /\ Text("B")[i].op = "signal" => i = 5
             /\ Text("B")[i].op = "send" => i = 9
  <2>1. i \in {1, 2, 4, 6, 8, 10, 12} \/ i \in {3, 7, 11} \/ i = 5 \/ i = 9
    OBVIOUS
  <2>2. /\ i \in {1, 2, 4, 6, 8, 10, 12} => Text("B")[i] = Write
        /\ i \in {3, 7, 11} => Text("B")[i] = Stmt("sleep", 2)
        /\ i = 5 => Text("B")[i] = Stmt("signal", m)
        /\ i = 9 => Text("B")[i] = Stmt("send", a)
    <3>1. /\ \A n \in {1, 2, 4, 6, 8, 10, 12} : funcB(m, a)[n] = Write
          /\ \A n \in {3, 7, 11} : funcB(m, a)[n] = Stmt("sleep", 2)
          /\ funcB(m, a)[5] = Stmt("signal", m)
          /\ funcB(m, a)[9] = Stmt("send", a)
      BY <1>1, FuncBText
    <3> QED BY <1>2, <3>1
  <2>3. /\ i \in {1, 2, 4, 6, 8, 10, 12} => Text("B")[i].op = "write"
        /\ i \in {3, 7, 11} => Text("B")[i].op = "sleep"
        /\ i = 5 => Text("B")[i].op = "signal"
        /\ i = 9 => Text("B")[i].op = "send"
    BY <1>3, <2>2 DEF Write
  <2> QED BY <2>1, <2>3
<1>6. ASSUME NEW i \in 1 .. 6
      PROVE  Text("C")[i].op = "resume" => i = 5
  <2>1. i \in {1, 2, 4, 6} \/ i = 3 \/ i = 5
    OBVIOUS
  <2>2. /\ i \in {1, 2, 4, 6} => Text("C")[i] = Write
        /\ i = 3 => Text("C")[i] = Stmt("sleep", SLEEPTIME)
    BY <1>1, <1>2, FuncCText
  <2>3. /\ i \in {1, 2, 4, 6} => Text("C")[i].op = "write"
        /\ i = 3 => Text("C")[i].op = "sleep"
    BY <1>3, <2>2 DEF Write
  <2> QED BY <2>1, <2>3
<1> QED BY <1>4, <1>5, <1>6

LEMMA MetInOrder ==
    ASSUME ProgramsOK, NEW k \in Stages, Met(k), named["CLI"] # 0
    PROVE  /\ ToDo("B", "signal") => ToDo("A", "receive")
           /\ ToDo("B", "send") => Live \cap {named["A"]} # {}
           /\ ToDo("C", "resume") => Live \cap {named["INIT"]} # {}
<1>1. /\ k["A"] \in 1 .. 8 /\ k["B"] \in 1 .. 13 /\ k["C"] \in 1 .. 7
      /\ Length("A") = 7 /\ Length("B") = 12 /\ Length("C") = 6
      /\ "A" \in Roles /\ "B" \in Roles /\ "C" \in Roles
  BY StageTypes, NamesDiffer DEF Roles
<1>2. /\ code[named["A"]] = From(Text("A"), k["A"])
      /\ code[named["B"]] = From(Text("B"), k["B"])
      /\ code[named["C"]] = From(Text("C"), k["C"])
      /\ k["B"] <= 5 => k["A"] <= 5
      /\ k["B"] <= 9 => named["A"] \in Live
      /\ k["C"] <= 5 => named["INIT"] \in Live
  BY DEF Met
<1>3. \A op : ToDo("A", op) <=> \E i \in k["A"] .. 7 : Text("A")[i].op = op
  <2>1. k["A"] \in 1 .. Length("A") + 1
    BY <1>1
  <2> QED BY <1>1, <1>2, <2>1, LeftToDo
<1>4. \A op : ToDo("B", op) <=> \E i \in k["B"] .. 12 : Text("B")[i].op = op
  <2>1. k["B"] \in 1 .. Length("B") + 1
    BY <1>1
  <2> QED BY <1>1, <1>2, <2>1, LeftToDo
<1>5. \A op : ToDo("C", op) <=> \E i \in k["C"] .. 6 : Text("C")[i].op = op
  <2>1. k["C"] \in 1 .. Length("C") + 1
    BY <1>1
  <2> QED BY <1>1, <1>2, <2>1, LeftToDo
<1>6. /\ \A i \in k["B"] .. 12 : i \in 1 .. 12
      /\ \A i \in k["C"] .. 6 : i \in 1 .. 6
  BY <1>1
<1>7. ToDo("B", "signal") => k["B"] <= 5
  <2> SUFFICES ASSUME NEW i \in k["B"] .. 12, Text("B")[i].op = "signal"
               PROVE  k["B"] <= 5
    BY <1>4
  <2>1. i = 5
    BY <1>6, WhereTheyCall
  <2> QED BY <1>1, <2>1
<1>8. ToDo("B", "send") => k["B"] <= 9
  <2> SUFFICES ASSUME NEW i \in k["B"] .. 12, Text("B")[i].op = "send"
               PROVE  k["B"] <= 9
    BY <1>4
  <2>1. i = 9
    BY <1>6, WhereTheyCall
  <2> QED BY <1>1, <2>1
<1>9. ToDo("C", "resume") => k["C"] <= 5
  <2> SUFFICES ASSUME NEW i \in k["C"] .. 6, Text("C")[i].op = "resume"
               PROVE  k["C"] <= 5
    BY <1>5
  <2>1. i = 5
    BY <1>6, WhereTheyCall
  <2> QED BY <1>1, <2>1
<1>10. k["A"] <= 5 => ToDo("A", "receive")
  <2> SUFFICES ASSUME k["A"] <= 5 PROVE \E i \in k["A"] .. 7 : Text("A")[i].op = "receive"
    BY <1>3
  <2>1. 5 \in k["A"] .. 7
    BY <1>1
  <2> QED BY <2>1, WhereTheyCall
<1> QED BY <1>2, <1>7, <1>8, <1>9, <1>10

(* Left to themselves, the programs of initial_process meet in their order *)
(* whenever the clock comes in between: A does not get past its wait       *)
(* before B signals nor past its receive before B sends, and INIT does not *)
(* get past its suspend before C resumes it; so the process that B sends   *)
(* to and the one that C resumes are still there when they come to it.     *)
THEOREM DemoAlwaysInOrder == SystemSpec => []DemoInOrder
<1>1. SysInit => SysInv /\ CodeInv
  BY SysInitBoots, SysInitIInv, NoPrograms DEF SysInv, SysInit
<1>2. SysInit => DemoInv
  <2> SUFFICES ASSUME SysInit PROVE DemoInv
    OBVIOUS
  <2>1. phase = "clkinit" /\ exited = FALSE /\ shutdown = FALSE /\ events = 0
        /\ named["CLI"] = 0
    BY DEF SysInit
  <2>2. Booted
    BY <2>1 DEF Booted
  <2> QED BY <2>1, <2>2 DEF DemoInv
<1>3. SysInv /\ [SystemNext]_allVars => SysInv'
  BY SysInvKept
<1>4. SysInv /\ CodeInv /\ [SystemNext]_allVars => CodeInv'
  BY CodeInvKept
<1>5. SysInv /\ SysInv' /\ CodeInv /\ DemoInv /\ [SystemNext]_allVars => DemoInv'
  BY DemoInvKept
<1>6. SysInv /\ DemoInv => DemoInOrder
  <2> SUFFICES ASSUME SysInv, DemoInv, events = 0, named["CLI"] # 0
               PROVE  /\ ToDo("B", "signal") => ToDo("A", "receive")
                      /\ ToDo("B", "send") => Live \cap {named["A"]} # {}
                      /\ ToDo("C", "resume") => Live \cap {named["INIT"]} # {}
    BY DEF DemoInOrder
  <2>1. \E k \in Stages : Met(k)
    <3>1. CASE exited
      BY <3>1 DEF DemoInv
    <3>2. CASE ~exited
      <4>1. Booted
        BY <3>2 DEF DemoInv
      <4>2. PICK k \in Stages : Placed(k) /\ Meeting(k)
        BY <4>1 DEF Booted, Playing
      <4> QED BY <4>2, PlayingMet
    <3> QED BY <3>1, <3>2
  <2>2. ProgramsOK
    BY DEF SysInv
  <2> QED BY <2>1, <2>2, MetInOrder
<1> QED BY <1>1, <1>2, <1>3, <1>4, <1>5, <1>6, PTL DEF SystemSpec

=============================================================================
