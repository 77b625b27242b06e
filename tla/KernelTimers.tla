---------------------------- MODULE KernelTimers ----------------------------
(***************************************************************************)
(* The delta list of sleepers implements SleepTimers: the time a sleeper   *)
(* has left is the sum of the keys up to its own (insertd.c).  While       *)
(* strtclk walks the list, the ticks it still has to make up are not yet   *)
(* taken off the entries from its place on.                                *)
(***************************************************************************)
EXTENDS Kernel

KeySum == LET s[i \in 0 .. Len(clockq)] ==
                IF i = 0 THEN 0 ELSE s[i - 1] + qkey[clockq[i]]
          IN  s

Place(p) == CHOOSE i \in DOMAIN clockq : clockq[i] = p

ToMakeUp(i) ==
    IF Op = "strtclk" /\ kctx[currpid].arg <= i THEN kctx[currpid].n ELSE 0

TimeLeft(p) ==
    LET t == KeySum[Place(p)] - ToMakeUp(Place(p))
    IN  IF t > 0 THEN t ELSE 0

(* The greatest time a sleep or a deferral can take in one step.           *)
LongestTime == IF TENTHS * CHUNK > MaxDiff THEN TENTHS * CHUNK ELSE MaxDiff

Timers == INSTANCE SleepTimers WITH
    MaxTime <- LongestTime,
    left <- [p \in Procs |-> CASE pstate[p] = "PRFREE"  -> -2
                               [] pstate[p] = "PRSLEEP" -> TimeLeft(p)
                               [] OTHER                 -> -1]

(* Every step of the kernel is a step of the timers or leaves them alone:  *)
(* a sleeper's time is not changed by others that fall asleep, wake or are *)
(* killed, deferred ticks are taken off once for all, and nobody wakes     *)
(* early or sleeps while time passes it by (sleep10.c, wakeup.c, kill.c,   *)
(* ssclock.c).                                                             *)
SleepersAreTimed == Timers!Spec

=============================================================================
