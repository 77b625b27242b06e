-------------------------------- MODULE Tty --------------------------------
(***************************************************************************)
(* The console: users that call the device switch (read.c, write.c, getc.c,*)
(* putc.c, control.c, conf.c), the driver, and the terminal at the other   *)
(* end of the line, whose signals IOdispatcher hands to the driver.        *)
(***************************************************************************)
EXTENDS TtyIn

CONSTANT Loads      \* what the users and the keyboard may do

ASSUME LoadsAssumption ==
    \A w \in Loads :
        /\ w.texts \subseteq Seq({"c", "NL"})
        /\ w.counts \subseteq Nat /\ w.most \in 0 .. MaxTyped
        /\ w.keys \subseteq {"a", "^A", "nl", "^H", "@", "^S", "^Q"}

VARIABLE load       \* the one of them that a behaviour is about

vars == <<ttyVars, load>>

-----------------------------------------------------------------------------
(* The device table has one entry.  A call for another device is refused   *)
(* with SYSERR, as are open of a name and seek on the console.             *)

NDEVS == 1
CONSOLE == 0
isbaddev(d) == d < 0 \/ d >= NDEVS

devtab == [d \in 0 .. NDEVS - 1 |->
              [dvopen |-> "ttyopen", dvclose |-> "ionull", dvseek |-> "ioerr",
               dvread |-> "ttyread", dvwrite |-> "ttywrite",
               dvgetc |-> "ttygetc", dvputc |-> "ttyputc", dvcntl |-> "ttycntl",
               dviint |-> "ttyiin", dvoint |-> "ttyoin"]]

read(d, p, count) ==
    ~isbaddev(d) /\ devtab[d].dvread = "ttyread" /\ ttyread(p, count)
write(d, p, text) ==
    ~isbaddev(d) /\ devtab[d].dvwrite = "ttywrite" /\ ttywrite(p, text)
getc(d, p) == ~isbaddev(d) /\ devtab[d].dvgetc = "ttygetc" /\ ttygetc(p)
putc(d, p, text) ==
    ~isbaddev(d) /\ devtab[d].dvputc = "ttyputc" /\ Len(text) = 1 /\ ttyputc(p, text)
control(d, p, func) ==
    ~isbaddev(d) /\ devtab[d].dvcntl = "ttycntl" /\ ttycntl(p, func)

Devices == {CONSOLE, NDEVS}

Call(p) ==
    \E d \in Devices :
        \/ \E count \in load.counts : read(d, p, count)
        \/ \E text \in load.texts : write(d, p, text) \/ putc(d, p, text)
        \/ 1 \in load.counts /\ getc(d, p)
        \/ \E func \in load.controls : control(d, p, func)

UpperHalf(p) == UpperOut(p) \/ UpperIn(p)

(* intmap, as iosetvec fills it: SIGUSR1 tells of a character that has     *)
(* been typed, SIGUSR2 that the transmitter is ready for one more.         *)
intmap == [SIGUSR1 |-> devtab[CONSOLE].dviint, SIGUSR2 |-> devtab[CONSOLE].dvoint]

IOdispatcher(signum) ==
    \/ intmap[signum] = "ttyiin" /\ typed < load.most /\ \E key \in load.keys : ttyiin(key)
    \/ intmap[signum] = "ttyoin" /\ ttyoin

Init == TtyInit /\ load \in Loads

Next ==
    /\ \/ \E p \in Users : Call(p) \/ UpperHalf(p)
       \/ \E signum \in {"SIGUSR1", "SIGUSR2"} : IOdispatcher(signum)
    /\ UNCHANGED load

Spec == Init /\ [][Next]_vars

(* A process in the driver goes on when it can, and a transmitter that may *)
(* interrupt does.                                                         *)
Fairness ==
    /\ \A p \in Users : WF_vars(UpperHalf(p) /\ UNCHANGED load)
    /\ WF_vars(IOdispatcher("SIGUSR2") /\ UNCHANGED load)

FairSpec == Spec /\ Fairness

-----------------------------------------------------------------------------
(* Properties.                                                             *)

Ops == {"idle", "loop", "none", "rest", "put", "place", "again", "get",
        "copied", "peek"}

TypeOK ==
    /\ osem.cnt \in Int /\ osem.queue \in Seq(Users)
    /\ isem.cnt \in Int /\ isem.queue \in Seq(Users)
    /\ ohead \in 0 .. OBUFLEN - 1 /\ otail \in 0 .. OBUFLEN - 1
    /\ ihead \in 0 .. IBUFLEN - 1 /\ itail \in 0 .. IBUFLEN - 1
    /\ odsend \in 0 .. OBMINSP - 1
    /\ icursor \in 0 .. IBUFLEN
    /\ echo \in 0 .. EBUFLEN - 1
    /\ imode \in {"IMRAW", "IMCOOKED", "IMCBREAK"} /\ iecho \in BOOLEAN
    /\ oheld \in BOOLEAN /\ ctstat \in BOOLEAN
    /\ \A p \in Users : pc[p].op \in Ops

(* osem counts the free places of the output ring: those it has counted,   *)
(* the sends that ttyoin has put off and the units of writers that have    *)
(* been let go make up what is not between otail and ohead.                *)
OutputAccounted ==
    /\ InBuffer \in 0 .. OBUFLEN
    /\ (ohead - otail - InBuffer) % OBUFLEN = 0

(* isem counts the characters that can be read, over line editing, resets  *)
(* by read and looks ahead by control.                                     *)
InputAccounted ==
    /\ Stored \in 0 .. IBUFLEN
    /\ (ihead - itail - Stored) % IBUFLEN = 0

(* The line shows each process's text from its start, in order, with both  *)
(* halves of every newline, and nothing that nobody wrote, however writers *)
(* are held up between characters (ttywrite.c, ttyoin.c).                  *)
Shown(p) ==
    FlattenSeq([i \in DOMAIN wrote[p] |->
                   IF wrote[p][i] = "NL" THEN <<i, i>> ELSE <<i>>])
TextInOrder ==
    /\ sent[Nobody] = <<>>
    /\ \A p \in Users : IsPrefix(sent[p], Shown(p))

(* The input buffer implements the stream of InputLine.                    *)
InRing(n) == [i \in 1 .. n |-> ibuff[(itail + i - 1) % IBUFLEN]]
Input == INSTANCE InputLine WITH
    Chars <- 1 .. MaxTyped,
    stream <- InRing(Stored),
    line <- icursor
LineKept == Input!Spec

(* A process that writes comes to an end of it, unless output is held up.  *)
Writing(p) == pc[p].op \in {"loop", "none", "rest", "put", "place", "again"}
WritersFinish ==
    <>[]~oheld => \A p \in Users : Writing(p) ~> ~Writing(p)

=============================================================================
