------------------------------- MODULE TtyIn -------------------------------
(***************************************************************************)
(* The input side of the driver: the receiver interrupt ttyiin with line   *)
(* editing and echo, ttyread and readcopy, ttygetc, and ttycntl.           *)
(*                                                                         *)
(* Of a character that is typed only its kind matters: "a" any other one,  *)
(* "^A" a control character without a meaning (echoed as two), "nl" ends a *)
(* line, "^H" erases, "@" kills the line, "^S" and "^Q" stop and restart   *)
(* the output.  ibuff holds the place of the character in the order of     *)
(* typing.  Of the echo only the number of characters is kept.             *)
(***************************************************************************)
EXTENDS TtyOut

CONSTANTS
    MaxTyped,   \* how many characters are typed at most
    Roomy       \* nothing is typed that is stored when ibuff is full

ASSUME RoomyAssumption == MaxTyped \in Nat /\ Roomy \in BOOLEAN

(* eputc, n times.  The echo queue wraps around without a check.           *)
Echo(n) ==
    /\ echo' = (echo + n) % EBUFLEN
    /\ ctstat' = (ctstat \/ n > 0)

EchoLength(key) == IF key \in {"nl", "^A", "^H"} THEN 2 ELSE 1
EchoKey(key) ==
    IF iecho THEN Echo(EchoLength(key)) ELSE UNCHANGED <<echo, ctstat>>

(* Readers that have been let go and have not taken their character yet.   *)
LetGoIn == {p \in Users : pc[p].op \in {"get", "peek"} /\ Awake(p)}

(* Characters in ibuff, those of the line being typed included.            *)
Stored == AtLeast0(isem.cnt) + Cardinality(LetGoIn) + icursor

Store ==
    /\ ibuff' = [ibuff EXCEPT ![ihead] = typed + 1]
    /\ ihead' = (ihead + 1) % IBUFLEN
    /\ UNCHANGED itail

-----------------------------------------------------------------------------
(* Raw and cbreak mode: every character can be read at once.               *)
TypeRaw(key) ==
    /\ imode = "IMRAW"
    /\ UNCHANGED <<oheld, echo, ctstat, icursor>>
    /\ \/ isem.cnt >= IBUFLEN /\ UNCHANGED <<isem, ibuff, ihead, itail>>
       \/ isem.cnt < IBUFLEN /\ Store /\ isem' = Signalled(isem, 1)

TypeCbreak(key) ==
    /\ oheld' = FALSE
    /\ UNCHANGED icursor
    /\ \/ isem.cnt >= IBUFLEN /\ Echo(1) /\ UNCHANGED <<isem, ibuff, ihead, itail>>
       \/ isem.cnt < IBUFLEN /\ Store /\ isem' = Signalled(isem, 1) /\ EchoKey(key)

(* Cooked mode: a line is edited until it ends.                            *)
KillLine ==
    /\ ihead' = (ihead - icursor) % IBUFLEN
    /\ icursor' = 0
    /\ Echo(2)
    /\ UNCHANGED <<isem, ibuff, itail>>

(* Mutation of EraseOne: it goes on past the start of the line.            *)
EraseOneUnchecked ==
    /\ ihead' = (ihead - 1) % IBUFLEN
    /\ icursor' = AtLeast0(icursor - 1)
    /\ UNCHANGED <<isem, ibuff, itail, echo, ctstat>>

(* erase1.  On the screen a control character takes two places.            *)
EraseOne ==
    \/ /\ icursor = 0
       /\ UNCHANGED <<isem, ibuff, ihead, itail, icursor, echo, ctstat>>
    \/ /\ icursor > 0
       /\ icursor' = icursor - 1
       /\ ihead' = (ihead - 1) % IBUFLEN
       /\ \/ iecho /\ \E n \in {3, 6} : Echo(n)
          \/ ~iecho /\ ctstat' = TRUE /\ UNCHANGED echo
       /\ UNCHANGED <<isem, ibuff, itail>>

EndLine ==
    /\ EchoKey("nl")
    /\ Store
    /\ icursor' = 0
    /\ isem' = Signalled(isem, icursor + 1)

AddToLine(key) ==
    \/ /\ AtLeast0(isem.cnt) + icursor >= IBUFLEN - 1
       /\ Echo(1)
       /\ UNCHANGED <<isem, ibuff, ihead, itail, icursor>>
    \/ /\ AtLeast0(isem.cnt) + icursor < IBUFLEN - 1
       /\ EchoKey(key)
       /\ Store
       /\ icursor' = icursor + 1
       /\ UNCHANGED isem

TypeCooked(key) ==
    /\ oheld' = FALSE
    /\ \/ key = "@" /\ KillLine
       \/ key = "^H" /\ EraseOne
       \/ key = "nl" /\ EndLine
       \/ key \notin {"@", "^H", "nl"} /\ AddToLine(key)

(* Mutation of Flow: ^Q does not start the transmitter.                    *)
FlowWithoutStart(key) ==
    /\ oheld' = (key = "^S")
    /\ UNCHANGED <<isem, ibuff, ihead, itail, icursor, echo, ctstat>>

Flow(key) ==
    /\ oheld' = (key = "^S")
    /\ ctstat' = (ctstat \/ key = "^Q")
    /\ UNCHANGED <<isem, ibuff, ihead, itail, icursor, echo>>

ttyiin(key) ==
    /\ typed' = typed + 1
    /\ \/ TypeRaw(key)
       \/ imode # "IMRAW" /\ key \in {"^S", "^Q"} /\ Flow(key)
       \/ imode = "IMCBREAK" /\ key \notin {"^S", "^Q"} /\ TypeCbreak(key)
       \/ imode = "IMCOOKED" /\ key \notin {"^S", "^Q"} /\ TypeCooked(key)
    /\ Roomy /\ Stored = IBUFLEN => ibuff' = ibuff
    /\ UNCHANGED <<outVars, imode, iecho, pc, wrote>>

-----------------------------------------------------------------------------
(* Process p takes n characters one by one, until it has to wait.  held is *)
(* the number of units of isem (0 or 1) that it has been given already.    *)
GetRest(p, n, held) ==
    LET m == AtMost(held + AtLeast0(isem.cnt), n)
    IN  /\ itail' = (itail + m) % IBUFLEN
        /\ \/ m = n /\ isem' = Taken(isem, m - held)
              /\ Return(p)
           \/ m < n /\ isem' = Queued(Taken(isem, m - held), p)
              /\ Goto(p, "get", <<>>, n - m)

(* readcopy: count characters at once (none, if count is negative).        *)
Readcopy(p, count, after) ==
    /\ itail' = (itail + AtLeast0(count)) % IBUFLEN
    /\ isem' = Reset(isem.cnt - count)
    /\ Goto(p, "copied", <<>>, after)

ReadCount(count) == IF count = 0 THEN isem.cnt ELSE count

(* Mutation of ttyread: what was there is not taken off what is to come.   *)
ttyreadTooMuch(p, count) ==
    /\ pc[p].op = "idle" /\ count > 0
    /\ \/ count <= isem.cnt /\ Readcopy(p, count, 0)
       \/ count > isem.cnt /\ isem.cnt > 0 /\ Readcopy(p, isem.cnt + 1, count)
       \/ count > isem.cnt /\ isem.cnt <= 0 /\ GetRest(p, count, 0)
    /\ UNCHANGED <<ibuff, ihead, icursor, imode, typed>>
    /\ UNCHANGED <<outVars, echo, iecho, oheld, ctstat, wrote>>

ttyread(p, count) ==
    /\ pc[p].op = "idle"
    /\ ReadCount(count) # 0
    /\ LET n == ReadCount(count)
       IN  \/ n <= isem.cnt /\ Readcopy(p, n, 0)
           \/ n > isem.cnt /\ isem.cnt > 0 /\ Readcopy(p, isem.cnt, n - isem.cnt)
           \/ n > isem.cnt /\ isem.cnt <= 0 /\ GetRest(p, n, 0)
    /\ UNCHANGED <<ibuff, ihead, icursor, imode, typed>>
    /\ UNCHANGED <<outVars, echo, iecho, oheld, ctstat, wrote>>

ttygetc(p) ==
    /\ pc[p].op = "idle"
    /\ GetRest(p, 1, 0)
    /\ UNCHANGED <<ibuff, ihead, icursor, imode, typed>>
    /\ UNCHANGED <<outVars, echo, iecho, oheld, ctstat, wrote>>

(* After the resched of readcopy, or when it has been let go.              *)
ReadOn(p) ==
    /\ \/ AtPc(p, "copied") /\ GetRest(p, pc[p].n, 0)
       \/ AtPc(p, "get") /\ GetRest(p, pc[p].n, 1)
    /\ UNCHANGED <<ibuff, ihead, icursor, imode, typed>>
    /\ UNCHANGED <<outVars, echo, iecho, oheld, ctstat, wrote>>

-----------------------------------------------------------------------------
(* ttycntl.  TCNEXTC takes a unit, looks at the character, and gives the   *)
(* unit back once signals are unblocked again.  Setting and resetting the  *)
(* BREAK bit changes nothing else, and TCICHARS only looks.                *)

SetMode(mode) == imode' = mode /\ UNCHANGED iecho
SetEcho(on) == iecho' = on /\ UNCHANGED imode

ttycntl(p, func) ==
    /\ pc[p].op = "idle"
    /\ \/ /\ \/ func = "TCMODER" /\ SetMode("IMRAW")
             \/ func = "TCMODEC" /\ SetMode("IMCOOKED")
             \/ func = "TCMODEK" /\ SetMode("IMCBREAK")
             \/ func = "TCECHO" /\ SetEcho(TRUE)
             \/ func = "TCNOECHO" /\ SetEcho(FALSE)
          /\ UNCHANGED <<isem, pc>>
       \/ /\ func = "TCNEXTC"
          /\ Goto(p, "peek", <<>>, 0)
          /\ isem' = IF isem.cnt > 0 THEN Taken(isem, 1) ELSE Queued(isem, p)
          /\ UNCHANGED <<imode, iecho>>
    /\ UNCHANGED <<ibuff, ihead, itail, icursor, typed>>
    /\ UNCHANGED <<outVars, echo, oheld, ctstat, wrote>>

PeekEnd(p) ==
    /\ AtPc(p, "peek")
    /\ Return(p)
    /\ isem' = Signalled(isem, 1)
    /\ UNCHANGED <<ibuff, ihead, itail, icursor, imode, typed>>
    /\ UNCHANGED <<outVars, echo, iecho, oheld, ctstat, wrote>>

UpperIn(p) == ReadOn(p) \/ PeekEnd(p)

=============================================================================
