------------------------------- MODULE TtyOut -------------------------------
(***************************************************************************)
(* The output side of the driver: ttywrite and writcopy, ttyputc, and the  *)
(* transmitter interrupt ttyoin.                                           *)
(***************************************************************************)
EXTENDS TtyLine

CONSTANTS
    MaxChars,   \* characters that one user writes
    Prompt      \* a writer that is let go runs before the buffer runs dry

ASSUME PromptAssumption == MaxChars \in Nat /\ Prompt \in BOOLEAN

(* Mutation of CharExpanded: newlines are not mapped.                      *)
CharExpandedBare(ch) == <<ch>>

(* A newline is put in the buffer as a return and a newline (ocrlf).       *)
CharExpanded(ch) ==
    IF ch.c = "NL" THEN <<[ch EXCEPT !.c = "CR"], ch>> ELSE <<ch>>

Expanded(s) == FlattenSeq([i \in DOMAIN s |-> CharExpanded(s[i])])

(* The buffer after the characters of s have been put in it.               *)
Put(s) ==
    /\ obuff' = [i \in DOMAIN obuff |->
                    LET k == ((i - ohead) % OBUFLEN) + 1
                    IN  IF k <= Len(s) THEN s[k] ELSE obuff[i]]
    /\ ohead' = (ohead + Len(s)) % OBUFLEN
    /\ UNCHANGED <<otail, odsend, sent>>

-----------------------------------------------------------------------------
(* writcopy copies count characters of the user's buffer as long as there  *)
(* is room.  If there is room for only one half of a newline, it puts the  *)
(* newline, and leaves a return in the user's buffer in its place.         *)

(* The user's buffer and what lies behind it.                              *)
UserBuffer(p, left, count) ==
    left \o [i \in 1 .. AtLeast0(count - Len(left)) |-> Char(p, 0, "c")]

Fitting(s) == {k \in 0 .. Len(s) : Len(Expanded(SubSeq(s, 1, k))) <= osem.cnt}

Writcopy(p, left, count, op) ==
    LET user     == UserBuffer(p, left, count)
        fromUser == CHOOSE k \in Fitting(SubSeq(user, 1, count)) :
                        \A m \in Fitting(SubSeq(user, 1, count)) : m <= k
        whole    == Expanded(SubSeq(user, 1, fromUser))
        halfFits == /\ fromUser < count /\ user[fromUser + 1].c = "NL"
                    /\ Len(whole) + 1 <= osem.cnt
        rest     == SubSeq(user, fromUser + 1, Len(left))
        toBuffer == IF halfFits THEN Append(whole, user[fromUser + 1]) ELSE whole
    IN  /\ Put(toBuffer)
        /\ osem' = Reset(osem.cnt - Len(toBuffer))
        /\ Goto(p, IF op = "loop" /\ fromUser = 0 THEN "none" ELSE op,
                IF halfFits THEN [rest EXCEPT ![1].c = "CR"] ELSE rest, 0)

(* The loop of ttyputc that ends ttywrite, until it has to wait.  held is  *)
(* the number of units of osem (0 or 1) that p has been given already.     *)
PutRest(p, s, held, started) ==
    LET n == AtMost(held + AtLeast0(osem.cnt), Len(s))
    IN  /\ Put(SubSeq(s, 1, n))
        /\ \/ n = Len(s) /\ osem' = Taken(osem, n - held)
              /\ Return(p)
           \/ n < Len(s) /\ osem' = Queued(Taken(osem, n - held), p)
              /\ Goto(p, "put", SubSeq(s, n + 1, Len(s)), 0)
        /\ ctstat' = (ctstat \/ started \/ n > 0)

(* ttywrite: as much as fits at once, as long as all that is left might    *)
(* fit; then what fits of it; then character by character.                 *)
WriteRest(p, left, started) ==
    \/ /\ osem.cnt > 0
       /\ Writcopy(p, left, osem.cnt, "rest")
       /\ ctstat' = (ctstat \/ started)
    \/ /\ osem.cnt <= 0
       /\ PutRest(p, Expanded(left), 0, started)

WriteLoop(p, left) ==
    \/ /\ osem.cnt >= Len(left)
       /\ Writcopy(p, left, Len(left), "loop")
       /\ UNCHANGED ctstat
    \/ /\ osem.cnt < Len(left)
       /\ WriteRest(p, left, FALSE)

(* After the resched of writcopy.                                          *)
WriteOn(p) ==
    /\ \/ /\ AtPc(p, "loop") /\ pc[p].left # <<>>
          /\ WriteLoop(p, pc[p].left)
       \/ /\ AtPc(p, "loop") /\ pc[p].left = <<>>
          /\ ctstat' = TRUE
          /\ Return(p)
          /\ UNCHANGED outVars
       \/ /\ AtPc(p, "none")
          /\ WriteRest(p, pc[p].left, TRUE)
       \/ /\ AtPc(p, "rest")
          /\ PutRest(p, Expanded(pc[p].left), 0, TRUE)
       \/ /\ AtPc(p, "put")
          /\ PutRest(p, pc[p].left, 1, FALSE)
    /\ UNCHANGED <<wrote, inVars, echo, iecho, oheld>>

(* The characters of a text, named.                                        *)
Named(p, text) == [i \in DOMAIN text |-> Char(p, Len(wrote[p]) + i, text[i])]

Writes(p, text) ==
    /\ pc[p].op = "idle"
    /\ Len(wrote[p]) + Len(text) <= MaxChars
    /\ wrote' = [wrote EXCEPT ![p] = @ \o text]

ttywrite(p, text) ==
    /\ text # <<>>
    /\ Writes(p, text)
    /\ WriteLoop(p, Named(p, text))
    /\ UNCHANGED <<inVars, echo, iecho, oheld>>

-----------------------------------------------------------------------------
(* ttyputc called by putc: signals are not blocked until it has its unit.  *)

PutWait(p, s) ==
    /\ Goto(p, "place", s, 0)
    /\ osem' = IF osem.cnt > 0 THEN Taken(osem, 1) ELSE Queued(osem, p)
    /\ UNCHANGED <<obuff, ohead, otail, odsend, sent, inVars, echo, iecho, oheld, ctstat>>

ttyputc(p, text) ==
    /\ Writes(p, text)
    /\ PutWait(p, Expanded(Named(p, text)))

PutAgain(p) ==
    /\ AtPc(p, "again")
    /\ PutWait(p, pc[p].left)
    /\ UNCHANGED wrote

PutPlace(p) ==
    /\ AtPc(p, "place")
    /\ Put(<<Head(pc[p].left)>>)
    /\ IF Len(pc[p].left) = 1
       THEN Return(p)
       ELSE Goto(p, "again", Tail(pc[p].left), 0)
    /\ ctstat' = TRUE
    /\ UNCHANGED <<osem, wrote, inVars, echo, iecho, oheld>>

UpperOut(p) == WriteOn(p) \/ PutAgain(p) \/ PutPlace(p)

-----------------------------------------------------------------------------
(* Writers that have been let go and have not put their character yet.     *)
LetGoOut == {p \in Users : pc[p].op \in {"put", "place"} /\ Awake(p)}

(* Characters that are in the buffer.                                      *)
InBuffer == OBUFLEN - AtLeast0(osem.cnt) - odsend - Cardinality(LetGoOut)

(* ttyoin.  Space is given back one by one while there is plenty, and in   *)
(* portions of OBMINSP while there is little.                              *)
SendOne ==
    LET ch == obuff[otail]
    IN  /\ sent' = [sent EXCEPT ![ch.by] = Append(@, ch.n)]
        /\ otail' = (otail + 1) % OBUFLEN

(* Mutation of GiveSpaceBack: characters not counted yet are forgotten.    *)
GiveSpaceBackForgetting ==
    \/ osem.cnt > OBMINSP /\ osem' = Signalled(osem, 1) /\ odsend' = 0
    \/ osem.cnt <= OBMINSP /\ odsend + 1 = OBMINSP
       /\ osem' = Signalled(osem, 1) /\ odsend' = 0
    \/ osem.cnt <= OBMINSP /\ odsend + 1 < OBMINSP
       /\ UNCHANGED osem /\ odsend' = odsend + 1

(* Mutation of GiveSpaceBack: the count of delayed sends is not reset.     *)
GiveSpaceBackWithoutReset ==
    \/ osem.cnt > OBMINSP /\ osem' = Signalled(osem, 1) /\ UNCHANGED odsend
    \/ osem.cnt <= OBMINSP /\ odsend + 1 = OBMINSP
       /\ osem' = Signalled(osem, OBMINSP) /\ odsend' = OBMINSP
    \/ osem.cnt <= OBMINSP /\ odsend + 1 # OBMINSP
       /\ UNCHANGED osem /\ odsend' = odsend + 1

GiveSpaceBack ==
    \/ osem.cnt > OBMINSP /\ osem' = Signalled(osem, 1) /\ UNCHANGED odsend
    \/ osem.cnt <= OBMINSP /\ odsend + 1 = OBMINSP
       /\ osem' = Signalled(osem, OBMINSP) /\ odsend' = 0
    \/ osem.cnt <= OBMINSP /\ odsend + 1 # OBMINSP
       /\ UNCHANGED osem /\ odsend' = odsend + 1

ttyoin ==
    /\ ctstat
    /\ \/ /\ echo > 0
          /\ echo' = echo - 1
          /\ UNCHANGED <<outVars, ctstat>>
       \/ /\ echo = 0 /\ ~oheld /\ osem.cnt < OBUFLEN
          /\ Prompt => InBuffer > 0 \/ LetGoOut = {}
          /\ SendOne
          /\ GiveSpaceBack
          /\ UNCHANGED <<obuff, ohead, echo, ctstat>>
       \/ /\ echo = 0 /\ (oheld \/ osem.cnt >= OBUFLEN)
          /\ ctstat' = FALSE
          /\ UNCHANGED <<outVars, echo>>
    /\ UNCHANGED <<inVars, iecho, oheld, pc, wrote>>

=============================================================================
