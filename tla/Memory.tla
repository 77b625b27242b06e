------------------------------- MODULE Memory -------------------------------
(***************************************************************************)
(* The memory that XINU hands out: getmem.c, getstk.c, freemem.c, freestk  *)
(* and the rounding of mem.h, the free list that meminit and sysinit set   *)
(* up, and those who use it: create and kill for stacks, the scanner's     *)
(* yyalloc, yyrealloc and yyfree for buffers (lex.yy.c).                   *)
(*                                                                         *)
(* Addresses and sizes are bytes.  The free list is the sequence of its    *)
(* blocks in the order of the links; memlist.mlen, which nothing reads, is *)
(* left out.  Every operation runs with signals blocked, in one piece.     *)
(***************************************************************************)
EXTENDS Integers, Sequences, SequencesExt, FiniteSetsExt

CONSTANTS
    NPROC,      \* entries of the process table
    RAMSIZE,    \* ints of memory
    minaddr,    \* where calloc has put them
    MINSTK,     \* bytes of the least stack
    NULLSTK,    \* bytes kept at the top for the null process
    NMEM,       \* entries of the scanner's memarray
    StkSizes,   \* stack sizes passed to create
    HeapSizes   \* sizes passed to yyalloc and yyrealloc

SIZEOFINT == 4
maxaddr == minaddr + SIZEOFINT * (RAMSIZE - 1)

roundew(x) == ((x + 7) \div 8) * 8
truncew(x) == (x \div 8) * 8

(* calloc aligns what it returns; the null process's stack leaves room.    *)
ASSUME MemoryAssumption ==
    /\ NPROC \in Nat /\ NMEM \in Nat
    /\ RAMSIZE \in Nat /\ MINSTK \in Nat \ {0} /\ NULLSTK \in Nat
    /\ minaddr \in Nat \ {0} /\ minaddr % 8 = 0
    /\ 8 + NULLSTK <= SIZEOFINT * RAMSIZE
    /\ StkSizes \subseteq Int /\ HeapSizes \subseteq Nat

Users == 1 .. NPROC - 1         \* the processes that create makes
Addresses == minaddr .. maxaddr + SIZEOFINT - 1

VARIABLES
    memlist,    \* the free blocks, as [addr, len]
    pbase,      \* pbase[p]: topmost int of p's stack, 0 when p is free
    pstklen,    \* pstklen[p]: its length
    linkbase,   \* linkbase[p]: topmost int of p's link stack (rtn_env)
    links,      \* the link stacks taken so far, which nobody gives back
    memarray,   \* the buffers of the scanner, as [addr, size]
    exited      \* handle_error has ended the program

memVars == <<memlist, pbase, pstklen, linkbase, links, memarray, exited>>

Block(addr, len) == [addr |-> addr, len |-> len]
End(b) == b.addr + b.len

Init ==
    /\ memlist = <<Block(roundew(minaddr),
                         truncew(maxaddr - NULLSTK - minaddr + SIZEOFINT))>>
    /\ pbase = [p \in Users |-> 0]
    /\ pstklen = [p \in Users |-> 0]
    /\ linkbase = [p \in Users |-> 0]
    /\ links = {}
    /\ memarray = {}
    /\ exited = FALSE

-----------------------------------------------------------------------------
(* getstk: from the top of the last block that is large enough.            *)

Fits(list, nbytes) == {i \in DOMAIN list : list[i].len >= roundew(nbytes)}

HasRoom(list, nbytes) == nbytes > 0 /\ Fits(list, nbytes) # {}

(* Mutation of LastFit: a block of one unit less is taken as well.         *)
LastFitShort(list, nbytes) ==
    Max({i \in DOMAIN list : list[i].len >= roundew(nbytes) - 8})

LastFit(list, nbytes) == Max(Fits(list, nbytes))

StkTop(list, nbytes) == End(list[LastFit(list, nbytes)]) - SIZEOFINT

AfterGetStk(list, nbytes) ==
    LET i == LastFit(list, nbytes)
    IN  IF list[i].len = roundew(nbytes)
        THEN RemoveAt(list, i)
        ELSE [list EXCEPT ![i] = Block(@.addr, @.len - roundew(nbytes))]

(* getmem: from the bottom of the first block that is large enough.        *)

FirstFit(list, nbytes) == Min(Fits(list, nbytes))

MemAddr(list, nbytes) == list[FirstFit(list, nbytes)].addr

(* Mutation of AfterGetMem: the size that was asked for is not rounded.    *)
AfterGetMemUnrounded(list, nbytes) ==
    LET i == FirstFit(list, nbytes)
    IN  IF list[i].len = roundew(nbytes)
        THEN RemoveAt(list, i)
        ELSE [list EXCEPT ![i] = Block(@.addr + nbytes, @.len - nbytes)]

AfterGetMem(list, nbytes) ==
    LET i == FirstFit(list, nbytes)
        n == roundew(nbytes)
    IN  IF list[i].len = n
        THEN RemoveAt(list, i)
        ELSE [list EXCEPT ![i] = Block(@.addr + n, @.len - n)]

-----------------------------------------------------------------------------
(* freemem.  It walks past the blocks below the one it is given (Below of  *)
(* them), and refuses a block that is not inside memory or overlaps a      *)
(* neighbour on the list.                                                  *)

Below(list, block) ==
    Max({k \in 0 .. Len(list) : \A i \in 1 .. k : list[i].addr < block})

FreeRefused(list, block, nbytes) ==
    LET k == Below(list, block)
    IN  \/ nbytes = 0 \/ block > maxaddr \/ block < minaddr
        \/ k > 0 /\ End(list[k]) > block
        \/ k < Len(list) /\ block + roundew(nbytes) > list[k + 1].addr

(* The block joins the one below if they touch, or else is linked in.      *)
JoinsBelow(list, block) ==
    LET k == Below(list, block) IN k > 0 /\ End(list[k]) = block

PutBack(list, block, nbytes) ==
    LET k == Below(list, block)
    IN  IF JoinsBelow(list, block)
        THEN [list EXCEPT ![k] = Block(@.addr, @.len + roundew(nbytes))]
        ELSE InsertAt(list, k + 1, Block(block, roundew(nbytes)))

PlaceOf(list, block) ==
    IF JoinsBelow(list, block) THEN Below(list, block) ELSE Below(list, block) + 1

(* Mutation of JoinAbove: blocks that touch stay apart.                    *)
JoinAboveNever(list, q) == list

JoinAbove(list, q) ==
    IF q < Len(list) /\ End(list[q]) = list[q + 1].addr
    THEN RemoveAt([list EXCEPT ![q] = Block(@.addr, @.len + list[q + 1].len)], q + 1)
    ELSE list

AfterFree(list, block, nbytes) ==
    IF FreeRefused(list, block, nbytes) THEN list
    ELSE JoinAbove(PutBack(list, block, nbytes), PlaceOf(list, block))

(* Mutation of StkBottom: pbase is taken for the end of the stack.         *)
StkBottomFromEnd(base, len) == base - roundew(len)

StkBottom(base, len) == base - roundew(len) + SIZEOFINT

AfterFreeStk(list, base, len) == AfterFree(list, StkBottom(base, len), roundew(len))

-----------------------------------------------------------------------------
(* create takes two stacks and ends the program when there is no memory    *)
(* for them; kill gives one back.                                          *)

Fails == exited' = TRUE /\ UNCHANGED <<memlist, pbase, pstklen, linkbase, links, memarray>>

CreateGranted(ssize) ==
    /\ roundew(ssize) >= MINSTK
    /\ HasRoom(memlist, roundew(ssize))
    /\ HasRoom(AfterGetStk(memlist, roundew(ssize)), MINSTK)

NewStacks(p, len) ==
    LET rest == AfterGetStk(memlist, len)
        link == StkTop(rest, MINSTK)
    IN  /\ pbase' = [pbase EXCEPT ![p] = StkTop(memlist, len)]
        /\ pstklen' = [pstklen EXCEPT ![p] = len]
        /\ linkbase' = [linkbase EXCEPT ![p] = link]
        /\ links' = links \cup {Block(StkBottom(link, MINSTK), roundew(MINSTK))}
        /\ memlist' = AfterGetStk(rest, MINSTK)
        /\ UNCHANGED <<memarray, exited>>

Create(p, ssize) ==
    /\ ~exited
    /\ pbase[p] = 0
    /\ \/ ~CreateGranted(ssize) /\ Fails
       \/ CreateGranted(ssize) /\ NewStacks(p, roundew(ssize))

Kill(p) ==
    /\ ~exited
    /\ pbase[p] # 0
    /\ memlist' = AfterFreeStk(memlist, pbase[p], pstklen[p])
    /\ pbase' = [pbase EXCEPT ![p] = 0]
    /\ pstklen' = [pstklen EXCEPT ![p] = 0]
    /\ linkbase' = [linkbase EXCEPT ![p] = 0]
    /\ UNCHANGED <<links, memarray, exited>>

-----------------------------------------------------------------------------
(* The scanner's buffers.  Its memarray is large enough for it (NMEM).     *)

Buffer(addr, size) == [addr |-> addr, size |-> size]

AllocateFrom(list, others, size) ==
    \/ ~HasRoom(list, size) /\ Fails
    \/ /\ HasRoom(list, size)
       /\ memarray' = others \cup {Buffer(MemAddr(list, size), size)}
       /\ memlist' = AfterGetMem(list, size)
       /\ UNCHANGED <<pbase, pstklen, linkbase, links, exited>>

yyalloc(size) ==
    /\ ~exited
    /\ Cardinality(memarray) < NMEM
    /\ AllocateFrom(memlist, memarray, size)

yyfree(b) ==
    /\ ~exited
    /\ memlist' = AfterFree(memlist, b.addr, b.size)
    /\ memarray' = memarray \ {b}
    /\ UNCHANGED <<pbase, pstklen, linkbase, links, exited>>

(* The old buffer is given back first, and its contents are not copied.    *)
yyrealloc(b, size) ==
    /\ ~exited
    /\ AllocateFrom(AfterFree(memlist, b.addr, b.size), memarray \ {b}, size)

Next ==
    \/ \E p \in Users, ssize \in StkSizes : Create(p, ssize)
    \/ \E p \in Users : Kill(p)
    \/ \E size \in HeapSizes : yyalloc(size)
    \/ \E b \in memarray : yyfree(b)
    \/ \E b \in memarray, size \in HeapSizes : yyrealloc(b, size)

Spec == Init /\ [][Next]_memVars

-----------------------------------------------------------------------------
(* Properties.                                                             *)

Live == {p \in Users : pbase[p] # 0}
StackOf(p) == Block(StkBottom(pbase[p], pstklen[p]), pstklen[p])
BufferOf(b) == Block(b.addr, roundew(b.size))

TypeOK ==
    /\ memlist \in Seq([addr : Addresses, len : Nat \ {0}])
    /\ pbase \in [Users -> {0} \cup Addresses]
    /\ pstklen \in [Users -> Nat]
    /\ linkbase \in [Users -> {0} \cup Addresses]
    /\ links \subseteq [addr : Addresses, len : Nat \ {0}]
    /\ memarray \subseteq [addr : Addresses, size : HeapSizes]
    /\ exited \in BOOLEAN

(* The free list is in order of address and its blocks never touch: freemem*)
(* has joined what it could, so the walks of getmem and getstk see every   *)
(* free stretch in one piece, however blocks came and went.                *)
FreeListWellFormed ==
    \A i, j \in DOMAIN memlist : i < j => End(memlist[i]) < memlist[j].addr

(* Free blocks start and end at multiples of 8, so that a header fits in   *)
(* the smallest of them and what getmem hands out is aligned.              *)
FreeBlocksAligned ==
    \A i \in DOMAIN memlist : memlist[i].addr % 8 = 0 /\ memlist[i].len % 8 = 0

(* Every byte that sysinit put on the list is free or belongs to exactly   *)
(* one user, counting the link stacks of dead processes, and nobody has    *)
(* any other byte: nothing is handed out twice, nothing gets lost but the  *)
(* link stacks, and freemem refuses nothing that was handed out.           *)
Pool == minaddr .. minaddr + truncew(SIZEOFINT * RAMSIZE - NULLSTK) - 1

Bytes(b) == b.addr .. End(b) - 1

Holders(a) ==
    {<<"free", i>> : i \in {j \in DOMAIN memlist : a \in Bytes(memlist[j])}}
        \cup {<<"stack", p>> : p \in {q \in Live : a \in Bytes(StackOf(q))}}
        \cup {<<"link", b>> : b \in {c \in links : a \in Bytes(c)}}
        \cup {<<"buffer", b>> : b \in {c \in memarray : a \in Bytes(BufferOf(c))}}

MemoryAccounted ==
    \A a \in Addresses :
        Cardinality(Holders(a)) = IF a \in Pool THEN 1 ELSE 0

(* create and sysinit name the lowest byte of a stack to makecontext by    *)
(* arithmetic on pointers to int ("pbase - ssize + 1", with ssize in       *)
(* bytes).                                                                 *)
ContextStack(base, len) == Block(base - SIZEOFINT * len + SIZEOFINT, len)

ContextStacks ==
    {ContextStack(pbase[p], pstklen[p]) : p \in Live}
        \cup {ContextStack(linkbase[p], MINSTK) : p \in Live}
        \cup {ContextStack(maxaddr, NULLSTK)}

Apart(b, c) == End(b) <= c.addr \/ End(c) <= b.addr

(* No two contexts run on the same memory: getstk allocates a stack ("base *)
(* of run time stack", "lowest extent of stack", proc.h) for each.         *)
StacksApart == \A b, c \in ContextStacks : b # c => Apart(b, c)

=============================================================================
