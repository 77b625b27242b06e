---------------------------- MODULE Memory_proofs ----------------------------
(***************************************************************************)
(* Proofs about Memory: the free list stays in order, joined and aligned,  *)
(* whatever sizes are asked for.                                           *)
(*                                                                         *)
(* getstk and getmem shrink one block or take it off the list, so they     *)
(* keep the order.  freemem finds the place of the block by address; that  *)
(* it checks for overlaps, and joins what touches on both sides, makes the *)
(* result strict again.  The ends of what was handed out are multiples of  *)
(* 8 because the ends of free blocks are; so what comes back is aligned.   *)
(***************************************************************************)
EXTENDS Memory, QueueOps_proofs, FiniteSetTheorems

Top == maxaddr + SIZEOFINT

FreeBlocks ==
    {b \in [addr : Addresses, len : Nat \ {0}] :
        b.addr % 8 = 0 /\ b.len % 8 = 0 /\ b.addr + b.len <= Top}

InOrder(list) ==
    \A i, j \in 1 .. Len(list) : i < j => End(list[i]) < list[j].addr

FreeList(list) == list \in Seq(FreeBlocks) /\ InOrder(list)

(* What was handed out lies in memory and ends or starts aligned.          *)
StacksAligned ==
    \A p \in Users : pbase[p] # 0 =>
        (pbase[p] + SIZEOFINT) % 8 = 0 /\ pbase[p] + SIZEOFINT <= Top
BuffersAligned ==
    \A b \in memarray : b.addr % 8 = 0 /\ b.addr + roundew(b.size) <= Top

MemInv == TypeOK /\ FreeList(memlist) /\ StacksAligned /\ BuffersAligned

-----------------------------------------------------------------------------
(* Rounding and addresses.                                                 *)

LEMMA Roundew ==
    ASSUME NEW x \in Int
    PROVE  /\ roundew(x) \in Int /\ roundew(x) % 8 = 0
           /\ x <= roundew(x) /\ roundew(x) <= x + 7
           /\ x > 0 => roundew(x) > 0
           /\ x >= 0 => roundew(x) >= 0
BY SMT DEF roundew

LEMMA RoundewTwice ==
    ASSUME NEW x \in Int
    PROVE  roundew(roundew(x)) = roundew(x)
BY SMT DEF roundew

LEMMA Multiples ==
    ASSUME NEW x \in Int, NEW y \in Int, x % 8 = 0, y % 8 = 0
    PROVE  (x + y) % 8 = 0 /\ (x - y) % 8 = 0
BY SMT

LEMMA TopFacts ==
    /\ minaddr \in Nat \ {0} /\ minaddr % 8 = 0
    /\ Top \in Nat /\ maxaddr \in Int /\ Top = maxaddr + 4
    /\ Top = minaddr + 4 * RAMSIZE
    /\ Addresses \subseteq Nat \ {0}
    /\ \A a \in Int : a \in Addresses <=> minaddr <= a /\ a < Top
BY MemoryAssumption DEF Top, maxaddr, Addresses, SIZEOFINT

LEMMA FreeBlockFacts ==
    ASSUME NEW b \in FreeBlocks
    PROVE  /\ b.addr \in Nat /\ b.len \in Nat /\ b.len > 0
           /\ b.addr % 8 = 0 /\ b.len % 8 = 0
           /\ minaddr <= b.addr /\ b.addr + b.len <= Top
           /\ End(b) = b.addr + b.len
<1>1. b.addr \in Addresses /\ b.len \in Nat \ {0}
  BY DEF FreeBlocks
<1>2. b.addr \in Nat /\ minaddr <= b.addr
  BY <1>1, MemoryAssumption DEF Addresses
<1> QED BY <1>1, <1>2 DEF FreeBlocks, End

LEMMA BlockIsFree ==
    ASSUME NEW a \in Int, NEW n \in Int,
           minaddr <= a, n > 0, a % 8 = 0, n % 8 = 0, a + n <= Top
    PROVE  /\ Block(a, n) \in FreeBlocks
           /\ Block(a, n).addr = a /\ Block(a, n).len = n
           /\ End(Block(a, n)) = a + n
<1>1. a < Top /\ a \in Addresses /\ n \in Nat \ {0}
  BY TopFacts
<1> QED BY <1>1 DEF Block, FreeBlocks, End

-----------------------------------------------------------------------------
(* What can happen to a free list.                                         *)

LEMMA ListFacts ==
    ASSUME NEW list, FreeList(list)
    PROVE  /\ list \in Seq(FreeBlocks)
           /\ Len(list) \in Nat /\ DOMAIN list = 1 .. Len(list)
           /\ \A i \in 1 .. Len(list) :
                 /\ list[i] \in FreeBlocks
                 /\ list[i].addr \in Nat /\ list[i].len \in Nat /\ list[i].len > 0
                 /\ list[i].addr % 8 = 0 /\ list[i].len % 8 = 0
                 /\ minaddr <= list[i].addr /\ list[i].addr + list[i].len <= Top
                 /\ End(list[i]) = list[i].addr + list[i].len
           /\ \A i, j \in 1 .. Len(list) : i < j => End(list[i]) < list[j].addr
<1>1. list \in Seq(FreeBlocks) /\ Len(list) \in Nat /\ DOMAIN list = 1 .. Len(list)
  BY LenProperties DEF FreeList
<1>2. \A i \in 1 .. Len(list) : list[i] \in FreeBlocks
  BY <1>1, ElementOfSeq
<1> QED BY <1>1, <1>2, FreeBlockFacts DEF FreeList, InOrder

(* A block is taken off the list.                                          *)
LEMMA RemoveBlock ==
    ASSUME NEW list, FreeList(list), NEW i \in 1 .. Len(list)
    PROVE  FreeList(RemoveAt(list, i))
<1> DEFINE r == RemoveAt(list, i)
<1>1. /\ r \in Seq(FreeBlocks) /\ Len(r) = Len(list) - 1
      /\ \A j \in 1 .. Len(list) - 1 : r[j] = IF j < i THEN list[j] ELSE list[j + 1]
  BY RemoveAtShape, ListFacts
<1> HIDE DEF r
<1>2. ASSUME NEW j \in 1 .. Len(r), NEW k \in 1 .. Len(r), j < k
      PROVE  End(r[j]) < r[k].addr
  <2> DEFINE jj == IF j < i THEN j ELSE j + 1
             kk == IF k < i THEN k ELSE k + 1
  <2>1. jj \in 1 .. Len(list) /\ kk \in 1 .. Len(list) /\ jj < kk
    BY <1>1, <1>2, ListFacts
  <2>2. r[j] = list[jj] /\ r[k] = list[kk]
    BY <1>1
  <2> QED BY <2>1, <2>2, ListFacts
<1> QED BY <1>1, <1>2 DEF FreeList, InOrder, r

(* A block is replaced by one that reaches from no lower to no higher than *)
(* its neighbours allow.                                                   *)
LEMMA ReplaceBlock ==
    ASSUME NEW list, FreeList(list), NEW i \in 1 .. Len(list),
           NEW b \in FreeBlocks,
           \A j \in 1 .. Len(list) : j < i => End(list[j]) < b.addr,
           \A j \in 1 .. Len(list) : i < j => End(b) < list[j].addr
    PROVE  FreeList([list EXCEPT ![i] = b])
<1> DEFINE r == [list EXCEPT ![i] = b]
<1>1. list \in Seq(FreeBlocks) /\ i \in 1 .. Len(list)
  BY ListFacts
<1>2. /\ r \in Seq(FreeBlocks) /\ Len(r) = Len(list)
      /\ \A j \in 1 .. Len(list) : r[j] = IF j = i THEN b ELSE list[j]
  BY <1>1, ExceptSeq, ListFacts
<1> HIDE DEF r
<1>3. ASSUME NEW j \in 1 .. Len(r), NEW k \in 1 .. Len(r), j < k
      PROVE  End(r[j]) < r[k].addr
  <2>1. j \in 1 .. Len(list) /\ k \in 1 .. Len(list)
    BY <1>2
  <2>2. CASE j = i
    BY <2>1, <2>2, <1>2, <1>3
  <2>3. CASE k = i
    BY <2>1, <2>3, <1>2, <1>3
  <2>4. CASE j # i /\ k # i
    BY <2>1, <2>4, <1>2, <1>3, ListFacts
  <2> QED BY <2>2, <2>3, <2>4
<1> QED BY <1>2, <1>3 DEF FreeList, InOrder, r

(* A block is linked in between two others that it does not touch.         *)
LEMMA InsertBlock ==
    ASSUME NEW list, FreeList(list), NEW i \in 1 .. Len(list) + 1,
           NEW b \in FreeBlocks,
           \A j \in 1 .. Len(list) : j < i => End(list[j]) < b.addr,
           \A j \in 1 .. Len(list) : i <= j => End(b) < list[j].addr
    PROVE  FreeList(InsertAt(list, i, b))
<1> DEFINE r == InsertAt(list, i, b)
<1>1. /\ r \in Seq(FreeBlocks) /\ Len(r) = Len(list) + 1
      /\ \A j \in 1 .. Len(list) + 1 :
             r[j] = IF j < i THEN list[j] ELSE IF j = i THEN b ELSE list[j - 1]
  BY InsertAtShape, ListFacts
<1> HIDE DEF r
<1>2. ASSUME NEW j \in 1 .. Len(r), NEW k \in 1 .. Len(r), j < k
      PROVE  End(r[j]) < r[k].addr
  <2> DEFINE jj == IF j < i THEN j ELSE j - 1
             kk == IF k < i THEN k ELSE k - 1
  <2>0. Len(list) \in Nat /\ j \in 1 .. Len(list) + 1 /\ k \in 1 .. Len(list) + 1
    BY <1>1, ListFacts
  <2>1. CASE j = i
    <3>1. kk \in 1 .. Len(list) /\ i <= kk /\ r[j] = b /\ r[k] = list[kk]
      BY <2>0, <2>1, <1>1, <1>2
    <3> QED BY <3>1
  <2>2. CASE k = i
    <3>1. jj \in 1 .. Len(list) /\ jj < i /\ r[k] = b /\ r[j] = list[jj]
      BY <2>0, <2>2, <1>1, <1>2
    <3> QED BY <3>1
  <2>3. CASE j # i /\ k # i
    <3>1. jj \in 1 .. Len(list) /\ kk \in 1 .. Len(list) /\ jj < kk
      BY <2>0, <2>3, <1>2
    <3>2. r[j] = list[jj] /\ r[k] = list[kk]
      BY <2>0, <2>3, <1>1
    <3> QED BY <3>1, <3>2, ListFacts
  <2> QED BY <2>1, <2>2, <2>3
<1> QED BY <1>1, <1>2 DEF FreeList, InOrder, r

-----------------------------------------------------------------------------
(* getstk and getmem.                                                      *)

LEMMA RoomFound ==
    ASSUME NEW list, FreeList(list), NEW n \in Int, HasRoom(list, n)
    PROVE  /\ n > 0 /\ roundew(n) > 0 /\ roundew(n) % 8 = 0 /\ roundew(n) \in Int
           /\ LastFit(list, n) \in 1 .. Len(list)
           /\ list[LastFit(list, n)].len >= roundew(n)
           /\ FirstFit(list, n) \in 1 .. Len(list)
           /\ list[FirstFit(list, n)].len >= roundew(n)
<1> DEFINE T == Fits(list, n)
<1>1. T \subseteq 1 .. Len(list) /\ T # {} /\ n > 0 /\ Len(list) \in Nat
  BY ListFacts DEF HasRoom, Fits
<1>2. \A i \in T : list[i].len >= roundew(n)
  BY DEF Fits
<1>3. T \subseteq 0 .. Len(list) /\ T \subseteq Nat
  BY <1>1
<1> HIDE DEF T
<1>4. Max(T) \in T
  BY <1>1, <1>3, MaxOfBounded
<1>5. Min(T) \in T
  BY <1>1, <1>3, MinOfNats
<1>6. LastFit(list, n) = Max(T) /\ FirstFit(list, n) = Min(T)
  BY DEF LastFit, FirstFit, T
<1> QED BY <1>1, <1>2, <1>4, <1>5, <1>6, Roundew

(* The block that is left keeps its start and loses its end.               *)
LEMMA GetStk ==
    ASSUME NEW list, FreeList(list), NEW n \in Int, HasRoom(list, n)
    PROVE  /\ FreeList(AfterGetStk(list, n))
           /\ StkTop(list, n) \in Int
           /\ (StkTop(list, n) + 4) % 8 = 0
           /\ StkTop(list, n) + 4 <= Top
           /\ minaddr <= StkTop(list, n) + 4 - roundew(n)
<1> DEFINE i == LastFit(list, n)
           b == Block(list[i].addr, list[i].len - roundew(n))
<1>1. /\ roundew(n) > 0 /\ roundew(n) % 8 = 0 /\ roundew(n) \in Int
      /\ i \in 1 .. Len(list) /\ list[i].len >= roundew(n)
  BY RoomFound
<1>2. StkTop(list, n) = list[i].addr + list[i].len - 4
  BY <1>1, ListFacts DEF StkTop, SIZEOFINT
<1>0. AfterGetStk(list, n) =
         IF list[i].len = roundew(n) THEN RemoveAt(list, i) ELSE [list EXCEPT ![i] = b]
  BY DEF AfterGetStk
<1> HIDE DEF i
<1>3. /\ list[i].addr \in Nat /\ list[i].len \in Nat /\ list[i].addr % 8 = 0
      /\ list[i].len % 8 = 0 /\ minaddr <= list[i].addr
      /\ list[i].addr + list[i].len <= Top
  BY <1>1, ListFacts
<1>4. ASSUME list[i].len = roundew(n)
      PROVE  FreeList(AfterGetStk(list, n))
  BY <1>0, <1>1, <1>4, RemoveBlock
<1>5. ASSUME list[i].len # roundew(n)
      PROVE  FreeList(AfterGetStk(list, n))
  <2>0. list[i].len - roundew(n) \in Int /\ list[i].len - roundew(n) > 0
    BY <1>1, <1>3, <1>5
  <2>1. (list[i].len - roundew(n)) % 8 = 0
    BY <1>1, <1>3, Multiples
  <2>2. /\ b \in FreeBlocks /\ b.addr = list[i].addr
        /\ End(b) = list[i].addr + (list[i].len - roundew(n))
    <3>1. list[i].addr + (list[i].len - roundew(n)) <= Top
      BY <1>1, <1>3, TopFacts
    <3> QED BY <3>1, <2>0, <2>1, <1>3, BlockIsFree
  <2>3. \A j \in 1 .. Len(list) : j < i => End(list[j]) < b.addr
    BY <2>2, <1>1, ListFacts
  <2>4. \A j \in 1 .. Len(list) : i < j => End(b) < list[j].addr
    BY <2>2, <1>1, <1>3, ListFacts
  <2>5. FreeList([list EXCEPT ![i] = b])
    BY <2>2, <2>3, <2>4, <1>1, ReplaceBlock
  <2>6. AfterGetStk(list, n) = [list EXCEPT ![i] = b]
    BY <1>0, <1>5
  <2> QED BY <2>5, <2>6
<1>6. (StkTop(list, n) + 4) % 8 = 0
  BY <1>2, <1>3
<1>7. /\ StkTop(list, n) \in Int /\ StkTop(list, n) + 4 <= Top
      /\ minaddr <= StkTop(list, n) + 4 - roundew(n)
  BY <1>1, <1>2, <1>3, TopFacts
<1> QED BY <1>4, <1>5, <1>6, <1>7

(* The block that is left keeps its end and loses its start.               *)
LEMMA GetMem ==
    ASSUME NEW list, FreeList(list), NEW n \in Int, HasRoom(list, n)
    PROVE  /\ FreeList(AfterGetMem(list, n))
           /\ MemAddr(list, n) \in Nat
           /\ MemAddr(list, n) % 8 = 0
           /\ minaddr <= MemAddr(list, n)
           /\ MemAddr(list, n) + roundew(n) <= Top
<1> DEFINE i == FirstFit(list, n)
           b == Block(list[i].addr + roundew(n), list[i].len - roundew(n))
<1>1. /\ roundew(n) > 0 /\ roundew(n) % 8 = 0 /\ roundew(n) \in Int
      /\ i \in 1 .. Len(list) /\ list[i].len >= roundew(n)
  BY RoomFound
<1>2. MemAddr(list, n) = list[i].addr
  BY DEF MemAddr
<1>0. AfterGetMem(list, n) =
         IF list[i].len = roundew(n) THEN RemoveAt(list, i) ELSE [list EXCEPT ![i] = b]
  BY DEF AfterGetMem
<1> HIDE DEF i
<1>3. /\ list[i].addr \in Nat /\ list[i].len \in Nat /\ list[i].addr % 8 = 0
      /\ list[i].len % 8 = 0 /\ minaddr <= list[i].addr
      /\ list[i].addr + list[i].len <= Top
  BY <1>1, ListFacts
<1>4. ASSUME list[i].len = roundew(n)
      PROVE  FreeList(AfterGetMem(list, n))
  BY <1>0, <1>1, <1>4, RemoveBlock
<1>5. ASSUME list[i].len # roundew(n)
      PROVE  FreeList(AfterGetMem(list, n))
  <2>0. /\ list[i].len - roundew(n) \in Int /\ list[i].len - roundew(n) > 0
        /\ list[i].addr + roundew(n) \in Int /\ minaddr <= list[i].addr + roundew(n)
    BY <1>1, <1>3, <1>5, TopFacts
  <2>1. /\ (list[i].len - roundew(n)) % 8 = 0
        /\ (list[i].addr + roundew(n)) % 8 = 0
    BY <1>1, <1>3, Multiples
  <2>2. /\ b \in FreeBlocks /\ b.addr = list[i].addr + roundew(n)
        /\ End(b) = list[i].addr + list[i].len
    <3>1. (list[i].addr + roundew(n)) + (list[i].len - roundew(n))
             = list[i].addr + list[i].len
      BY <1>1, <1>3
    <3> QED BY <3>1, <2>0, <2>1, <1>3, BlockIsFree
  <2>3. ASSUME NEW j \in 1 .. Len(list), j < i
        PROVE  End(list[j]) < b.addr
    <3>1. End(list[j]) < list[i].addr /\ End(list[j]) \in Int
      BY <2>3, <1>1, ListFacts
    <3> QED BY <3>1, <2>2, <1>1, <1>3
  <2>4. \A j \in 1 .. Len(list) : i < j => End(b) < list[j].addr
    BY <2>2, <1>1, <1>3, ListFacts
  <2>5. FreeList([list EXCEPT ![i] = b])
    BY <2>2, <2>3, <2>4, <1>1, ReplaceBlock
  <2>6. AfterGetMem(list, n) = [list EXCEPT ![i] = b]
    BY <1>0, <1>5
  <2> QED BY <2>5, <2>6
<1> QED BY <1>1, <1>2, <1>3, <1>4, <1>5, TopFacts

-----------------------------------------------------------------------------
(* freemem.                                                                *)

(* Where the walk of freemem stops.                                        *)
LEMMA WalkStops ==
    ASSUME NEW list, FreeList(list), NEW block \in Int
    PROVE  LET k == Below(list, block)
           IN  /\ k \in 0 .. Len(list)
               /\ \A i \in 1 .. k : list[i].addr < block
               /\ k < Len(list) => block <= list[k + 1].addr
<1> DEFINE T == {k \in 0 .. Len(list) : \A i \in 1 .. k : list[i].addr < block}
           k == Below(list, block)
<1>1. Len(list) \in Nat /\ T \subseteq 0 .. Len(list) /\ 0 \in T
  BY ListFacts
<1>2. k = Max(T)
  BY DEF Below
<1> HIDE DEF k
<1>3. k \in T /\ \A y \in T : k >= y
  <2> HIDE DEF T
  <2> QED BY <1>1, <1>2, MaxOfBounded
<1>4. ASSUME k < Len(list), ~(block <= list[k + 1].addr)
      PROVE  FALSE
  <2>1. k + 1 \in 1 .. Len(list) /\ list[k + 1].addr < block
    BY <1>1, <1>3, <1>4, ListFacts
  <2>2. k + 1 \in T
    BY <2>1, <1>1, <1>3
  <2> QED BY <2>2, <1>3
<1> QED BY <1>3, <1>4 DEF k

(* A list in which only block q may touch the one above it.                *)
Nearly(list, q) ==
    /\ list \in Seq(FreeBlocks) /\ q \in 1 .. Len(list)
    /\ \A i, j \in 1 .. Len(list) :
          i < j /\ ~(i = q /\ j = q + 1) => End(list[i]) < list[j].addr
    /\ q < Len(list) => End(list[q]) <= list[q + 1].addr

(* Joining the two makes it a free list.                                   *)
LEMMA Join ==
    ASSUME NEW list, NEW q, Nearly(list, q)
    PROVE  FreeList(JoinAbove(list, q))
<1> DEFINE touch == q < Len(list) /\ End(list[q]) = list[q + 1].addr
<1>1. /\ list \in Seq(FreeBlocks) /\ Len(list) \in Nat /\ DOMAIN list = 1 .. Len(list)
      /\ q \in 1 .. Len(list)
  BY LenProperties DEF Nearly
<1>2. \A i \in 1 .. Len(list) :
         /\ list[i] \in FreeBlocks
         /\ list[i].addr \in Nat /\ list[i].len \in Nat /\ list[i].len > 0
         /\ list[i].addr % 8 = 0 /\ list[i].len % 8 = 0
         /\ minaddr <= list[i].addr /\ list[i].addr + list[i].len <= Top
         /\ End(list[i]) = list[i].addr + list[i].len
  BY <1>1, ElementOfSeq, FreeBlockFacts
<1>3. \A i, j \in 1 .. Len(list) :
         i < j /\ ~(i = q /\ j = q + 1) => End(list[i]) < list[j].addr
  BY DEF Nearly
<1>4. ASSUME ~touch
      PROVE  FreeList(JoinAbove(list, q))
  <2>1. ASSUME NEW i \in 1 .. Len(list), NEW j \in 1 .. Len(list), i < j
        PROVE  End(list[i]) < list[j].addr
    <3>1. CASE i = q /\ j = q + 1
      <4>1. q < Len(list) /\ End(list[q]) <= list[q + 1].addr
        BY <3>1, <1>1 DEF Nearly
      <4>2. End(list[q]) # list[q + 1].addr
        BY <4>1, <1>4
      <4> QED BY <4>1, <4>2, <3>1, <1>2
    <3> QED BY <3>1, <2>1, <1>3
  <2>2. JoinAbove(list, q) = list
    BY <1>4 DEF JoinAbove
  <2> QED BY <2>1, <2>2, <1>1 DEF FreeList, InOrder
<1>5. ASSUME touch
      PROVE  FreeList(JoinAbove(list, q))
  <2> DEFINE c == Block(list[q].addr, list[q].len + list[q + 1].len)
             r == [list EXCEPT ![q] = c]
             t == RemoveAt(r, q + 1)
  <2>1. q + 1 \in 1 .. Len(list) /\ End(list[q]) = list[q + 1].addr
    BY <1>1, <1>5
  <2>2. /\ list[q].len + list[q + 1].len \in Int
        /\ list[q].len + list[q + 1].len > 0
        /\ (list[q].len + list[q + 1].len) % 8 = 0
        /\ list[q].addr + (list[q].len + list[q + 1].len) = End(list[q + 1])
        /\ End(list[q + 1]) <= Top
    <3>1. /\ list[q].addr \in Nat /\ list[q].len \in Nat /\ list[q].len % 8 = 0
          /\ list[q].len > 0
          /\ End(list[q]) = list[q].addr + list[q].len
      BY <1>1, <1>2
    <3>2. /\ list[q + 1].addr \in Nat /\ list[q + 1].len \in Nat
          /\ list[q + 1].len % 8 = 0
          /\ list[q + 1].addr + list[q + 1].len <= Top
          /\ End(list[q + 1]) = list[q + 1].addr + list[q + 1].len
      BY <2>1, <1>2
    <3>3. (list[q].len + list[q + 1].len) % 8 = 0
      BY <3>1, <3>2, <1>1, Multiples, SMTT(30)
    <3>4. /\ list[q].len + list[q + 1].len \in Int
          /\ list[q].len + list[q + 1].len > 0
      BY <3>1, <3>2
    <3>5. list[q].addr + (list[q].len + list[q + 1].len)
              = (list[q].addr + list[q].len) + list[q + 1].len
      BY <3>1, <3>2
    <3> QED BY <3>1, <3>2, <3>3, <3>4, <3>5, <2>1
  <2>3. c \in FreeBlocks /\ c.addr = list[q].addr /\ End(c) = End(list[q + 1])
    BY <2>2, <1>1, <1>2, BlockIsFree
  <2>4. JoinAbove(list, q) = t
    BY <1>5 DEF JoinAbove
  <2> HIDE DEF c
  <2>5. /\ r \in Seq(FreeBlocks) /\ Len(r) = Len(list)
        /\ \A j \in 1 .. Len(list) : r[j] = IF j = q THEN c ELSE list[j]
    BY <1>1, <2>3, ExceptSeq
  <2> HIDE DEF r
  <2>6. /\ t \in Seq(FreeBlocks) /\ Len(t) = Len(list) - 1
        /\ \A j \in 1 .. Len(list) - 1 : t[j] = IF j < q + 1 THEN r[j] ELSE r[j + 1]
    BY <2>1, <2>5, RemoveAtShape
  <2> HIDE DEF t
  <2>7. \A j \in 1 .. Len(t) :
           /\ j < q => t[j] = list[j] /\ j \in 1 .. Len(list)
           /\ j = q => t[j] = c
           /\ j > q => t[j] = list[j + 1] /\ j + 1 \in 1 .. Len(list)
    BY <1>1, <2>1, <2>5, <2>6
  <2>8. ASSUME NEW i \in 1 .. Len(t), NEW j \in 1 .. Len(t), i < j
        PROVE  End(t[i]) < t[j].addr
    <3>0. i \in Nat /\ j \in Nat /\ q \in Nat
      BY <1>1, <2>6
    <3>1. CASE i < q /\ j < q
      BY <3>0, <3>1, <2>7, <2>8, <1>3
    <3>2. CASE i < q /\ j = q
      BY <3>0, <3>2, <2>3, <2>7, <1>1, <1>3
    <3>3. CASE i < q /\ j > q
      BY <3>0, <3>3, <2>7, <1>3
    <3>4. CASE i = q /\ j > q
      <4>1. /\ q + 1 < j + 1 /\ j + 1 \in 1 .. Len(list) /\ q + 1 # q
            /\ t[i] = c /\ t[j] = list[j + 1]
        BY <3>0, <3>4, <2>7
      <4>2. End(list[q + 1]) < list[j + 1].addr
        BY <4>1, <2>1, <1>3
      <4> QED BY <4>1, <4>2, <2>3
    <3>5. CASE i > q /\ j > q
      <4>1. /\ i + 1 < j + 1 /\ i + 1 \in 1 .. Len(list) /\ j + 1 \in 1 .. Len(list)
            /\ i + 1 # q /\ t[i] = list[i + 1] /\ t[j] = list[j + 1]
        BY <3>0, <3>5, <2>7, <2>8
      <4> QED BY <4>1, <1>3
    <3> QED BY <3>0, <3>1, <3>2, <3>3, <3>4, <3>5, <2>8
  <2> QED BY <2>4, <2>6, <2>8 DEF FreeList, InOrder
<1> QED BY <1>4, <1>5

(* The block is put back where the walk has stopped.                       *)
LEMMA PutBackNearly ==
    ASSUME NEW list, FreeList(list), NEW block \in Int, NEW n \in Int,
           block % 8 = 0, block + roundew(n) <= Top, roundew(n) > 0,
           ~FreeRefused(list, block, n)
    PROVE  Nearly(PutBack(list, block, n), PlaceOf(list, block))
<1> DEFINE k == Below(list, block)
           r == PutBack(list, block, n)
<1>1. /\ k \in 0 .. Len(list)
      /\ \A i \in 1 .. k : list[i].addr < block
      /\ k < Len(list) => block <= list[k + 1].addr
  BY WalkStops
<1>2. /\ minaddr <= block
      /\ k > 0 => End(list[k]) <= block
      /\ k < Len(list) => block + roundew(n) <= list[k + 1].addr
  <2>1. /\ ~(block < minaddr) /\ ~(k > 0 /\ End(list[k]) > block)
        /\ ~(k < Len(list) /\ block + roundew(n) > list[k + 1].addr)
    BY DEF FreeRefused
  <2>2. k > 0 => k \in 1 .. Len(list)
    BY <1>1, ListFacts
  <2>3. k < Len(list) => k + 1 \in 1 .. Len(list)
    BY <1>1, ListFacts
  <2>4. minaddr \in Int /\ roundew(n) \in Int
    BY TopFacts, Roundew
  <2>5. k > 0 => End(list[k]) \in Int
    <3> HIDE DEF k
    <3> QED BY <2>2, ListFacts
  <2>6. k < Len(list) => list[k + 1].addr \in Int
    BY <2>3, ListFacts
  <2> HIDE DEF k
  <2> QED BY <2>1, <2>4, <2>5, <2>6
<1>3. roundew(n) \in Int /\ roundew(n) % 8 = 0
  BY Roundew
<1>4. JoinsBelow(list, block) <=> k > 0 /\ End(list[k]) = block
  BY DEF JoinsBelow
<1>5. ASSUME JoinsBelow(list, block)
      PROVE  Nearly(r, k)
  <2> DEFINE b == Block(list[k].addr, list[k].len + roundew(n))
  <2>1. r = [list EXCEPT ![k] = b]
    BY <1>5 DEF PutBack
  <2> HIDE DEF k, r
  <2>2. k \in 1 .. Len(list) /\ End(list[k]) = block
    BY <1>1, <1>4, <1>5, ListFacts
  <2>3. /\ list[k].len + roundew(n) \in Int /\ list[k].len + roundew(n) > 0
        /\ (list[k].len + roundew(n)) % 8 = 0
        /\ list[k].addr + (list[k].len + roundew(n)) = block + roundew(n)
    <3>1. /\ list[k].addr \in Nat /\ list[k].len \in Nat /\ list[k].len % 8 = 0
          /\ End(list[k]) = list[k].addr + list[k].len
      BY <2>2, ListFacts
    <3>2. (list[k].len + roundew(n)) % 8 = 0
      BY <3>1, <1>3, Multiples
    <3>3. list[k].len + roundew(n) \in Int /\ list[k].len + roundew(n) > 0
      BY <3>1, <1>3
    <3>4. list[k].addr + (list[k].len + roundew(n))
              = (list[k].addr + list[k].len) + roundew(n)
      BY <3>1, <1>3
    <3> QED BY <3>1, <3>2, <3>3, <3>4, <2>2
  <2>4. b \in FreeBlocks /\ b.addr = list[k].addr /\ End(b) = block + roundew(n)
    BY <2>2, <2>3, ListFacts, BlockIsFree
  <2> HIDE DEF b
  <2>5. /\ r \in Seq(FreeBlocks) /\ Len(r) = Len(list)
        /\ \A j \in 1 .. Len(list) : r[j] = IF j = k THEN b ELSE list[j]
    BY <2>1, <2>2, <2>4, ExceptSeq, ListFacts
  <2>6. ASSUME NEW i \in 1 .. Len(r), NEW j \in 1 .. Len(r),
               i < j, ~(i = k /\ j = k + 1)
        PROVE  End(r[i]) < r[j].addr
    <3>1. CASE i = k
      <4>1. k < Len(list) /\ k + 1 \in 1 .. Len(list) /\ k + 1 < j
        BY <3>1, <2>2, <2>5, <2>6, ListFacts
      <4>2. j \in 1 .. Len(list) /\ j # k /\ r[j] = list[j] /\ r[i] = b
        BY <4>1, <3>1, <2>2, <2>5
      <4>4. End(list[k + 1]) < list[j].addr
        BY <4>1, <4>2, ListFacts
      <4>3. /\ list[k + 1].addr \in Nat /\ list[k + 1].len \in Nat
            /\ End(list[k + 1]) = list[k + 1].addr + list[k + 1].len
            /\ list[j].addr \in Nat
        BY <4>1, <4>2, ListFacts
      <4>5. End(b) < list[j].addr
        BY <4>1, <4>4, <4>3, <2>4, <1>2, <1>3
      <4> QED BY <4>5, <4>2
    <3>2. CASE i # k
      <4>1. End(list[i]) < list[j].addr /\ r[i] = list[i]
        BY <3>2, <2>5, <2>6, ListFacts
      <4>2. r[j].addr = list[j].addr
        BY <2>4, <2>5
      <4> QED BY <4>1, <4>2
    <3> QED BY <3>1, <3>2
  <2>7. k < Len(r) => End(r[k]) <= r[k + 1].addr
    <3>1. ASSUME k < Len(r)
          PROVE  r[k] = b /\ r[k + 1] = list[k + 1]
      BY <3>1, <2>2, <2>5, ListFacts
    <3> QED BY <3>1, <2>4, <2>5, <1>2
  <2> QED BY <2>2, <2>5, <2>6, <2>7 DEF Nearly
<1>6. ASSUME ~JoinsBelow(list, block)
      PROVE  Nearly(r, k + 1)
  <2> DEFINE b == Block(block, roundew(n))
  <2>1. r = InsertAt(list, k + 1, b)
    BY <1>6 DEF PutBack
  <2> HIDE DEF k, r
  <2>2. k + 1 \in 1 .. Len(list) + 1 /\ Len(list) \in Nat /\ k \in Nat
    BY <1>1, ListFacts
  <2>3. b \in FreeBlocks /\ b.addr = block /\ End(b) = block + roundew(n)
    BY <1>2, <1>3, BlockIsFree
  <2> HIDE DEF b
  <2>4. /\ r \in Seq(FreeBlocks) /\ Len(r) = Len(list) + 1
        /\ \A j \in 1 .. Len(list) + 1 : r[j] =
               IF j < k + 1 THEN list[j] ELSE IF j = k + 1 THEN b ELSE list[j - 1]
    <3>1. list \in Seq(FreeBlocks)
      BY ListFacts
    <3> QED BY <3>1, <2>1, <2>2, <2>3, InsertAtShape, SMTT(30)
  <2>5. \A i \in 1 .. Len(list) : i <= k => End(list[i]) < block
    <3>1. ASSUME k > 0
          PROVE  k \in 1 .. Len(list) /\ End(list[k]) < block
      <4>1. k \in 1 .. Len(list) /\ End(list[k]) \in Int
        BY <3>1, <2>2, ListFacts
      <4> QED BY <4>1, <3>1, <1>2, <1>4, <1>6
    <3>2. ASSUME NEW i \in 1 .. Len(list), i < k
          PROVE  End(list[i]) < block
      <4>1. k > 0 /\ k \in 1 .. Len(list) /\ End(list[i]) < list[k].addr
        BY <3>1, <3>2, <2>2, ListFacts
      <4>2. /\ End(list[i]) \in Int /\ list[k].addr \in Nat /\ list[k].len \in Nat
            /\ End(list[k]) = list[k].addr + list[k].len
        BY <4>1, ListFacts, SMTT(30)
      <4> QED BY <4>1, <4>2, <3>1
    <3> QED BY <3>1, <3>2, <2>2
  <2>6. \A i \in 1 .. Len(list) : k + 1 < i => End(b) < list[i].addr
    <3>1. ASSUME NEW i \in 1 .. Len(list), k + 1 < i
          PROVE  End(b) < list[i].addr
      <4>1. k < Len(list) /\ k + 1 \in 1 .. Len(list)
        BY <3>1, <2>2
      <4>2. /\ End(list[k + 1]) < list[i].addr /\ list[i].addr \in Nat
            /\ list[k + 1].addr \in Nat /\ list[k + 1].len \in Nat
            /\ End(list[k + 1]) = list[k + 1].addr + list[k + 1].len
        BY <4>1, <3>1, ListFacts
      <4> QED BY <4>1, <4>2, <2>3, <1>2, <1>3
    <3> QED BY <3>1
  <2>7. ASSUME NEW i \in 1 .. Len(r), NEW j \in 1 .. Len(r),
               i < j, ~(i = k + 1 /\ j = k + 1 + 1)
        PROVE  End(r[i]) < r[j].addr
    <3>0. i \in 1 .. Len(list) + 1 /\ j \in 1 .. Len(list) + 1
      BY <2>4
    <3>1. CASE i = k + 1
      <4>1. r[i] = b /\ r[j] = list[j - 1] /\ j - 1 \in 1 .. Len(list) /\ k + 1 < j - 1
        BY <3>0, <3>1, <2>2, <2>4, <2>7
      <4> QED BY <4>1, <2>6
    <3>2. CASE j = k + 1
      <4>1. r[j] = b /\ r[i] = list[i] /\ i \in 1 .. Len(list) /\ i <= k
        BY <3>0, <3>2, <2>2, <2>4, <2>7
      <4> QED BY <4>1, <2>3, <2>5
    <3>3. CASE i # k + 1 /\ j # k + 1
      <4> DEFINE ii == IF i < k + 1 THEN i ELSE i - 1
                 jj == IF j < k + 1 THEN j ELSE j - 1
      <4>1. ii \in 1 .. Len(list) /\ jj \in 1 .. Len(list) /\ ii < jj
        BY <3>0, <3>3, <2>2, <2>7
      <4>2. r[i] = list[ii] /\ r[j] = list[jj]
        BY <3>0, <3>3, <2>4
      <4> QED BY <4>1, <4>2, ListFacts
    <3> QED BY <3>1, <3>2, <3>3
  <2>8. k + 1 < Len(r) => End(r[k + 1]) <= r[k + 1 + 1].addr
    <3>1. ASSUME k + 1 < Len(r)
          PROVE  k < Len(list) /\ r[k + 1] = b /\ r[k + 1 + 1] = list[k + 1]
      BY <3>1, <2>2, <2>4
    <3> QED BY <3>1, <2>3, <1>2
  <2>9. k + 1 \in 1 .. Len(r)
    BY <2>2, <2>4
  <2> QED BY <2>4, <2>7, <2>8, <2>9 DEF Nearly
<1> QED BY <1>5, <1>6 DEF PlaceOf

(* Whatever freemem is given, the list stays a free list.                  *)
LEMMA Free ==
    ASSUME NEW list, FreeList(list), NEW block \in Int, NEW n \in Nat,
           block % 8 = 0, block + roundew(n) <= Top
    PROVE  FreeList(AfterFree(list, block, n))
<1>1. CASE FreeRefused(list, block, n)
  BY <1>1 DEF AfterFree
<1>2. CASE ~FreeRefused(list, block, n)
  <2>1. n # 0
    BY <1>2 DEF FreeRefused
  <2>2. roundew(n) > 0
    BY <2>1, Roundew
  <2>3. Nearly(PutBack(list, block, n), PlaceOf(list, block))
    BY <2>2, <1>2, PutBackNearly
  <2> QED BY <2>3, <1>2, Join DEF AfterFree
<1> QED BY <1>1, <1>2

-----------------------------------------------------------------------------
(* The invariant.                                                          *)

LEMMA FreeListTyped ==
    ASSUME NEW list, FreeList(list)
    PROVE  list \in Seq([addr : Addresses, len : Nat \ {0}])
<1>1. \A i \in 1 .. Len(list) : list[i] \in [addr : Addresses, len : Nat \ {0}]
  BY ListFacts DEF FreeBlocks
<1>2. list \in Seq(FreeBlocks)
  BY ListFacts
<1>3. list \in [1 .. Len(list) -> [addr : Addresses, len : Nat \ {0}]]
  BY <1>1, <1>2, LenProperties
<1>4. Len(list) \in Nat
  BY ListFacts
<1> QED BY <1>3, <1>4, SeqDef, ZenonT(30)

LEMMA InitHolds == Init => MemInv
<1> SUFFICES ASSUME Init PROVE MemInv
  OBVIOUS
<1> DEFINE n == maxaddr - NULLSTK - minaddr + SIZEOFINT
           b == Block(roundew(minaddr), truncew(n))
<1>1. n = 4 * RAMSIZE - NULLSTK /\ n \in Int /\ n >= 8 /\ minaddr + n <= Top
  BY TopFacts, MemoryAssumption DEF maxaddr, SIZEOFINT
<1>2. roundew(minaddr) = minaddr
  BY TopFacts DEF roundew
<1> HIDE DEF n
<1>3. /\ truncew(n) \in Int /\ truncew(n) > 0 /\ truncew(n) <= n
      /\ truncew(n) % 8 = 0
  BY <1>1, SMT DEF truncew
<1>4. b \in FreeBlocks
  <2>1. minaddr + truncew(n) <= Top
    BY <1>1, <1>3, TopFacts
  <2> QED BY <2>1, <1>2, <1>3, TopFacts, BlockIsFree
<1>5. memlist = <<b>>
  BY DEF Init, n
<1> HIDE DEF b
<1>6. FreeList(memlist)
  <2>1. memlist \in Seq(FreeBlocks) /\ Len(memlist) = 1
    BY <1>4, <1>5
  <2> QED BY <2>1 DEF FreeList, InOrder
<1>7. memlist \in Seq([addr : Addresses, len : Nat \ {0}])
  BY <1>6, FreeListTyped
<1> QED BY <1>6, <1>7 DEF Init, MemInv, TypeOK, StacksAligned, BuffersAligned

(* Nothing but exited changes when a call fails.                           *)
LEMMA FailsKeeps == MemInv /\ Fails => MemInv'
BY DEF MemInv, TypeOK, FreeList, InOrder, StacksAligned, BuffersAligned, Fails

LEMMA CreateKeeps ==
    ASSUME MemInv, NEW p \in Users, NEW ssize \in StkSizes, Create(p, ssize)
    PROVE  MemInv'
<1> DEFINE len == roundew(ssize)
           rest == AfterGetStk(memlist, len)
           link == StkTop(rest, MINSTK)
           base == StkTop(memlist, len)
<1>1. CASE Fails
  BY <1>1, FailsKeeps
<1>2. ASSUME CreateGranted(ssize), NewStacks(p, roundew(ssize))
      PROVE  MemInv'
  <2>1. len \in Int /\ MINSTK \in Int /\ roundew(MINSTK) > 0
        /\ HasRoom(memlist, len) /\ HasRoom(rest, MINSTK) /\ FreeList(memlist)
    BY <1>2, MemoryAssumption, Roundew DEF CreateGranted, MemInv
  <2>2. len > 0 /\ roundew(len) > 0 /\ roundew(len) \in Int /\ roundew(MINSTK) \in Int
    BY <2>1, RoomFound, Roundew
  <2> HIDE DEF len
  <2>3. /\ FreeList(rest) /\ base \in Int
        /\ (base + 4) % 8 = 0 /\ base + 4 <= Top /\ minaddr <= base + 4 - roundew(len)
    BY <2>1, GetStk
  <2> HIDE DEF rest, base
  <2>4. /\ FreeList(AfterGetStk(rest, MINSTK)) /\ link \in Int
        /\ link + 4 <= Top /\ minaddr <= link + 4 - roundew(MINSTK)
        /\ (link + 4) % 8 = 0
    BY <2>1, <2>3, GetStk
  <2> HIDE DEF link
  <2>5. roundew(len) % 8 = 0 /\ roundew(MINSTK) % 8 = 0
    BY <2>1, Roundew
  <2>6. base \in Addresses
    <3>1. roundew(len) >= 8
      BY <2>2, <2>5
    <3> QED BY <3>1, <2>2, <2>3, TopFacts
  <2>7. link \in Addresses /\ link - roundew(MINSTK) + 4 \in Addresses
    <3>1. roundew(MINSTK) >= 8
      BY <2>1, <2>2, <2>5
    <3>2. /\ link - roundew(MINSTK) + 4 \in Int
          /\ minaddr <= link - roundew(MINSTK) + 4 /\ link - roundew(MINSTK) + 4 < Top
          /\ minaddr <= link /\ link < Top
      BY <3>1, <2>2, <2>4, TopFacts
    <3> QED BY <3>2, <2>4, TopFacts
  <2>8. /\ pbase' = [pbase EXCEPT ![p] = base]
        /\ pstklen' = [pstklen EXCEPT ![p] = len]
        /\ linkbase' = [linkbase EXCEPT ![p] = link]
        /\ links' = links \cup {Block(link - roundew(MINSTK) + 4, roundew(MINSTK))}
        /\ memlist' = AfterGetStk(rest, MINSTK)
        /\ UNCHANGED <<memarray, exited>>
    BY <1>2 DEF NewStacks, StkBottom, SIZEOFINT, len, rest, link, base
  <2>9. Block(link - roundew(MINSTK) + 4, roundew(MINSTK))
            \in [addr : Addresses, len : Nat \ {0}]
    BY <2>1, <2>2, <2>7 DEF Block
  <2>10. FreeList(memlist)' /\ memlist' \in Seq([addr : Addresses, len : Nat \ {0}])
    BY <2>4, <2>8, FreeListTyped DEF FreeList, InOrder
  <2>11. TypeOK'
    <3>1. TypeOK
      BY DEF MemInv
    <3>2. /\ pbase' \in [Users -> {0} \cup Addresses]
          /\ linkbase' \in [Users -> {0} \cup Addresses]
      BY <3>1, <2>6, <2>7, <2>8 DEF TypeOK
    <3>3. pstklen' \in [Users -> Nat]
      BY <3>1, <2>1, <2>2, <2>8 DEF TypeOK
    <3>4. links' \subseteq [addr : Addresses, len : Nat \ {0}]
      BY <3>1, <2>8, <2>9 DEF TypeOK
    <3> QED BY <3>1, <3>2, <3>3, <3>4, <2>8, <2>10 DEF TypeOK
  <2>12. StacksAligned'
    BY <2>3, <2>8 DEF MemInv, TypeOK, StacksAligned, SIZEOFINT, Top
  <2>13. BuffersAligned'
    BY <2>8 DEF MemInv, BuffersAligned
  <2> QED BY <2>10, <2>11, <2>12, <2>13 DEF MemInv
<1> QED BY <1>1, <1>2 DEF Create

LEMMA KillKeeps ==
    ASSUME MemInv, NEW p \in Users, Kill(p)
    PROVE  MemInv'
<1> DEFINE base == pbase[p]
           n == roundew(pstklen[p])
           block == base - n + 4
<1>1. /\ FreeList(memlist) /\ base \in Int /\ pstklen[p] \in Int
      /\ (base + 4) % 8 = 0 /\ base + 4 <= Top
  <2>1. base \in Addresses /\ pstklen[p] \in Nat
    BY DEF MemInv, TypeOK, Kill
  <2>2. (base + 4) % 8 = 0 /\ base + 4 <= Top
    BY DEF MemInv, StacksAligned, Kill, SIZEOFINT
  <2>3. base \in Int
    BY <2>1, MemoryAssumption DEF Addresses
  <2> HIDE DEF base
  <2> QED BY <2>1, <2>2, <2>3 DEF MemInv
<1>2. n \in Nat /\ n % 8 = 0 /\ roundew(n) = n
  <2>1. pstklen[p] \in Nat
    BY DEF MemInv, TypeOK
  <2> QED BY <2>1, Roundew, RoundewTwice
<1>3. memlist' = AfterFree(memlist, block, n)
  BY DEF Kill, AfterFreeStk, StkBottom, SIZEOFINT
<1> HIDE DEF base, n
<1>4. block \in Int /\ block + roundew(n) = base + 4
  BY <1>1, <1>2
<1>5. block % 8 = 0
  <2>1. ((base + 4) - n) % 8 = 0
    <3>1. base + 4 \in Int /\ n \in Int
      BY <1>1, <1>2
    <3> QED BY <3>1, <1>1, <1>2, Multiples
  <2>2. (base + 4) - n = block
    BY <1>1, <1>2
  <2> QED BY <2>1, <2>2
<1> HIDE DEF block
<1>6. FreeList(AfterFree(memlist, block, n))
  BY <1>1, <1>2, <1>4, <1>5, Free
<1>7. FreeList(memlist)' /\ memlist' \in Seq([addr : Addresses, len : Nat \ {0}])
  BY <1>3, <1>6, FreeListTyped DEF FreeList, InOrder
<1> QED BY <1>7 DEF MemInv, TypeOK, StacksAligned, BuffersAligned, Kill

(* A buffer that is freed.                                                 *)
LEMMA BufferFreed ==
    ASSUME MemInv, NEW b \in memarray
    PROVE  FreeList(AfterFree(memlist, b.addr, b.size))
<1>1. b \in [addr : Addresses, size : HeapSizes]
  BY DEF MemInv, TypeOK
<1>2. b.addr \in Int /\ b.size \in Nat
  <2>1. b.addr \in Addresses /\ b.size \in HeapSizes
    BY <1>1
  <2>2. b.addr \in Int
    BY <2>1, MemoryAssumption DEF Addresses
  <2>3. b.size \in Nat
    BY <2>1, MemoryAssumption
  <2> QED BY <2>2, <2>3
<1>3. b.addr % 8 = 0 /\ b.addr + roundew(b.size) <= Top
  BY DEF MemInv, BuffersAligned
<1> QED BY <1>2, <1>3, Free DEF MemInv

LEMMA AllocateKeeps ==
    ASSUME MemInv, NEW list, FreeList(list), NEW others, others \subseteq memarray,
           NEW size \in HeapSizes, AllocateFrom(list, others, size)
    PROVE  MemInv'
<1> DEFINE addr == MemAddr(list, size)
<1>1. CASE Fails
  BY <1>1, FailsKeeps
<1>2. ASSUME HasRoom(list, size),
             memarray' = others \cup {Buffer(addr, size)},
             memlist' = AfterGetMem(list, size),
             UNCHANGED <<pbase, pstklen, linkbase, links, exited>>
      PROVE  MemInv'
  <2>1. size \in Int
    BY MemoryAssumption
  <2>2. /\ FreeList(AfterGetMem(list, size)) /\ addr \in Nat /\ addr % 8 = 0
        /\ minaddr <= addr /\ addr + roundew(size) <= Top
    BY <2>1, <1>2, GetMem
  <2>3. addr \in Addresses
    <3>1. roundew(size) > 0 /\ roundew(size) \in Int
      BY <2>1, <1>2, RoomFound
    <3> QED BY <3>1, <2>2, TopFacts
  <2> HIDE DEF addr
  <2>4. /\ Buffer(addr, size) \in [addr : Addresses, size : HeapSizes]
        /\ Buffer(addr, size).addr = addr /\ Buffer(addr, size).size = size
    BY <2>3 DEF Buffer
  <2>5. FreeList(memlist)' /\ memlist' \in Seq([addr : Addresses, len : Nat \ {0}])
    BY <1>2, <2>2, FreeListTyped DEF FreeList, InOrder
  <2>6. TypeOK'
    BY <1>2, <2>4, <2>5 DEF MemInv, TypeOK
  <2>7. BuffersAligned'
    BY <1>2, <2>2, <2>4 DEF MemInv, BuffersAligned
  <2>8. StacksAligned'
    BY <1>2 DEF MemInv, StacksAligned
  <2> QED BY <2>5, <2>6, <2>7, <2>8 DEF MemInv
<1> QED BY <1>1, <1>2 DEF AllocateFrom

LEMMA NextKeeps == MemInv /\ [Next]_memVars => MemInv'
<1> SUFFICES ASSUME MemInv, [Next]_memVars PROVE MemInv'
  OBVIOUS
<1>1. ASSUME NEW p \in Users, NEW ssize \in StkSizes, Create(p, ssize) PROVE MemInv'
  BY <1>1, CreateKeeps
<1>2. ASSUME NEW p \in Users, Kill(p) PROVE MemInv'
  BY <1>2, KillKeeps
<1>3. ASSUME NEW size \in HeapSizes, yyalloc(size) PROVE MemInv'
  BY <1>3, AllocateKeeps DEF yyalloc, MemInv
<1>4. ASSUME NEW b \in memarray, yyfree(b) PROVE MemInv'
  <2>1. FreeList(memlist)' /\ memlist' \in Seq([addr : Addresses, len : Nat \ {0}])
    BY <1>4, BufferFreed, FreeListTyped DEF yyfree, FreeList, InOrder
  <2> QED BY <2>1, <1>4 DEF MemInv, TypeOK, StacksAligned, BuffersAligned, yyfree
<1>5. ASSUME NEW b \in memarray, NEW size \in HeapSizes, yyrealloc(b, size) PROVE MemInv'
  BY <1>5, BufferFreed, AllocateKeeps DEF yyrealloc
<1>6. CASE UNCHANGED memVars
  BY <1>6 DEF MemInv, TypeOK, FreeList, InOrder, StacksAligned, BuffersAligned, memVars
<1> QED BY <1>1, <1>2, <1>3, <1>4, <1>5, <1>6 DEF Next

-----------------------------------------------------------------------------

(* The invariant of memory holds in every state, for memory of any size    *)
(* and any sizes of requests.                                              *)
THEOREM MemoryInvariant == Spec => []MemInv
BY InitHolds, NextKeeps, PTL DEF Spec

(* Stacks, buffers and free blocks lie inside of memory (create.c, kill.c, *)
(* getstk.c, getmem.c).                                                    *)
THEOREM MemoryTypesCorrect == Spec => []TypeOK
<1>1. MemInv => TypeOK
  BY DEF MemInv
<1> QED BY <1>1, MemoryInvariant, PTL

(* The free list is in order and joined, whatever is allocated and freed   *)
(* (freemem.c, getmem.c, getstk.c).                                        *)
THEOREM FreeListAlwaysWellFormed == Spec => []FreeListWellFormed
<1>1. MemInv => FreeListWellFormed
  BY ListFacts DEF MemInv, FreeListWellFormed
<1> QED BY <1>1, MemoryInvariant, PTL

(* The free blocks start and end at multiples of 8 (mem.h).                *)
THEOREM FreeBlocksAlwaysAligned == Spec => []FreeBlocksAligned
<1>1. MemInv => FreeBlocksAligned
  BY ListFacts DEF MemInv, FreeBlocksAligned
<1> QED BY <1>1, MemoryInvariant, PTL
-----------------------------------------------------------------------------
(* Every byte.  What a list covers, block by block.                        *)

Covers(list, a) == \E i \in 1 .. Len(list) : a \in Bytes(list[i])

LEMMA RemoveCovers ==
    ASSUME NEW S, NEW list \in Seq(S), NEW i \in 1 .. Len(list), NEW a
    PROVE  Covers(RemoveAt(list, i), a)
               <=> \E j \in 1 .. Len(list) : j # i /\ a \in Bytes(list[j])
<1> DEFINE r == RemoveAt(list, i)
<1>1. /\ Len(list) \in Nat /\ Len(r) = Len(list) - 1
      /\ \A j \in 1 .. Len(list) - 1 : r[j] = IF j < i THEN list[j] ELSE list[j + 1]
  BY RemoveAtShape, LenProperties
<1> HIDE DEF r
<1>2. ASSUME NEW j \in 1 .. Len(r), a \in Bytes(r[j])
      PROVE  \E k \in 1 .. Len(list) : k # i /\ a \in Bytes(list[k])
  <2>1. CASE j < i
    <3>1. j \in 1 .. Len(list) /\ j # i /\ r[j] = list[j]
      BY <1>1, <1>2, <2>1
    <3> QED BY <1>2, <3>1
  <2>2. CASE ~(j < i)
    <3>1. j + 1 \in 1 .. Len(list) /\ j + 1 # i /\ r[j] = list[j + 1]
      BY <1>1, <1>2, <2>2
    <3> QED BY <1>2, <3>1
  <2> QED BY <2>1, <2>2
<1>3. ASSUME NEW k \in 1 .. Len(list), k # i, a \in Bytes(list[k])
      PROVE  \E j \in 1 .. Len(r) : a \in Bytes(r[j])
  <2>1. CASE k < i
    <3>1. k \in 1 .. Len(r) /\ r[k] = list[k]
      BY <1>1, <1>3, <2>1
    <3> QED BY <1>3, <3>1
  <2>2. CASE ~(k < i)
    <3>1. k - 1 \in 1 .. Len(r) /\ ~(k - 1 < i) /\ (k - 1) + 1 = k
      BY <1>1, <1>3, <2>2
    <3>2. r[k - 1] = list[k]
      BY <1>1, <3>1
    <3> QED BY <1>3, <3>1, <3>2
  <2> QED BY <2>1, <2>2
<1> QED BY <1>2, <1>3 DEF Covers, r

LEMMA ReplaceCovers ==
    ASSUME NEW S, NEW list \in Seq(S), NEW i \in 1 .. Len(list), NEW b \in S, NEW a
    PROVE  Covers([list EXCEPT ![i] = b], a)
               <=> \/ a \in Bytes(b)
                   \/ \E j \in 1 .. Len(list) : j # i /\ a \in Bytes(list[j])
<1> DEFINE r == [list EXCEPT ![i] = b]
<1>1. /\ Len(r) = Len(list)
      /\ \A j \in 1 .. Len(list) : r[j] = IF j = i THEN b ELSE list[j]
  BY ExceptSeq
<1> HIDE DEF r
<1> QED BY <1>1 DEF Covers, r

LEMMA InsertCovers ==
    ASSUME NEW S, NEW list \in Seq(S), NEW i \in 1 .. Len(list) + 1, NEW b \in S, NEW a
    PROVE  Covers(InsertAt(list, i, b), a) <=> a \in Bytes(b) \/ Covers(list, a)
<1> DEFINE r == InsertAt(list, i, b)
<1>1. /\ Len(list) \in Nat /\ Len(r) = Len(list) + 1
      /\ \A j \in 1 .. Len(list) + 1 :
             r[j] = IF j < i THEN list[j] ELSE IF j = i THEN b ELSE list[j - 1]
  BY InsertAtShape, LenProperties
<1> HIDE DEF r
<1>2. ASSUME NEW j \in 1 .. Len(r), a \in Bytes(r[j])
      PROVE  a \in Bytes(b) \/ \E k \in 1 .. Len(list) : a \in Bytes(list[k])
  <2>1. CASE j < i
    <3>1. j \in 1 .. Len(list) /\ r[j] = list[j]
      BY <1>1, <1>2, <2>1
    <3> QED BY <1>2, <3>1
  <2>2. CASE j = i
    BY <1>1, <1>2, <2>2
  <2>3. CASE j > i
    <3>1. j - 1 \in 1 .. Len(list) /\ r[j] = list[j - 1]
      BY <1>1, <1>2, <2>3
    <3> QED BY <1>2, <3>1
  <2> QED BY <1>1, <2>1, <2>2, <2>3
<1>3. i \in 1 .. Len(r) /\ r[i] = b
  BY <1>1
<1>4. ASSUME NEW k \in 1 .. Len(list), a \in Bytes(list[k])
      PROVE  \E j \in 1 .. Len(r) : a \in Bytes(r[j])
  <2>1. CASE k < i
    <3>1. k \in 1 .. Len(r) /\ r[k] = list[k]
      BY <1>1, <1>4, <2>1
    <3> QED BY <1>4, <3>1
  <2>2. CASE ~(k < i)
    <3>1. k + 1 \in 1 .. Len(r) /\ ~(k + 1 < i) /\ k + 1 # i /\ (k + 1) - 1 = k
      BY <1>1, <1>4, <2>2
    <3>2. r[k + 1] = list[k]
      BY <1>1, <3>1
    <3> QED BY <1>4, <3>1, <3>2
  <2> QED BY <2>1, <2>2
<1> QED BY <1>2, <1>3, <1>4 DEF Covers, r

(* Free blocks do not overlap.                                             *)
LEMMA CoveredOnce ==
    ASSUME NEW list, FreeList(list), NEW i \in 1 .. Len(list), NEW j \in 1 .. Len(list),
           NEW a \in Int, a \in Bytes(list[i]), a \in Bytes(list[j])
    PROVE  i = j
<1>1. /\ list[i].addr <= a /\ a < End(list[i])
      /\ list[j].addr <= a /\ a < End(list[j])
      /\ list[i].addr \in Int /\ End(list[i]) \in Int
      /\ list[j].addr \in Int /\ End(list[j]) \in Int
      /\ i \in Int /\ j \in Int
  BY ListFacts, SMTT(30) DEF Bytes
<1>2. /\ i < j => End(list[i]) < list[j].addr
      /\ j < i => End(list[j]) < list[i].addr
  BY ListFacts
<1> QED BY <1>1, <1>2

(* The list without the bytes of new, which it had.                        *)
Without(r, list, new) ==
    \A a \in Int : /\ Covers(r, a) <=> Covers(list, a) /\ a \notin new
                   /\ a \in new => Covers(list, a)

(* A whole block is taken, or one end of it.                               *)
LEMMA WholeTaken ==
    ASSUME NEW list, FreeList(list), NEW i \in 1 .. Len(list)
    PROVE  Without(RemoveAt(list, i), list, Bytes(list[i]))
<1> SUFFICES ASSUME NEW a \in Int
             PROVE  /\ Covers(RemoveAt(list, i), a)
                           <=> Covers(list, a) /\ a \notin Bytes(list[i])
                    /\ a \in Bytes(list[i]) => Covers(list, a)
  BY DEF Without
<1>1. Covers(RemoveAt(list, i), a)
          <=> \E j \in 1 .. Len(list) : j # i /\ a \in Bytes(list[j])
  BY ListFacts, RemoveCovers
<1>2. \A j \in 1 .. Len(list) :
          j # i /\ a \in Bytes(list[j]) => a \notin Bytes(list[i])
  BY CoveredOnce
<1> QED BY <1>1, <1>2 DEF Covers

LEMMA EndTaken ==
    ASSUME NEW list, FreeList(list), NEW i \in 1 .. Len(list), NEW b \in FreeBlocks,
           NEW new, new \subseteq Bytes(list[i]),
           \A a \in Int : a \in Bytes(b) <=> a \in Bytes(list[i]) /\ a \notin new
    PROVE  Without([list EXCEPT ![i] = b], list, new)
<1> DEFINE r == [list EXCEPT ![i] = b]
<1> SUFFICES ASSUME NEW a \in Int
             PROVE  /\ Covers(r, a) <=> Covers(list, a) /\ a \notin new
                    /\ a \in new => Covers(list, a)
  BY DEF Without
<1>1. Covers(r, a)
          <=> \/ a \in Bytes(b)
              \/ \E j \in 1 .. Len(list) : j # i /\ a \in Bytes(list[j])
  BY ListFacts, ReplaceCovers
<1>2. \A j \in 1 .. Len(list) :
          j # i /\ a \in Bytes(list[j]) => a \notin Bytes(list[i])
  BY CoveredOnce
<1> QED BY <1>1, <1>2 DEF Covers

LEMMA GetStkCovers ==
    ASSUME NEW list, FreeList(list), NEW n \in Int, HasRoom(list, n)
    PROVE  Without(AfterGetStk(list, n), list,
                   StkTop(list, n) + 4 - roundew(n) .. StkTop(list, n) + 3)
<1> DEFINE i == LastFit(list, n)
           b == Block(list[i].addr, list[i].len - roundew(n))
           new == StkTop(list, n) + 4 - roundew(n) .. StkTop(list, n) + 3
<1>1. /\ roundew(n) > 0 /\ roundew(n) % 8 = 0 /\ roundew(n) \in Int
      /\ i \in 1 .. Len(list) /\ list[i].len >= roundew(n)
  BY RoomFound
<1>2. StkTop(list, n) = End(list[i]) - 4
  BY DEF StkTop, SIZEOFINT
<1>3. AfterGetStk(list, n) =
         IF list[i].len = roundew(n) THEN RemoveAt(list, i) ELSE [list EXCEPT ![i] = b]
  BY DEF AfterGetStk
<1> HIDE DEF i
<1>4. /\ list[i].addr \in Nat /\ list[i].len \in Nat /\ list[i].addr % 8 = 0
      /\ list[i].len % 8 = 0 /\ minaddr <= list[i].addr
      /\ End(list[i]) = list[i].addr + list[i].len /\ End(list[i]) <= Top
  BY <1>1, ListFacts
<1>5. new = End(list[i]) - roundew(n) .. End(list[i]) - 1
  BY <1>1, <1>2, <1>4
<1>6. Bytes(list[i]) = list[i].addr .. End(list[i]) - 1
  BY DEF Bytes
<1>7. CASE list[i].len = roundew(n)
  <2>1. new = Bytes(list[i])
    BY <1>1, <1>4, <1>5, <1>6, <1>7
  <2> HIDE DEF new
  <2>2. Without(AfterGetStk(list, n), list, new)
    BY <1>1, <1>3, <1>7, <2>1, WholeTaken
  <2> QED BY <2>2 DEF new
<1>8. CASE list[i].len # roundew(n)
  <2>0. list[i].len - roundew(n) \in Int /\ list[i].len - roundew(n) > 0
    BY <1>1, <1>4, <1>8
  <2>1. (list[i].len - roundew(n)) % 8 = 0
    BY <1>1, <1>4, Multiples
  <2>2. b \in FreeBlocks /\ b.addr = list[i].addr
        /\ End(b) = list[i].addr + (list[i].len - roundew(n))
    <3>1. list[i].addr + (list[i].len - roundew(n)) <= Top
      BY <1>1, <1>4, TopFacts
    <3>2. list[i].addr \in Int /\ minaddr <= list[i].addr /\ list[i].addr % 8 = 0
      BY <1>4
    <3> QED BY <3>1, <3>2, <2>0, <2>1, BlockIsFree
  <2> HIDE DEF b
  <2>3. /\ new \subseteq Bytes(list[i])
        /\ \A a \in Int : a \in Bytes(b) <=> a \in Bytes(list[i]) /\ a \notin new
    <3>1. Bytes(b) = b.addr .. End(b) - 1
      BY DEF Bytes
    <3> HIDE DEF new
    <3> QED BY <1>1, <1>4, <1>5, <1>6, <2>0, <2>2, <3>1
  <2> HIDE DEF new
  <2>4. Without([list EXCEPT ![i] = b], list, new)
    BY <1>1, <2>2, <2>3, EndTaken
  <2> QED BY <1>3, <1>8, <2>4 DEF new
<1> QED BY <1>7, <1>8

LEMMA GetMemCovers ==
    ASSUME NEW list, FreeList(list), NEW n \in Int, HasRoom(list, n)
    PROVE  Without(AfterGetMem(list, n), list,
                   MemAddr(list, n) .. MemAddr(list, n) + roundew(n) - 1)
<1> DEFINE i == FirstFit(list, n)
           b == Block(list[i].addr + roundew(n), list[i].len - roundew(n))
           new == MemAddr(list, n) .. MemAddr(list, n) + roundew(n) - 1
<1>1. /\ roundew(n) > 0 /\ roundew(n) % 8 = 0 /\ roundew(n) \in Int
      /\ i \in 1 .. Len(list) /\ list[i].len >= roundew(n)
  BY RoomFound
<1>2. MemAddr(list, n) = list[i].addr
  BY DEF MemAddr
<1>3. AfterGetMem(list, n) =
         IF list[i].len = roundew(n) THEN RemoveAt(list, i) ELSE [list EXCEPT ![i] = b]
  BY DEF AfterGetMem
<1> HIDE DEF i
<1>4. /\ list[i].addr \in Nat /\ list[i].len \in Nat /\ list[i].addr % 8 = 0
      /\ list[i].len % 8 = 0 /\ minaddr <= list[i].addr
      /\ End(list[i]) = list[i].addr + list[i].len /\ End(list[i]) <= Top
  BY <1>1, ListFacts
<1>5. new = list[i].addr .. list[i].addr + roundew(n) - 1
  BY <1>2
<1>6. Bytes(list[i]) = list[i].addr .. End(list[i]) - 1
  BY DEF Bytes
<1>7. CASE list[i].len = roundew(n)
  <2>1. new = Bytes(list[i])
    BY <1>1, <1>4, <1>5, <1>6, <1>7
  <2> HIDE DEF new
  <2>2. Without(AfterGetMem(list, n), list, new)
    BY <1>1, <1>3, <1>7, <2>1, WholeTaken
  <2> QED BY <2>2 DEF new
<1>8. CASE list[i].len # roundew(n)
  <2>0. /\ list[i].len - roundew(n) \in Int /\ list[i].len - roundew(n) > 0
        /\ list[i].addr + roundew(n) \in Int /\ minaddr <= list[i].addr + roundew(n)
    BY <1>1, <1>4, <1>8, TopFacts, SMTT(30)
  <2>1. (list[i].len - roundew(n)) % 8 = 0 /\ (list[i].addr + roundew(n)) % 8 = 0
    <3> DEFINE m == list[i].len
               a == list[i].addr
    <3>1. m \in Int /\ a \in Int /\ m % 8 = 0 /\ a % 8 = 0
      BY <1>4
    <3> HIDE DEF m, a
    <3>2. (m - roundew(n)) % 8 = 0 /\ (a + roundew(n)) % 8 = 0
      BY <1>1, <3>1, Multiples
    <3> QED BY <3>2 DEF m, a
  <2>2. b \in FreeBlocks /\ b.addr = list[i].addr + roundew(n)
        /\ End(b) = End(list[i])
    <3>1. (list[i].addr + roundew(n)) + (list[i].len - roundew(n)) = End(list[i])
      BY <1>1, <1>4
    <3>2. End(list[i]) <= Top
      BY <1>4
    <3> QED BY <3>1, <3>2, <2>0, <2>1, BlockIsFree
  <2> HIDE DEF b
  <2>3. /\ new \subseteq Bytes(list[i])
        /\ \A a \in Int : a \in Bytes(b) <=> a \in Bytes(list[i]) /\ a \notin new
    <3>1. Bytes(b) = b.addr .. End(b) - 1
      BY DEF Bytes
    <3> HIDE DEF new
    <3> QED BY <1>1, <1>4, <1>5, <1>6, <2>0, <2>2, <3>1, SMTT(30)
  <2> HIDE DEF new
  <2>4. Without([list EXCEPT ![i] = b], list, new)
    BY <1>1, <2>2, <2>3, EndTaken
  <2> QED BY <1>3, <1>8, <2>4 DEF new
<1> QED BY <1>7, <1>8
-----------------------------------------------------------------------------
(* freemem takes back every byte that is not on the list already.          *)

LEMMA InBytes ==
    ASSUME NEW b, b.addr \in Int, End(b) \in Int, NEW a \in Int
    PROVE  a \in Bytes(b) <=> b.addr <= a /\ a < End(b)
BY DEF Bytes

LEMMA PutBackCovers ==
    ASSUME NEW list, FreeList(list), NEW block \in Int, NEW n \in Int, NEW a \in Int,
           block % 8 = 0, block + roundew(n) <= Top, roundew(n) > 0,
           ~FreeRefused(list, block, n)
    PROVE  Covers(PutBack(list, block, n), a)
               <=> Covers(list, a) \/ a \in block .. block + roundew(n) - 1
<1> DEFINE k == Below(list, block)
           r == PutBack(list, block, n)
<1>1. k \in 0 .. Len(list) /\ Len(list) \in Nat
  BY WalkStops, ListFacts
<1>2. roundew(n) \in Int /\ roundew(n) % 8 = 0 /\ minaddr \in Int
  BY Roundew, TopFacts
<1>3. minaddr <= block
  BY <1>2 DEF FreeRefused
<1>4. JoinsBelow(list, block) <=> k > 0 /\ End(list[k]) = block
  BY DEF JoinsBelow
<1>5. CASE JoinsBelow(list, block)
  <2> DEFINE b == Block(list[k].addr, list[k].len + roundew(n))
  <2>1. r = [list EXCEPT ![k] = b]
    BY <1>5 DEF PutBack
  <2> HIDE DEF k, r
  <2>2. k \in 1 .. Len(list) /\ End(list[k]) = block
    BY <1>1, <1>4, <1>5
  <2>3. /\ list[k].addr \in Nat /\ list[k].len \in Nat /\ list[k].len % 8 = 0
        /\ list[k].addr % 8 = 0 /\ minaddr <= list[k].addr
        /\ End(list[k]) = list[k].addr + list[k].len
    BY <2>2, ListFacts
  <2>4. /\ list[k].len + roundew(n) \in Int /\ list[k].len + roundew(n) > 0
        /\ list[k].addr + (list[k].len + roundew(n)) = block + roundew(n)
    BY <1>2, <2>2, <2>3, SMTT(30)
  <2>5. (list[k].len + roundew(n)) % 8 = 0
    BY <1>2, <2>3, Multiples
  <2>6. b \in FreeBlocks /\ b.addr = list[k].addr /\ End(b) = block + roundew(n)
    BY <2>3, <2>4, <2>5, BlockIsFree
  <2> HIDE DEF b
  <2>7. a \in Bytes(b)
            <=> a \in Bytes(list[k]) \/ a \in block .. block + roundew(n) - 1
    <3>1. /\ a \in Bytes(b) <=> list[k].addr <= a /\ a < block + roundew(n)
          /\ a \in Bytes(list[k]) <=> list[k].addr <= a /\ a < block
      <4>1. /\ b.addr \in Int /\ End(b) \in Int
            /\ list[k].addr \in Int /\ End(list[k]) \in Int
        BY <1>2, <2>2, <2>3, <2>6
      <4> QED BY <4>1, <2>2, <2>6, InBytes
    <3>2. list[k].addr <= block /\ list[k].addr \in Int
      BY <2>2, <2>3
    <3> QED BY <1>2, <3>1, <3>2
  <2>8. Covers(r, a)
            <=> \/ a \in Bytes(b)
                \/ \E j \in 1 .. Len(list) : j # k /\ a \in Bytes(list[j])
    BY <2>1, <2>2, <2>6, ListFacts, ReplaceCovers
  <2>9. Covers(list, a)
            <=> \/ a \in Bytes(list[k])
                \/ \E j \in 1 .. Len(list) : j # k /\ a \in Bytes(list[j])
    BY <2>2 DEF Covers
  <2> QED BY <2>7, <2>8, <2>9 DEF r
<1>6. CASE ~JoinsBelow(list, block)
  <2> DEFINE b == Block(block, roundew(n))
  <2>1. r = InsertAt(list, k + 1, b)
    BY <1>6 DEF PutBack
  <2> HIDE DEF k, r
  <2>2. k + 1 \in 1 .. Len(list) + 1
    BY <1>1
  <2>3. b \in FreeBlocks /\ b.addr = block /\ End(b) = block + roundew(n)
    BY <1>2, <1>3, BlockIsFree
  <2> HIDE DEF b
  <2>4. a \in Bytes(b) <=> a \in block .. block + roundew(n) - 1
    <3>1. b.addr \in Int /\ End(b) \in Int
      BY <1>2, <2>3
    <3>2. a \in Bytes(b) <=> block <= a /\ a < block + roundew(n)
      BY <2>3, <3>1, InBytes
    <3> QED BY <1>2, <3>2
  <2>5. Covers(r, a) <=> a \in Bytes(b) \/ Covers(list, a)
    BY <2>1, <2>2, <2>3, ListFacts, InsertCovers
  <2> QED BY <2>4, <2>5 DEF r
<1> QED BY <1>5, <1>6

LEMMA JoinCovers ==
    ASSUME NEW list, NEW q, Nearly(list, q), NEW a \in Int
    PROVE  Covers(JoinAbove(list, q), a) <=> Covers(list, a)
<1> DEFINE touch == q < Len(list) /\ End(list[q]) = list[q + 1].addr
           c == Block(list[q].addr, list[q].len + list[q + 1].len)
           r == [list EXCEPT ![q] = c]
<1>1. list \in Seq(FreeBlocks) /\ Len(list) \in Nat /\ q \in 1 .. Len(list)
  BY LenProperties DEF Nearly
<1>2. CASE ~touch
  BY <1>2 DEF JoinAbove
<1>3. CASE touch
  <2>1. q + 1 \in 1 .. Len(list) /\ End(list[q]) = list[q + 1].addr
    BY <1>1, <1>3
  <2>2. list[q] \in FreeBlocks /\ list[q + 1] \in FreeBlocks
    BY <1>1, <2>1, ElementOfSeq
  <2>3. /\ list[q].addr \in Nat /\ list[q].len \in Nat /\ list[q].len > 0
        /\ list[q].addr % 8 = 0 /\ list[q].len % 8 = 0 /\ minaddr <= list[q].addr
        /\ End(list[q]) = list[q].addr + list[q].len
    BY <2>2, FreeBlockFacts
  <2>4. /\ list[q + 1].addr \in Nat /\ list[q + 1].len \in Nat /\ list[q + 1].len > 0
        /\ list[q + 1].len % 8 = 0 /\ End(list[q + 1]) <= Top
        /\ End(list[q + 1]) = list[q + 1].addr + list[q + 1].len
    BY <2>2, FreeBlockFacts
  <2>5. /\ list[q].len + list[q + 1].len \in Int
        /\ list[q].len + list[q + 1].len > 0
        /\ list[q].addr + (list[q].len + list[q + 1].len) = End(list[q + 1])
    <3> DEFINE m == list[q].len
               l == list[q + 1].len
               x == list[q].addr
               y == list[q + 1].addr
    <3>1. /\ m \in Nat /\ l \in Nat /\ x \in Nat /\ y \in Nat /\ m > 0 /\ l > 0
          /\ x + m = y /\ End(list[q + 1]) = y + l
      BY <2>1, <2>3, <2>4
    <3> HIDE DEF m, l, x, y
    <3>2. m + l \in Int /\ m + l > 0 /\ x + (m + l) = y + l
      BY <3>1
    <3> QED BY <3>1, <3>2 DEF m, l, x, y
  <2>6. (list[q].len + list[q + 1].len) % 8 = 0
    BY <2>3, <2>4, Multiples
  <2>7. c \in FreeBlocks /\ c.addr = list[q].addr /\ End(c) = End(list[q + 1])
    BY <2>3, <2>4, <2>5, <2>6, BlockIsFree
  <2>8. JoinAbove(list, q) = RemoveAt(r, q + 1)
    BY <1>3 DEF JoinAbove
  <2> HIDE DEF c
  <2>9. /\ r \in Seq(FreeBlocks) /\ Len(r) = Len(list)
        /\ \A j \in 1 .. Len(list) : r[j] = IF j = q THEN c ELSE list[j]
    BY <1>1, <2>7, ExceptSeq
  <2> HIDE DEF r
  <2>10. Covers(RemoveAt(r, q + 1), a)
             <=> \E j \in 1 .. Len(list) : j # q + 1 /\ a \in Bytes(r[j])
    BY <2>1, <2>9, RemoveCovers
  <2>11. a \in Bytes(c) <=> a \in Bytes(list[q]) \/ a \in Bytes(list[q + 1])
    <3>1. /\ list[q].addr \in Int /\ End(list[q]) \in Int
          /\ list[q + 1].addr \in Int /\ End(list[q + 1]) \in Int
          /\ list[q].addr <= End(list[q]) /\ End(list[q]) <= End(list[q + 1])
      <4> DEFINE m == list[q].len
                 l == list[q + 1].len
                 x == list[q].addr
                 y == list[q + 1].addr
                 e == End(list[q])
                 f == End(list[q + 1])
      <4>1. /\ m \in Nat /\ l \in Nat /\ x \in Nat /\ y \in Nat
            /\ e = x + m /\ f = y + l /\ e = y
        BY <2>1, <2>3, <2>4
      <4> HIDE DEF m, l, x, y, e, f
      <4>2. x \in Int /\ e \in Int /\ y \in Int /\ f \in Int /\ x <= e /\ e <= f
        BY <4>1
      <4> QED BY <4>2 DEF x, y, e, f
    <3>2. /\ a \in Bytes(c) <=> list[q].addr <= a /\ a < End(list[q + 1])
          /\ a \in Bytes(list[q]) <=> list[q].addr <= a /\ a < End(list[q])
          /\ a \in Bytes(list[q + 1]) <=> End(list[q]) <= a /\ a < End(list[q + 1])
      BY <2>1, <2>7, <3>1, InBytes
    <3> QED BY <3>1, <3>2
  <2>12. q # q + 1
    BY <1>1
  <2>13. Covers(list, a)
             <=> \/ a \in Bytes(list[q]) \/ a \in Bytes(list[q + 1])
                 \/ \E j \in 1 .. Len(list) :
                        j # q /\ j # q + 1 /\ a \in Bytes(list[j])
    BY <1>1, <2>1 DEF Covers
  <2>14. (\E j \in 1 .. Len(list) : j # q + 1 /\ a \in Bytes(r[j]))
             <=> \/ a \in Bytes(c)
                 \/ \E j \in 1 .. Len(list) :
                        j # q /\ j # q + 1 /\ a \in Bytes(list[j])
    BY <1>1, <2>9, <2>12
  <2> QED BY <2>8, <2>10, <2>11, <2>13, <2>14
<1> QED BY <1>2, <1>3

LEMMA FreeCovers ==
    ASSUME NEW list, FreeList(list), NEW block \in Int, NEW n \in Nat, NEW a \in Int,
           block % 8 = 0, block + roundew(n) <= Top, minaddr <= block,
           \A x \in block .. block + roundew(n) - 1 : ~Covers(list, x)
    PROVE  Covers(AfterFree(list, block, n), a)
               <=> Covers(list, a) \/ a \in block .. block + roundew(n) - 1
<1> DEFINE k == Below(list, block)
<1>1. roundew(n) \in Int /\ roundew(n) % 8 = 0 /\ roundew(n) >= 0
  BY Roundew
<1>2. CASE n = 0
  <2>1. roundew(n) = 0
    BY <1>2 DEF roundew
  <2>2. AfterFree(list, block, n) = list
    BY <1>2 DEF AfterFree, FreeRefused
  <2>3. a \notin block .. block + roundew(n) - 1
    BY <2>1
  <2> QED BY <2>2, <2>3
<1>3. CASE n # 0
  <2>1. roundew(n) > 0
    BY <1>3, Roundew
  <2>2. /\ k \in 0 .. Len(list) /\ Len(list) \in Nat
        /\ \A i \in 1 .. k : list[i].addr < block
        /\ k < Len(list) => block <= list[k + 1].addr
    BY WalkStops, ListFacts
  <2>3. ASSUME k > 0, End(list[k]) > block
        PROVE  FALSE
    <3> HIDE DEF k
    <3>1. k \in 1 .. Len(list) /\ list[k].addr < block
      BY <2>2, <2>3
    <3>2. list[k].addr \in Int /\ End(list[k]) \in Int
      BY <3>1, ListFacts
    <3>3. block \in Bytes(list[k])
      BY <2>3, <3>1, <3>2 DEF Bytes
    <3>4. block \in block .. block + roundew(n) - 1
      BY <1>1, <2>1
    <3> QED BY <3>1, <3>3, <3>4 DEF Covers
  <2>4. ASSUME k < Len(list), block + roundew(n) > list[k + 1].addr
        PROVE  FALSE
    <3> HIDE DEF k
    <3>1. k + 1 \in 1 .. Len(list) /\ block <= list[k + 1].addr
      BY <2>2, <2>4
    <3>2. /\ list[k + 1].addr \in Int /\ list[k + 1].len \in Nat /\ list[k + 1].len > 0
          /\ End(list[k + 1]) = list[k + 1].addr + list[k + 1].len
      BY <3>1, ListFacts
    <3>3. list[k + 1].addr \in Bytes(list[k + 1])
      BY <3>2 DEF Bytes
    <3>4. list[k + 1].addr \in block .. block + roundew(n) - 1
      BY <1>1, <2>4, <3>1, <3>2
    <3> QED BY <3>1, <3>3, <3>4 DEF Covers
  <2>5. ~(block > maxaddr) /\ ~(block < minaddr)
    <3>1. roundew(n) >= 8
      BY <1>1, <2>1
    <3> QED BY <1>1, <3>1, TopFacts
  <2>6. ~FreeRefused(list, block, n)
    BY <1>3, <2>3, <2>4, <2>5 DEF FreeRefused
  <2>7. Nearly(PutBack(list, block, n), PlaceOf(list, block))
    BY <2>1, <2>6, PutBackNearly
  <2>8. Covers(PutBack(list, block, n), a)
            <=> Covers(list, a) \/ a \in block .. block + roundew(n) - 1
    BY <2>1, <2>6, PutBackCovers
  <2> QED BY <2>6, <2>7, <2>8, JoinCovers DEF AfterFree
<1> QED BY <1>2, <1>3
-----------------------------------------------------------------------------
(* Who holds a byte that is not free.                                      *)

HeldAsStack(a) == {<<"stack", p>> : p \in {q \in Live : a \in Bytes(StackOf(q))}}
HeldAsLink(a) == {<<"link", b>> : b \in {c \in links : a \in Bytes(c)}}
HeldAsBuffer(a, buffers) ==
    {<<"buffer", b>> : b \in {c \in buffers : a \in Bytes(BufferOf(c))}}

HeldBy(a, buffers) == HeldAsStack(a) \cup HeldAsLink(a) \cup HeldAsBuffer(a, buffers)

Held(a) == HeldBy(a, memarray)

AccountedFor(a, list, held) ==
    \/ a \in Pool /\ Covers(list, a) /\ held = {}
    \/ a \in Pool /\ ~Covers(list, a) /\ \E h : held = {h}
    \/ a \notin Pool /\ ~Covers(list, a) /\ held = {}

BytesInv ==
    /\ MemInv
    /\ \A p \in Users : roundew(pstklen[p]) = pstklen[p]
    /\ \A a \in Int : AccountedFor(a, memlist, Held(a))

(* A free byte gets a holder, a held one becomes free.                     *)
LEMMA Taken ==
    ASSUME NEW a \in Int, NEW list, NEW held, AccountedFor(a, list, held),
           NEW r, NEW new, Without(r, list, new), NEW h
    PROVE  AccountedFor(a, r, IF a \in new THEN held \cup {h} ELSE held)
<1>1. /\ Covers(r, a) <=> Covers(list, a) /\ a \notin new
      /\ a \in new => Covers(list, a)
  BY DEF Without
<1>2. CASE a \in new
  <2>1. a \in Pool /\ held = {} /\ ~Covers(r, a)
    BY <1>1, <1>2 DEF AccountedFor
  <2>2. held \cup {h} = {h}
    BY <2>1
  <2> QED BY <1>2, <2>1, <2>2 DEF AccountedFor
<1>3. CASE a \notin new
  BY <1>1, <1>3 DEF AccountedFor
<1> QED BY <1>2, <1>3

LEMMA GivenBack ==
    ASSUME NEW a \in Int, NEW list, NEW held, AccountedFor(a, list, held),
           NEW r, NEW old, Covers(r, a) <=> Covers(list, a) \/ a \in old,
           NEW h, a \in old <=> h \in held
    PROVE  AccountedFor(a, r, held \ {h})
<1>1. CASE a \in old
  <2>1. a \in Pool /\ held = {h} /\ Covers(r, a)
    BY <1>1 DEF AccountedFor
  <2>2. held \ {h} = {}
    BY <2>1
  <2> QED BY <2>1, <2>2 DEF AccountedFor
<1>2. CASE a \notin old
  <2>1. held \ {h} = held
    BY <1>2
  <2> QED BY <1>2, <2>1 DEF AccountedFor
<1> QED BY <1>1, <1>2

(* Held bytes are not on the list.                                         *)
LEMMA HeldNotFree ==
    ASSUME NEW a, NEW list, NEW held, AccountedFor(a, list, held), NEW h \in held
    PROVE  ~Covers(list, a)
BY DEF AccountedFor

LEMMA PoolFacts ==
    /\ Pool \subseteq Addresses
    /\ \A a \in Int : a \in Pool <=>
           minaddr <= a /\ a < minaddr + truncew(4 * RAMSIZE - NULLSTK)
    /\ truncew(4 * RAMSIZE - NULLSTK) \in Nat
    /\ truncew(4 * RAMSIZE - NULLSTK) > 0
<1> DEFINE n == 4 * RAMSIZE - NULLSTK
<1>1. n \in Int /\ n >= 8 /\ minaddr + n <= Top
  BY TopFacts, MemoryAssumption DEF SIZEOFINT
<1>2. Pool = minaddr .. minaddr + truncew(n) - 1
  BY DEF Pool, SIZEOFINT
<1> HIDE DEF n
<1>3. truncew(n) \in Int /\ truncew(n) > 0 /\ truncew(n) <= n
  BY <1>1, SMT DEF truncew
<1>4. \A a \in Int : a \in Pool <=> minaddr <= a /\ a < minaddr + truncew(n)
  BY <1>2, <1>3, TopFacts
<1>5. Pool \subseteq Int
  BY <1>2
<1>6. Pool \subseteq Addresses
  BY <1>1, <1>3, <1>4, <1>5, TopFacts
<1> QED BY <1>3, <1>4, <1>6 DEF n

(* At first everything is free.                                            *)
LEMMA BytesInit == Init => BytesInv
<1> SUFFICES ASSUME Init PROVE BytesInv
  OBVIOUS
<1>1. MemInv
  BY InitHolds
<1>2. \A p \in Users : roundew(pstklen[p]) = pstklen[p]
  BY DEF Init, roundew
<1>3. ASSUME NEW a \in Int
      PROVE  AccountedFor(a, memlist, Held(a))
  <2>1. Held(a) = {}
    <3>1. Live = {} /\ links = {} /\ memarray = {}
      BY DEF Init, Live
    <3> QED BY <3>1 DEF Held, HeldBy, HeldAsStack, HeldAsLink, HeldAsBuffer
  <2> DEFINE b == Block(minaddr, truncew(4 * RAMSIZE - NULLSTK))
  <2>2. memlist = <<b>>
    <3>1. roundew(minaddr) = minaddr
      BY TopFacts DEF roundew
    <3>2. maxaddr - NULLSTK - minaddr + SIZEOFINT = 4 * RAMSIZE - NULLSTK
      BY MemoryAssumption DEF maxaddr, SIZEOFINT
    <3> QED BY <3>1, <3>2 DEF Init
  <2>3. Covers(memlist, a) <=> a \in Bytes(b)
    BY <2>2 DEF Covers
  <2>4. a \in Bytes(b) <=> a \in Pool
    <3>1. b.addr = minaddr /\ End(b) = minaddr + truncew(4 * RAMSIZE - NULLSTK)
      BY DEF Block, End
    <3> HIDE DEF b
    <3>2. b.addr \in Int /\ End(b) \in Int
      BY <3>1, TopFacts, PoolFacts
    <3> QED BY <3>1, <3>2, InBytes, PoolFacts
  <2> QED BY <2>1, <2>3, <2>4 DEF AccountedFor
<1> QED BY <1>1, <1>2, <1>3 DEF BytesInv
(* create: a stack and a link stack.                                       *)
LEMMA BytesCreate ==
    ASSUME BytesInv, NEW p \in Users, NEW ssize \in StkSizes, Create(p, ssize), MemInv'
    PROVE  BytesInv'
<1> DEFINE len == roundew(ssize)
           rest == AfterGetStk(memlist, len)
           link == StkTop(rest, MINSTK)
           base == StkTop(memlist, len)
<1>1. ASSUME Fails
      PROVE  BytesInv'
  <2>1. ASSUME NEW a \in Int
        PROVE  Held(a)' = Held(a)
    BY <1>1 DEF Fails, Held, HeldBy, HeldAsStack, HeldAsLink, HeldAsBuffer, Live, StackOf
  <2> QED BY <1>1, <2>1 DEF BytesInv, Fails
<1>2. ASSUME CreateGranted(ssize), NewStacks(p, roundew(ssize))
      PROVE  BytesInv'
  <2> DEFINE blk == Block(link - roundew(MINSTK) + 4, roundew(MINSTK))
             newS == base + 4 - roundew(len) .. base + 3
             newL == link + 4 - roundew(MINSTK) .. link + 3
  <2>0. /\ TypeOK /\ FreeList(memlist) /\ TypeOK'
        /\ \A q \in Users : roundew(pstklen[q]) = pstklen[q]
        /\ pbase[p] = 0
    BY DEF BytesInv, MemInv, Create
  <2>1. /\ pbase' = [pbase EXCEPT ![p] = base]
        /\ pstklen' = [pstklen EXCEPT ![p] = len]
        /\ links' = links \cup {blk}
        /\ memlist' = AfterGetStk(rest, MINSTK)
        /\ memarray' = memarray
    BY <1>2 DEF NewStacks, StkBottom, SIZEOFINT
  <2>2. /\ len \in Int /\ MINSTK \in Int /\ roundew(MINSTK) \in Int
        /\ HasRoom(memlist, len) /\ HasRoom(rest, MINSTK) /\ roundew(len) = len
    BY <1>2, MemoryAssumption, Roundew, RoundewTwice DEF CreateGranted
  <2> HIDE DEF len
  <2>3. len > 0 /\ len % 8 = 0
    BY <2>0, <2>2, RoomFound
  <2>4. /\ FreeList(rest) /\ base \in Int /\ minaddr <= base + 4 - len
        /\ Without(rest, memlist, newS)
    BY <2>0, <2>2, GetStk, GetStkCovers
  <2> HIDE DEF rest
  <2>5. link \in Int /\ Without(memlist', rest, newL)
    BY <2>1, <2>2, <2>4, GetStk, GetStkCovers
  <2>6. base # 0 /\ base \in Int
    <3>1. len >= 8
      BY <2>2, <2>3
    <3> QED BY <3>1, <2>2, <2>4, TopFacts
  <2> HIDE DEF base, link
  <2>7. /\ Live' = Live \cup {p} /\ p \notin Live
        /\ \A q \in Live : StackOf(q)' = StackOf(q)
        /\ StackOf(p)' = Block(base - roundew(len) + 4, len)
    BY <2>0, <2>1, <2>2, <2>6 DEF Live, StackOf, StkBottom, SIZEOFINT, TypeOK
  <2>8. ASSUME NEW a \in Int
        PROVE  /\ a \in Bytes(StackOf(p)') <=> a \in newS
               /\ a \in Bytes(blk) <=> a \in newL
    <3>1. /\ StackOf(p)'.addr = base - roundew(len) + 4
          /\ End(StackOf(p)') = (base - roundew(len) + 4) + len
          /\ blk.addr = link - roundew(MINSTK) + 4
          /\ End(blk) = (link - roundew(MINSTK) + 4) + roundew(MINSTK)
      BY <2>7 DEF Block, End
    <3>2. /\ StackOf(p)'.addr \in Int /\ End(StackOf(p)') \in Int
          /\ blk.addr \in Int /\ End(blk) \in Int
      BY <3>1, <2>2, <2>5, <2>6
    <3> HIDE DEF blk
    <3>3. /\ a \in Bytes(StackOf(p)') <=> StackOf(p)'.addr <= a /\ a < End(StackOf(p)')
          /\ a \in Bytes(blk) <=> blk.addr <= a /\ a < End(blk)
      BY <3>2, InBytes
    <3> QED BY <3>1, <3>3, <2>2, <2>5, <2>6
  <2> HIDE DEF blk, newS, newL
  <2>9. ASSUME NEW a \in Int
        PROVE  AccountedFor(a, memlist, Held(a))'
    <3> DEFINE h1 == IF a \in newS THEN Held(a) \cup {<<"stack", p>>} ELSE Held(a)
               h2 == IF a \in newL THEN h1 \cup {<<"link", blk>>} ELSE h1
    <3>1. HeldAsStack(a)' =
             IF a \in newS THEN HeldAsStack(a) \cup {<<"stack", p>>} ELSE HeldAsStack(a)
      BY <2>7, <2>8 DEF HeldAsStack
    <3>2. HeldAsLink(a)' =
             IF a \in newL THEN HeldAsLink(a) \cup {<<"link", blk>>} ELSE HeldAsLink(a)
      BY <2>1, <2>8 DEF HeldAsLink
    <3>3. HeldAsBuffer(a, memarray)' = HeldAsBuffer(a, memarray)
      BY <2>1 DEF HeldAsBuffer
    <3>4. Held(a)' = h2
      BY <3>1, <3>2, <3>3 DEF Held, HeldBy
    <3>5. AccountedFor(a, memlist, Held(a))
      BY DEF BytesInv
    <3>6. AccountedFor(a, rest, h1)
      BY <3>5, <2>4, Taken
    <3> HIDE DEF h1
    <3>7. AccountedFor(a, memlist', h2)
      BY <3>6, <2>5, Taken
    <3> HIDE DEF h2
    <3> QED BY <3>4, <3>7 DEF AccountedFor, Covers, Pool, Bytes, End, Held, HeldBy
  <2>10. \A q \in Users : (roundew(pstklen[q]) = pstklen[q])'
    BY <2>0, <2>1, <2>2 DEF TypeOK
  <2> QED BY <2>9, <2>10 DEF BytesInv
<1> QED BY <1>1, <1>2 DEF Create

(* kill: the stack, which freemem does not refuse.                         *)
LEMMA BytesKill ==
    ASSUME BytesInv, NEW p \in Users, Kill(p), MemInv'
    PROVE  BytesInv'
<1> DEFINE base == pbase[p]
           n == roundew(pstklen[p])
           block == base - n + 4
           old == block .. block + roundew(n) - 1
<1>0. MemInv /\ TypeOK /\ FreeList(memlist) /\ base # 0
  BY DEF BytesInv, MemInv, Kill
<1>1. /\ base \in Int /\ pstklen[p] \in Nat /\ n = pstklen[p] /\ roundew(n) = n
      /\ n % 8 = 0 /\ (base + 4) % 8 = 0 /\ base + 4 <= Top /\ minaddr <= base
  <2>1. base \in Addresses /\ pstklen[p] \in Nat /\ n = pstklen[p]
    BY <1>0 DEF TypeOK, BytesInv
  <2>2. (base + 4) % 8 = 0 /\ base + 4 <= Top
    BY <1>0 DEF MemInv, StacksAligned, SIZEOFINT
  <2>3. base \in Int /\ minaddr <= base
    BY <2>1, MemoryAssumption DEF Addresses
  <2>4. n % 8 = 0 /\ roundew(n) = n
    BY <2>1, Roundew
  <2> HIDE DEF base, n
  <2> QED BY <2>1, <2>2, <2>3, <2>4
<1>2. memlist' = AfterFree(memlist, block, n)
  BY DEF Kill, AfterFreeStk, StkBottom, SIZEOFINT
<1>3. p \in Live /\ Live' = Live \ {p} /\ \A q \in Live' : StackOf(q)' = StackOf(q)
  BY <1>0 DEF Kill, Live, StackOf, TypeOK
<1>4. StackOf(p) = Block(block, n)
  BY <1>1 DEF StackOf, StkBottom, SIZEOFINT
<1> HIDE DEF base, n
<1>5. block \in Int /\ block + roundew(n) = base + 4 /\ block % 8 = 0
  <2>1. base + 4 \in Int /\ n \in Int
    BY <1>1
  <2>2. ((base + 4) - n) % 8 = 0
    BY <1>1, <2>1, Multiples
  <2>3. (base + 4) - n = block
    BY <1>1
  <2> QED BY <1>1, <2>2, <2>3
<1> HIDE DEF block
<1>6. \A a \in Int : a \in Bytes(StackOf(p)) <=> a \in old
  BY <1>1, <1>4, <1>5 DEF Bytes, Block, End
<1>7. \A a \in old : a \in Int /\ <<"stack", p>> \in Held(a)
  <2>1. \A a \in old : a \in Int
    BY <1>5
  <2> HIDE DEF old
  <2> QED BY <1>3, <1>6, <2>1 DEF Held, HeldBy, HeldAsStack
<1>8. \A a \in old : ~Covers(memlist, a)
  BY <1>7, HeldNotFree DEF BytesInv
<1>9. minaddr <= block
  <2>1. CASE n = 0
    <3>1. block + 0 = base + 4
      BY <2>1, <1>1, <1>5
    <3>2. minaddr \in Int /\ base \in Int /\ block \in Int /\ minaddr <= base
      BY <1>1, <1>5, TopFacts
    <3> QED BY <3>1, <3>2
  <2>2. CASE n # 0
    <3>1. block \in old
      BY <2>2, <1>1, <1>5
    <3>2. block \in Pool
      BY <3>1, <1>5, <1>7 DEF BytesInv, AccountedFor
    <3> QED BY <3>2, <1>5, PoolFacts
  <2> QED BY <2>1, <2>2
<1>10. ASSUME NEW a \in Int
       PROVE  AccountedFor(a, memlist, Held(a))'
  <2> DEFINE h == <<"stack", p>>
  <2>1. Held(a)' = Held(a) \ {h}
    <3>1. HeldAsStack(a)' = HeldAsStack(a) \ {h}
      BY <1>3 DEF HeldAsStack
    <3>2. HeldAsLink(a)' = HeldAsLink(a) /\ HeldAsBuffer(a, memarray)' = HeldAsBuffer(a, memarray)
      BY DEF HeldAsLink, HeldAsBuffer, Kill
    <3>3. h \notin HeldAsLink(a) /\ h \notin HeldAsBuffer(a, memarray)
      BY DEF HeldAsLink, HeldAsBuffer
    <3> HIDE DEF h
    <3> QED BY <3>1, <3>2, <3>3 DEF Held, HeldBy
  <2>2. a \in old <=> h \in Held(a)
    <3>1. h \in Held(a) => a \in Bytes(StackOf(p))
      BY DEF Held, HeldBy, HeldAsStack, HeldAsLink, HeldAsBuffer
    <3> QED BY <3>1, <1>6, <1>7
  <2>3. Covers(memlist', a) <=> Covers(memlist, a) \/ a \in old
    BY <1>0, <1>1, <1>2, <1>5, <1>8, <1>9, FreeCovers
  <2>4. AccountedFor(a, memlist, Held(a))
    BY DEF BytesInv
  <2> HIDE DEF old, h
  <2>5. AccountedFor(a, memlist', Held(a) \ {h})
    BY <2>2, <2>3, <2>4, GivenBack
  <2> QED BY <2>1, <2>5 DEF AccountedFor, Covers, Pool, Bytes, End, Held, HeldBy
<1>11. \A q \in Users : (roundew(pstklen[q]) = pstklen[q])'
  <2>1. roundew(0) = 0
    BY DEF roundew
  <2> QED BY <1>0, <2>1 DEF BytesInv, Kill, TypeOK
<1> QED BY <1>10, <1>11 DEF BytesInv
(* A buffer goes back to the list.                                         *)
LEMMA BytesFreed ==
    ASSUME BytesInv, NEW b \in memarray
    PROVE  \A a \in Int : AccountedFor(a, AfterFree(memlist, b.addr, b.size),
                                       HeldBy(a, memarray \ {b}))
<1> DEFINE list == AfterFree(memlist, b.addr, b.size)
           old == b.addr .. b.addr + roundew(b.size) - 1
           h == <<"buffer", b>>
<1>1. /\ b.addr \in Int /\ b.size \in Nat /\ minaddr <= b.addr
      /\ b.addr % 8 = 0 /\ b.addr + roundew(b.size) <= Top
  <2>1. b \in [addr : Addresses, size : HeapSizes]
    BY DEF BytesInv, MemInv, TypeOK
  <2>2. b.addr \in Addresses /\ b.size \in HeapSizes
    BY <2>1
  <2>3. b.addr \in Int /\ minaddr <= b.addr
    BY <2>2, MemoryAssumption DEF Addresses
  <2>4. b.size \in Nat
    BY <2>2, MemoryAssumption
  <2>5. b.addr % 8 = 0 /\ b.addr + roundew(b.size) <= Top
    BY DEF BytesInv, MemInv, BuffersAligned
  <2> QED BY <2>3, <2>4, <2>5
<1>2. roundew(b.size) \in Int
  BY <1>1, Roundew
<1>3. \A a \in Int : a \in Bytes(BufferOf(b)) <=> a \in old
  <2>1. BufferOf(b).addr = b.addr /\ End(BufferOf(b)) = b.addr + roundew(b.size)
    BY DEF BufferOf, Block, End
  <2>2. BufferOf(b).addr \in Int /\ End(BufferOf(b)) \in Int
    BY <1>1, <1>2, <2>1
  <2>3. \A a \in Int : a \in Bytes(BufferOf(b))
                           <=> b.addr <= a /\ a < b.addr + roundew(b.size)
    BY <2>1, <2>2, InBytes
  <2> QED BY <1>1, <1>2, <2>3
<1>4. \A a \in Int : a \in old <=> h \in Held(a)
  <2>1. ASSUME NEW a \in Int
        PROVE  h \in Held(a) <=> a \in Bytes(BufferOf(b))
    BY DEF Held, HeldBy, HeldAsStack, HeldAsLink, HeldAsBuffer
  <2> QED BY <2>1, <1>3
<1>5. \A a \in old : a \in Int
  BY <1>1, <1>2
<1> HIDE DEF h
<1>6. \A a \in old : ~Covers(memlist, a)
  <2> HIDE DEF old
  <2> QED BY <1>4, <1>5, HeldNotFree DEF BytesInv
<1>7. ASSUME NEW a \in Int
      PROVE  AccountedFor(a, list, HeldBy(a, memarray \ {b}))
  <2>1. HeldBy(a, memarray \ {b}) = Held(a) \ {h}
    <3>1. HeldAsBuffer(a, memarray \ {b}) = HeldAsBuffer(a, memarray) \ {h}
      BY DEF HeldAsBuffer, h
    <3>2. h \notin HeldAsStack(a) /\ h \notin HeldAsLink(a)
      BY DEF HeldAsStack, HeldAsLink, h
    <3> QED BY <3>1, <3>2 DEF Held, HeldBy
  <2>2. Covers(list, a) <=> Covers(memlist, a) \/ a \in old
    <3>1. FreeList(memlist)
      BY DEF BytesInv, MemInv
    <3> QED BY <3>1, <1>1, <1>6, FreeCovers
  <2>3. AccountedFor(a, memlist, Held(a))
    BY DEF BytesInv
  <2> HIDE DEF old, list
  <2>4. AccountedFor(a, list, Held(a) \ {h})
    BY <1>4, <2>2, <2>3, GivenBack
  <2> QED BY <2>1, <2>4
<1> QED BY <1>7

(* A buffer is taken from the list, beside others.                         *)
LEMMA BytesAllocate ==
    ASSUME BytesInv, NEW list, FreeList(list), NEW others,
           \A a \in Int : AccountedFor(a, list, HeldBy(a, others)),
           NEW size \in HeapSizes, AllocateFrom(list, others, size), MemInv'
    PROVE  BytesInv'
<1> DEFINE addr == MemAddr(list, size)
           b == Buffer(addr, size)
           new == addr .. addr + roundew(size) - 1
           h == <<"buffer", b>>
<1>1. CASE Fails
  <2>1. ASSUME NEW a \in Int
        PROVE  Held(a)' = Held(a)
    BY <1>1 DEF Fails, Held, HeldBy, HeldAsStack, HeldAsLink, HeldAsBuffer, Live, StackOf
  <2> QED BY <1>1, <2>1 DEF BytesInv, Fails
<1>2. ASSUME HasRoom(list, size),
             memarray' = others \cup {b},
             memlist' = AfterGetMem(list, size),
             UNCHANGED <<pbase, pstklen, linkbase, links, exited>>
      PROVE  BytesInv'
  <2>1. size \in Int /\ roundew(size) \in Int
    BY MemoryAssumption, Roundew
  <2>2. addr \in Int /\ Without(memlist', list, new)
    BY <2>1, <1>2, GetMem, GetMemCovers
  <2> HIDE DEF addr
  <2>3. \A a \in Int : a \in Bytes(BufferOf(b)) <=> a \in new
    <3>1. BufferOf(b).addr = addr /\ End(BufferOf(b)) = addr + roundew(size)
      BY DEF BufferOf, Buffer, Block, End
    <3>2. BufferOf(b).addr \in Int /\ End(BufferOf(b)) \in Int
      BY <2>1, <2>2, <3>1
    <3>3. \A a \in Int : a \in Bytes(BufferOf(b))
                             <=> addr <= a /\ a < addr + roundew(size)
      BY <3>1, <3>2, InBytes
    <3> QED BY <2>1, <2>2, <3>3
  <2> HIDE DEF b, new
  <2>4. ASSUME NEW a \in Int
        PROVE  AccountedFor(a, memlist, Held(a))'
    <3> DEFINE hs == IF a \in new THEN HeldBy(a, others) \cup {h} ELSE HeldBy(a, others)
    <3>1. HeldAsBuffer(a, memarray') =
              IF a \in new THEN HeldAsBuffer(a, others) \cup {h}
              ELSE HeldAsBuffer(a, others)
      BY <1>2, <2>3 DEF HeldAsBuffer
    <3>2. HeldAsStack(a)' = HeldAsStack(a) /\ HeldAsLink(a)' = HeldAsLink(a)
      BY <1>2 DEF HeldAsStack, HeldAsLink, Live, StackOf
    <3>3. Held(a)' = HeldAsStack(a)' \cup HeldAsLink(a)' \cup HeldAsBuffer(a, memarray')
      BY DEF Held, HeldBy, HeldAsBuffer
    <3> HIDE DEF h
    <3>4. Held(a)' = hs
      BY <3>1, <3>2, <3>3 DEF HeldBy
    <3>5. AccountedFor(a, memlist', hs)
      BY <2>2, Taken
    <3> HIDE DEF hs
    <3> QED BY <3>4, <3>5 DEF AccountedFor, Covers, Pool, Bytes, End, Held, HeldBy
  <2> QED BY <1>2, <2>4 DEF BytesInv
<1> QED BY <1>1, <1>2 DEF AllocateFrom

LEMMA BytesNext == BytesInv /\ [Next]_memVars => BytesInv'
<1> SUFFICES ASSUME BytesInv, [Next]_memVars PROVE BytesInv'
  OBVIOUS
<1>0. MemInv /\ MemInv' /\ FreeList(memlist)
  BY NextKeeps DEF BytesInv, MemInv
<1>1. ASSUME NEW p \in Users, NEW ssize \in StkSizes, Create(p, ssize) PROVE BytesInv'
  BY <1>0, <1>1, BytesCreate
<1>2. ASSUME NEW p \in Users, Kill(p) PROVE BytesInv'
  BY <1>0, <1>2, BytesKill
<1>3. ASSUME NEW size \in HeapSizes, yyalloc(size) PROVE BytesInv'
  <2>1. \A a \in Int : AccountedFor(a, memlist, HeldBy(a, memarray))
    BY DEF BytesInv, Held
  <2> QED BY <1>0, <1>3, <2>1, BytesAllocate DEF yyalloc
<1>4. ASSUME NEW b \in memarray, yyfree(b) PROVE BytesInv'
  <2>1. /\ memlist' = AfterFree(memlist, b.addr, b.size)
        /\ memarray' = memarray \ {b}
        /\ UNCHANGED <<pbase, pstklen, links>>
    BY <1>4 DEF yyfree
  <2>2. ASSUME NEW a \in Int
        PROVE  AccountedFor(a, memlist, Held(a))'
    <3>1. Held(a)' = HeldBy(a, memarray \ {b})
      BY <2>1 DEF Held, HeldBy, HeldAsStack, HeldAsLink, HeldAsBuffer, Live, StackOf
    <3>2. AccountedFor(a, memlist', HeldBy(a, memarray \ {b}))
      BY <2>1, BytesFreed
    <3> QED BY <3>1, <3>2 DEF AccountedFor, Covers, Pool, Bytes, End, Held, HeldBy
  <2> QED BY <1>0, <2>1, <2>2 DEF BytesInv
<1>5. ASSUME NEW b \in memarray, NEW size \in HeapSizes, yyrealloc(b, size)
      PROVE  BytesInv'
  <2>1. \A a \in Int : AccountedFor(a, AfterFree(memlist, b.addr, b.size),
                                    HeldBy(a, memarray \ {b}))
    BY <1>5, BytesFreed
  <2>2. FreeList(AfterFree(memlist, b.addr, b.size))
    BY <1>0, <1>5, BufferFreed
  <2> QED BY <1>0, <1>5, <2>1, <2>2, BytesAllocate DEF yyrealloc
<1>6. CASE UNCHANGED memVars
  <2>1. ASSUME NEW a \in Int
        PROVE  Held(a)' = Held(a)
    BY <1>6 DEF memVars, Held, HeldBy, HeldAsStack, HeldAsLink, HeldAsBuffer, Live, StackOf
  <2> QED BY <1>0, <1>6, <2>1 DEF BytesInv, memVars
<1> QED BY <1>1, <1>2, <1>3, <1>4, <1>5, <1>6 DEF Next
LEMMA OneHolder ==
    ASSUME MemInv, NEW a \in Addresses, AccountedFor(a, memlist, Held(a))
    PROVE  Cardinality(Holders(a)) = IF a \in Pool THEN 1 ELSE 0
<1> DEFINE F == {j \in DOMAIN memlist : a \in Bytes(memlist[j])}
           free == {<<"free", i>> : i \in F}
<1>0. /\ FreeList(memlist) /\ a \in Int /\ DOMAIN memlist = 1 .. Len(memlist)
  BY TopFacts, ListFacts DEF MemInv
<1>1. Holders(a) = free \cup Held(a)
  BY DEF Holders, Held, HeldBy, HeldAsStack, HeldAsLink, HeldAsBuffer
<1>2. Covers(memlist, a) <=> F # {}
  BY <1>0 DEF Covers
<1>3. ASSUME F # {}
      PROVE  \E h : free = {h}
  <2>1. PICK i \in F : TRUE
    BY <1>3
  <2>2. \A j \in F : j = i
    BY <1>0, <2>1, CoveredOnce
  <2>3. F = {i}
    BY <2>1, <2>2
  <2> HIDE DEF F
  <2>4. free = {<<"free", i>>}
    BY <2>3
  <2> QED BY <2>4
<1>4. F = {} => free = {}
  OBVIOUS
<1> HIDE DEF F, free
<1>5. CASE a \in Pool
  <2>1. \E h : Holders(a) = {h}
    BY <1>1, <1>2, <1>3, <1>4, <1>5 DEF AccountedFor
  <2>2. Cardinality(Holders(a)) = 1
    BY <2>1, FS_Singleton
  <2> QED BY <2>2, <1>5
<1>6. CASE a \notin Pool
  <2>1. Holders(a) = {}
    BY <1>1, <1>2, <1>4, <1>6 DEF AccountedFor
  <2>2. Cardinality(Holders(a)) = 0
    BY <2>1, FS_EmptySet
  <2> QED BY <2>2, <1>6
<1> QED BY <1>5, <1>6

(* Every byte that sysinit put on the list is free or has one holder, for  *)
(* ever (getstk.c, getmem.c, freemem.c, create.c, kill.c, lex.yy.c).       *)
THEOREM MemoryAlwaysAccounted == Spec => []MemoryAccounted
<1>1. Spec => []BytesInv
  BY BytesInit, BytesNext, PTL DEF Spec
<1>2. BytesInv => MemoryAccounted
  <2>1. \A a \in Addresses : a \in Int
    BY TopFacts
  <2> QED BY <2>1, OneHolder DEF BytesInv, MemoryAccounted
<1> QED BY <1>1, <1>2, PTL

=============================================================================
