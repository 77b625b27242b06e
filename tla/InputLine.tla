----------------------------- MODULE InputLine -----------------------------
(***************************************************************************)
(* What the input side of a terminal promises.  Characters come in a       *)
(* stream.  The last ones of it form the line that is being typed: they    *)
(* may still be erased.  Those before it go to readers, first come first   *)
(* served, each of them once.                                              *)
(***************************************************************************)
EXTENDS Integers, Sequences

CONSTANT Chars

VARIABLES stream, line      \* the characters, and how many form the line

InputInit == stream = <<>> /\ line = 0

(* A character joins the line.                                             *)
Type == \E c \in Chars : stream' = Append(stream, c) /\ line' = line + 1

Erase ==
    /\ line > 0
    /\ stream' = SubSeq(stream, 1, Len(stream) - 1)
    /\ line' = line - 1

Kill ==
    /\ stream' = SubSeq(stream, 1, Len(stream) - line)
    /\ line' = 0

(* The newline ends the line.                                              *)
Commit == \E c \in Chars : stream' = Append(stream, c) /\ line' = 0

(* Without line editing, one more character can be read.                   *)
Through == \E c \in Chars : stream' = Append(stream, c) /\ line' = line

Deliver ==
    /\ \E n \in 1 .. Len(stream) - line :
          stream' = SubSeq(stream, n + 1, Len(stream))
    /\ line' = line

Next == Type \/ Erase \/ Kill \/ Commit \/ Through \/ Deliver

Spec == InputInit /\ [][Next]_<<stream, line>>

=============================================================================
