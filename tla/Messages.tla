------------------------------ MODULE Messages ------------------------------
(***************************************************************************)
(* One-word messages between processes: send.c, receive.c, recvclr.c.      *)
(* A process holds at most one message; a second sender is refused.        *)
(***************************************************************************)
EXTENDS ProcTab

CONSTANT Msgs

VARIABLES
    phasmsg,    \* phasmsg[p]: p holds a message not received yet
    pmsg        \* pmsg[p]: the message

NoMsg == 0      \* pmsg of an entry that never got a message
ASSUME MessagesAssumption == NoMsg \notin Msgs

msgVars == <<phasmsg, pmsg>>

MsgTypeOK ==
    /\ phasmsg \in [Procs -> BOOLEAN]
    /\ pmsg \in [Procs -> Msgs \cup {NoMsg}]

-----------------------------------------------------------------------------
(* Mutation of Send: it does not look whether a message is there already.  *)
SendOverwriting(pid, msg) ==
    /\ Calling("send")
    /\ ~isbadpid(pid) /\ pstate[pid] # "PRFREE"
    /\ pmsg' = [pmsg EXCEPT ![pid] = msg]
    /\ phasmsg' = [phasmsg EXCEPT ![pid] = TRUE]
    /\ \/ /\ pstate[pid] = "PRRECV"
          /\ Ready(pid)
       \/ /\ pstate[pid] # "PRRECV"
          /\ UNCHANGED schedVars
    /\ UNCHANGED <<tabVars, kctx, uctx>>

Send(pid, msg) ==
    /\ Calling("send")
    /\ ~isbadpid(pid) /\ pstate[pid] # "PRFREE" /\ ~phasmsg[pid]
    /\ pmsg' = [pmsg EXCEPT ![pid] = msg]
    /\ phasmsg' = [phasmsg EXCEPT ![pid] = TRUE]
    /\ \/ /\ pstate[pid] = "PRRECV"
          /\ Ready(pid)
       \/ /\ pstate[pid] # "PRRECV"
          /\ UNCHANGED schedVars
    /\ UNCHANGED <<tabVars, kctx, uctx>>

(* A process without a message blocks inside receive; when send has made   *)
(* it run again, it goes on with ReceiveEnd.                               *)
Receive ==
    /\ Calling("receive")
    /\ Enter("receive", 0, 0)
    /\ \/ phasmsg[currpid] /\ UNCHANGED schedVars
       \/ ~phasmsg[currpid] /\ Block("PRRECV")
    /\ UNCHANGED <<tabVars, uctx, msgVars>>

(* The tail of receive: take the message without another look at phasmsg.  *)
ReceiveEnd ==
    /\ At("receive")
    /\ phasmsg' = [phasmsg EXCEPT ![currpid] = FALSE]
    /\ Leave
    /\ UNCHANGED <<tabVars, schedVars, uctx, pmsg>>

(* Mutation of RecvClr: it takes the message of some process.              *)
RecvClrOfAnyProcess ==
    /\ Calling("recvclr")
    /\ \E p \in Procs :
          /\ phasmsg[p]
          /\ phasmsg' = [phasmsg EXCEPT ![p] = FALSE]
    /\ UNCHANGED <<procVars, pmsg>>

(* recvclr returns OK when there is no message: nothing changes then.      *)
RecvClr ==
    /\ Calling("recvclr")
    /\ phasmsg[currpid]
    /\ phasmsg' = [phasmsg EXCEPT ![currpid] = FALSE]
    /\ UNCHANGED <<procVars, pmsg>>

=============================================================================
