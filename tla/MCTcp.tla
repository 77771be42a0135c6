-------------------------------- MODULE MCTcp ---------------------------------
(***************************************************************************)
(* Instances of the modules of the TCP libraries for TLC: AsyncClient, the *)
(* ESP8266's; AsyncTcpTask, the ESP32's; TcpBuffer, the buffer over either.*)
(* They share no state - a build has one library - so a behaviour is of    *)
(* one of them, part, and the others stay as they begin.                   *)
(***************************************************************************)
EXTENDS AsyncClient

CONSTANTS Clients, Slots, QueueLen, MaxEvents,                 \* of AsyncTcpTask
          Terminators, Sizes, MaxSegment, Mss, MaxRx, MaxTx,   \* of TcpBuffer
          BufferRoom                                           \* its SndBuf

VARIABLES part,
          queue, slots, closedIndex, client, conn, lwip, task, sentCount,
          rx, tx, stream

Task   == INSTANCE AsyncTcpTask
Buffer == INSTANCE TcpBuffer WITH client <- stream, SndBuf <- BufferRoom

(* Free is the argument of no event; the rest are sizes.                   *)
ASSUME TaskAssumption == Slots \in Nat /\ Task!Free \notin Clients

(* Lengths are naturals.                                                   *)
ASSUME BufferAssumption == Sizes \subseteq Nat /\ Mss \in Nat /\ BufferRoom \in Nat

taskVars   == <<queue, slots, closedIndex, client, conn, lwip, task, sentCount>>
bufferVars == <<rx, tx, stream>>
MCvars     == <<vars, taskVars, bufferVars, part>>

OfClient(A) == part = "client" /\ A /\ UNCHANGED <<taskVars, bufferVars, part>>
OfTask(A)   == part = "task"   /\ A /\ UNCHANGED <<vars, bufferVars, part>>
OfBuffer(A) == part = "buffer" /\ A /\ UNCHANGED <<vars, taskVars, part>>

MCInit == /\ part \in {"client", "task", "buffer"}
          /\ Init /\ Task!Init /\ Buffer!Init
          /\ part # "client" => c.deletes

MCNext == OfClient(Next) \/ OfTask(Task!Next) \/ OfBuffer(Buffer!Next)

(* The fairness of the parts: AsyncClient!FairSpec, AsyncTcpTask!FairSpec. *)
MCSpec == /\ MCInit /\ [][MCNext]_MCvars
          /\ WF_MCvars(OfClient(PollAny))
          /\ WF_MCvars(OfTask(Task!TaskNext))
          /\ WF_MCvars(OfTask(Task!Fin \/ Task!Send \/ Task!Api))

-------------------------------------------------------------------------------
(* No event reaches a client that was closed and deleted (AsyncTcpTask).   *)
ClosedIsSilent == Task!ClosedIsSilent

(* No call of the task reaches a pcb that lwIP has freed (AsyncTcpTask).   *)
SlotGuardsPcb == Task!SlotGuardsPcb

(* While the queue is never full both threads keep going (AsyncTcpTask).   *)
Drains == Task!Drains

(* The program and lwIP get every byte once and in order (TcpBuffer).      *)
BytesInOrder == Buffer!BytesInOrder
===============================================================================
