----------------------------- MODULE AsyncTcpTask -----------------------------
(***************************************************************************)
(* AsyncTCP, the ESP32 counterpart of ESPAsyncTCP: lwIP runs in a thread   *)
(* of its own, its callbacks put events into one bounded queue, and the    *)
(* task "async_tcp" takes them out and runs the callbacks of the clients.  *)
(* The task reaches lwIP through synchronous calls that the lwIP thread    *)
(* executes (tcpip_api_call).                                              *)
(*                                                                         *)
(* Modelled are accepted connections; the program calls the library from   *)
(* its callbacks only, and its onDisconnect deletes the client, as the web *)
(* server's does.  A client is identified with its pcb and its address;    *)
(* an address is not used twice.                                           *)
(***************************************************************************)
EXTENDS Integers, SequencesExt

CONSTANTS Clients,     \* the connections peers may open
          Slots,       \* _number_of_closed_slots, at least 1
          QueueLen,    \* 32 in the code, at least 1
          MaxEvents    \* bound: events lwIP sends

NoSlot == -1           \* _closed_slot of a client that found none
Free   == "free"

VARIABLES queue,       \* _async_queue, of records [kind, arg, n]
          slots,       \* _closed_slots: 0 in use, else when it was closed
          closedIndex, \* _closed_index
          client,      \* c -> [life, pcb, slot, overtaken]: pcb says _pcb is not
                       \* NULL; overtaken is history, see TcpClose
          conn,        \* c -> [state, args]: lwIP's pcb, and tcp_arg() is set
          lwip,        \* the lwIP thread: [pc, e], e the event at hand
          task,        \* the async task: [pc, e, first, packet, api]
          sentCount    \* events sent so far, which numbers them

vars == <<queue, slots, closedIndex, client, conn, lwip, task, sentCount>>

Event(k, c) == [kind |-> k, arg |-> c, n |-> sentCount + 1]
NoEvent == [kind |-> "none", arg |-> Free, n |-> 0]
Clear(c) == [kind |-> "clear", arg |-> c, n |-> 0]

Idle(t) == t.pc = "idle"
LwipIdle == [pc |-> "idle", e |-> NoEvent]
TaskIdle == [pc |-> "idle", e |-> NoEvent, first |-> NoEvent,
             packet |-> NoEvent, api |-> "none"]
Room == Len(queue) < QueueLen

Init ==
  /\ queue = <<>>
  /\ slots = [i \in 1..Slots |-> 1]
  /\ closedIndex = 1
  /\ client = [c \in Clients |-> [life |-> "none", pcb |-> FALSE, slot |-> NoSlot, overtaken |-> FALSE]]
  /\ conn = [c \in Clients |-> [state |-> "none", args |-> FALSE]]
  /\ lwip = LwipIdle
  /\ task = TaskIdle
  /\ sentCount = 0

-------------------------------------------------------------------------------
(* The lwIP thread.  It reads the callback and its argument in one step    *)
(* and sends the event in a later one: it may be preempted between, and    *)
(* xQueueSend() waits as long as the queue is full.                        *)

(* What the constructor may take: the last of the slots closed first.      *)
freeSlots ==
  LET closed == {i \in 1..Slots : slots[i] # 0} IN
  IF closed = {} THEN {NoSlot}
  ELSE {i \in closed : \A j \in closed : slots[i] < slots[j] \/ (slots[i] = slots[j] /\ i >= j)}

accept(c) ==
  /\ Idle(lwip)
  /\ client[c].life = "none"
  /\ sentCount < MaxEvents
  /\ sentCount' = sentCount + 1
  /\ \E slot \in freeSlots :
       /\ client' = [client EXCEPT ![c] =
                       [life |-> "live", pcb |-> TRUE, slot |-> slot, overtaken |-> FALSE]]
       /\ slots' = [i \in 1..Slots |-> IF i = slot THEN 0 ELSE slots[i]]
  /\ conn' = [conn EXCEPT ![c] = [state |-> "open", args |-> TRUE]]
  /\ lwip' = [pc |-> "send", e |-> Event("accept", c)]
  /\ UNCHANGED <<queue, closedIndex, task>>

(* _tcp_sent, _tcp_recv with data, _tcp_poll.                              *)
Callback(c, k) ==
  /\ Idle(lwip)
  /\ conn[c].state = "open" /\ conn[c].args
  /\ sentCount < MaxEvents
  /\ sentCount' = sentCount + 1
  /\ lwip' = [pc |-> IF k = "fin" THEN "fin" ELSE "send", e |-> Event(k, c)]
  /\ UNCHANGED <<queue, slots, closedIndex, client, conn, task>>

(* _tcp_error: lwIP has freed the pcb when it calls this.                  *)
Error(c) ==
  /\ Idle(lwip)
  /\ conn[c].state = "open"
  /\ sentCount < MaxEvents
  /\ sentCount' = sentCount + 1
  /\ conn' = [conn EXCEPT ![c].state = "reset"]
  /\ lwip' = IF conn[c].args THEN [pc |-> "send", e |-> Event("error", c)] ELSE LwipIdle
  /\ UNCHANGED <<queue, slots, closedIndex, client, task>>

(* Defect: the slot is not marked closed.                                  *)
lwipFinUnmarked(c) ==
  /\ conn' = [conn EXCEPT ![c] = [state |-> "closed", args |-> FALSE]]
  /\ UNCHANGED slots
  /\ closedIndex' = closedIndex + 1
  /\ client' = [client EXCEPT ![c].pcb = FALSE]

(* _lwip_fin closes the pcb in the lwIP thread.                            *)
lwipFin(c) ==
  /\ conn' = [conn EXCEPT ![c] = [state |-> "closed", args |-> FALSE]]
  /\ slots' = [i \in 1..Slots |-> IF i = client[c].slot THEN closedIndex ELSE slots[i]]
  /\ closedIndex' = closedIndex + 1
  /\ client' = [client EXCEPT ![c].pcb = FALSE]

Fin ==
  /\ lwip.pc = "fin"
  /\ lwip' = [lwip EXCEPT !.pc = "send"]
  /\ IF client[lwip.e.arg].pcb THEN lwipFin(lwip.e.arg)
     ELSE UNCHANGED <<conn, slots, closedIndex, client>>
  /\ UNCHANGED <<queue, task, sentCount>>

Send ==
  /\ lwip.pc = "send" /\ Room
  /\ queue' = IF lwip.e.kind = "accept" THEN <<lwip.e>> \o queue ELSE Append(queue, lwip.e)
  /\ lwip' = LwipIdle
  /\ UNCHANGED <<slots, closedIndex, client, conn, task, sentCount>>

slotOpen(c) == client[c].slot = NoSlot \/ slots[client[c].slot] = 0

(* A call of the task is executed; tcp_close() may fail for want of memory.*)
Api ==
  LET c == task.e.arg IN
  /\ Idle(lwip) /\ task.pc = "api"
  /\ \E failed \in IF task.api # "close" THEN {FALSE} ELSE IF slotOpen(c) THEN BOOLEAN ELSE {TRUE} :
       /\ task' = [task EXCEPT !.pc = IF failed THEN "abort" ELSE "return"]
       /\ conn' = IF slotOpen(c) /\ ~failed /\ task.api \in {"close", "abort"}
                     /\ conn[c].state = "open"
                  THEN [conn EXCEPT ![c].state = "closed"] ELSE conn
  /\ UNCHANGED <<queue, slots, closedIndex, client, lwip, sentCount>>

-------------------------------------------------------------------------------
(* The async task.                                                         *)
At(pc)   == task.pc = pc
Goto(pc) == task' = [task EXCEPT !.pc = pc]
Call(f)  == task' = [task EXCEPT !.pc = "api", !.api = f]

Get ==
  /\ Idle(task) /\ queue # <<>>
  /\ task' = [TaskIdle EXCEPT !.pc = "run", !.e = Head(queue)]
  /\ queue' = Tail(queue)
  /\ UNCHANGED <<slots, closedIndex, client, conn, lwip, sentCount>>

(* _handle_async_event.  An event of a deleted client goes to freed memory;*)
(* nothing is said of what follows.                                        *)
Run ==
  LET e == task.e  c == e.arg
      lost == \/ e.kind # "clear" /\ client[c].life = "deleted"
              \/ e.kind = "poll" /\ ~client[c].pcb IN
  /\ At("run")
  /\ client' = IF e.kind = "error" THEN [client EXCEPT ![c].pcb = FALSE] ELSE client
  /\ conn' = IF e.kind = "error" THEN [conn EXCEPT ![c].args = FALSE] ELSE conn
  /\ IF lost THEN task' = TaskIdle
     ELSE Goto(CASE e.kind = "clear" -> "first"
                 [] e.kind = "error" -> "discard"
                 [] e.kind = "fin"   -> "clear"
                 [] OTHER            -> "react")
  /\ UNCHANGED <<queue, slots, closedIndex, lwip, sentCount>>

(* A callback of the program does nothing, writes or closes.  A write and  *)
(* a close without a pcb do nothing; close() acknowledges data first.      *)
React ==
  /\ At("react")
  /\ \/ Goto("after")
     \/ client[task.e.arg].pcb /\ \E f \in {"write", "ack"} : Call(f)
  /\ UNCHANGED <<queue, slots, closedIndex, client, conn, lwip, sentCount>>

Return ==
  /\ At("return")
  /\ CASE task.api = "write"  -> Goto("after")
       [] task.api = "ack"    -> Goto("close")
       [] task.api = "recved" -> task' = TaskIdle
       [] OTHER               -> Goto("discard")
  /\ UNCHANGED <<queue, slots, closedIndex, client, conn, lwip, sentCount>>

(* What is left of the handler: _recv acknowledges the data.               *)
After ==
  /\ At("after")
  /\ IF task.e.kind = "recv" /\ client[task.e.arg].pcb THEN Call("recved") ELSE task' = TaskIdle
  /\ UNCHANGED <<queue, slots, closedIndex, client, conn, lwip, sentCount>>

(* _close: silence lwIP, clear the queue, then close.  The check of _pcb   *)
(* and the silencing calls are one step.                                   *)
Close ==
  LET c == task.e.arg IN
  /\ At("close")
  /\ IF client[c].pcb
     THEN Goto("clear") /\ conn' = [conn EXCEPT ![c].args = FALSE]
     ELSE Goto("after") /\ UNCHANGED conn
  /\ UNCHANGED <<queue, slots, closedIndex, client, lwip, sentCount>>

(* Defect: events that are in the queue stay there.                        *)
clearedKept(c) == queue

(* _tcp_clear_events: to the front of the queue.                           *)
cleared(c) == <<Clear(c)>> \o queue

ClearEvents ==
  /\ At("clear") /\ Room
  /\ queue' = cleared(task.e.arg)
  /\ Goto(IF task.e.kind = "fin" THEN "discard" ELSE "tcp_close")
  /\ UNCHANGED <<slots, closedIndex, client, conn, lwip, sentCount>>

(* _tcp_close is given _pcb as it is now: lwIP's thread may have closed    *)
(* the pcb since _close checked it.  Then the task makes no call and does  *)
(* not wait for lwIP's thread, and abort() finds no pcb either.            *)
TcpClose ==
  LET c == task.e.arg IN
  /\ At("tcp_close")
  /\ IF client[c].pcb
     THEN Call("close") /\ UNCHANGED client
     ELSE Goto("abort") /\ client' = [client EXCEPT ![c].overtaken = TRUE]
  /\ UNCHANGED <<queue, slots, closedIndex, conn, lwip, sentCount>>

(* abort(), when tcp_close() failed.                                       *)
Abort ==
  /\ At("abort")
  /\ IF client[task.e.arg].pcb THEN Call("abort") ELSE Goto("discard")
  /\ UNCHANGED <<queue, slots, closedIndex, client, conn, lwip, sentCount>>

(* _discard_cb deletes the client.                                         *)
Discard ==
  /\ At("discard")
  /\ client' = [client EXCEPT ![task.e.arg] = [@ EXCEPT !.life = "deleted", !.pcb = FALSE]]
  /\ task' = TaskIdle
  /\ UNCHANGED <<queue, slots, closedIndex, conn, lwip, sentCount>>

-------------------------------------------------------------------------------
(* _remove_events_with_arg turns the queue round, one packet at a time,    *)
(* while the lwIP thread goes on sending.                                  *)
Matches(p) == p.arg = task.e.arg

First ==
  /\ At("first")
  /\ IF queue = <<>> THEN task' = TaskIdle /\ UNCHANGED queue
     ELSE /\ queue' = Tail(queue)
          /\ IF Matches(Head(queue)) THEN UNCHANGED task
             ELSE task' = [task EXCEPT !.pc = "back", !.first = Head(queue), !.packet = Head(queue)]
  /\ UNCHANGED <<slots, closedIndex, client, conn, lwip, sentCount>>

Back ==
  /\ At("back") /\ Room
  /\ queue' = Append(queue, task.packet)
  /\ Goto("rest")
  /\ UNCHANGED <<slots, closedIndex, client, conn, lwip, sentCount>>

(* Defect: the walk does not stop at the first packet it put back.         *)
RestUnstopped ==
  /\ At("rest")
  /\ IF queue = <<>> THEN task' = TaskIdle /\ UNCHANGED queue
     ELSE /\ queue' = Tail(queue)
          /\ IF Matches(Head(queue)) THEN UNCHANGED task
             ELSE task' = [task EXCEPT !.pc = "back", !.packet = Head(queue)]
  /\ UNCHANGED <<slots, closedIndex, client, conn, lwip, sentCount>>

Rest ==
  /\ At("rest")
  /\ IF queue = <<>> \/ Head(queue) = task.first THEN task' = TaskIdle /\ UNCHANGED queue
     ELSE /\ queue' = Tail(queue)
          /\ IF Matches(Head(queue)) THEN UNCHANGED task
             ELSE task' = [task EXCEPT !.pc = "back", !.packet = Head(queue)]
  /\ UNCHANGED <<slots, closedIndex, client, conn, lwip, sentCount>>

LwipNext == \/ \E c \in Clients : \/ accept(c)
                                 \/ \E k \in {"recv", "sent", "poll", "fin"} : Callback(c, k)
                                 \/ Error(c)
            \/ Fin \/ Send \/ Api

TaskNext == \/ Get \/ Run \/ React \/ Return \/ After \/ Close \/ ClearEvents
            \/ TcpClose \/ Abort \/ Discard \/ First \/ Back \/ Rest

Next == LwipNext \/ TaskNext

Spec == Init /\ [][Next]_vars
FairSpec == Spec /\ WF_vars(TaskNext) /\ WF_vars(Fin \/ Send \/ Api)

-------------------------------------------------------------------------------
(* _close and _fin clear the queue and then let the program delete the     *)
(* client, while the lwIP thread may already hold the next event of it:    *)
(* still none reaches the deleted client, because tcp_close() is a call    *)
(* that waits for the lwIP thread and the removal comes after it.  There   *)
(* are two exceptions, and in both the code does deliver to freed memory.  *)
(* After a reset the queue is not cleared.  And where _lwip_fin overtook   *)
(* _close between its check of _pcb and _tcp_close, nothing waits: the fin *)
(* event, that one alone, may be sent when the removal is over.            *)
ClosedIsSilent ==
  LET e == task.e IN
  task.pc = "run" /\ e.kind # "clear" =>
    \/ client[e.arg].life = "live"
    \/ conn[e.arg].state = "reset"
    \/ e.kind = "fin" /\ client[e.arg].overtaken

(* Between the moment the task reads _pcb and the call's execution the     *)
(* lwIP thread may close the pcb (_lwip_fin): the closed slots keep such a *)
(* call from the freed pcb, unless the client got no slot or lwIP has      *)
(* given its slot to a newer client meanwhile.  A reset frees the pcb too, *)
(* and marks no slot.                                                      *)
SlotGuardsPcb ==
  task.pc = "api" /\ Idle(lwip) /\ slotOpen(task.e.arg) =>
    LET c == task.e.arg IN
    \/ conn[c].state \in {"open", "reset"}
    \/ client[c].slot = NoSlot
    \/ \E d \in Clients \ {c} : client[d].slot = client[c].slot /\ conn[d].state # "closed"

(* While the queue is never full, both threads keep going: what lwIP sent  *)
(* is taken out, and no call of the task waits for ever.                   *)
Drains == []<>(~Room \/ (queue = <<>> /\ Idle(task)))
===============================================================================
