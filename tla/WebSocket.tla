------------------------------- MODULE WebSocket -------------------------------
(***************************************************************************)
(* The WebSocket server of ESP Async WebServer (AsyncWebSocket.cpp), which *)
(* carries the dashboard: the messages and the control frames each client  *)
(* has queued, the buffers that a message to all clients shares, and the   *)
(* closing handshake.  Received data is in WebSocketFrames.                *)
(*                                                                         *)
(* A connection (AsyncClient) is its send buffer and its busy flag: lwIP   *)
(* reports an acknowledgement when everything that was sent is             *)
(* acknowledged.  A byte of a frame is counted, its value left out; a      *)
(* control frame carries no payload and a message fewer than 126 bytes, so *)
(* a header is 2 bytes.                                                    *)
(***************************************************************************)
EXTENDS Integers, SequencesExt, FiniteSetsExt

CONSTANTS Clients,       \* the peers that may connect
          SndBuf,        \* bytes a connection holds unacknowledged
          MsgLen,        \* bytes of a message
          MaxQueued,     \* WS_MAX_QUEUED_MESSAGES, 8 in the code
          MaxClients,    \* what cleanupClients() is called with
          Faults,        \* what may go wrong while a frame is written
          MaxTexts,      \* bound: messages the program sends
          MaxControls,   \* bound: control frames waiting when one is added
          MaxPings,      \* bound: pings of the peers
          MaxFaults      \* bound: faults

HeadLen == 2

ASSUME ClientsAssumption == IsFiniteSet(Clients)
ASSUME SizesAssumption == SndBuf \in Nat /\ SndBuf > 8 /\ MsgLen \in 1..125 /\ MaxQueued \in Nat \ {0}
                           /\ MaxClients \in Nat
ASSUME FaultsAssumption == Faults \subseteq {"malloc",  \* no memory for the header
                                             "data"}    \* the header is added, the data is not

(* An entry of _messageQueue; buf is the shared buffer.  An entry of       *)
(* _controlQueue is [op, finished].                                        *)
Message(b) == [buf |-> b, sent |-> 0, ack |-> 0, acked |-> 0, status |-> "sending"]
Control(op) == [op |-> op, finished |-> FALSE]

(* A client; life is "none", "live" or "gone".  unsent bytes are in lwIP   *)
(* but tcp_output() was not called.  in is what the peer made of the data  *)
(* frames: the open message, the bytes of it, the last whole message.      *)
NewClient == [life |-> "none", status |-> "connected", messages |-> <<>>, controls |-> <<>>,
              flight |-> 0, unsent |-> 0, closing |-> FALSE, lost |-> FALSE,
              in |-> [open |-> 0, got |-> 0, last |-> 0, bad |-> FALSE]]

VARIABLES ws,        \* the clients
          order,     \* _clients of the server, in order
          buffers,   \* _buffers: number of the buffer -> its _count
          made,      \* buffers made so far
          todo,      \* clients that textAll() has yet to queue the last buffer to
          pings, faults

vars == <<ws, order, buffers, made, todo, pings, faults>>

(* The operators below change a record of these.                           *)
S == [ws |-> ws, order |-> order, buffers |-> buffers]
Become(s) ==
  ws' = s.ws /\ order' = s.order /\ buffers' = s.buffers

Init ==
  /\ ws = [c \in Clients |-> NewClient]
  /\ order = <<>> /\ buffers = <<>> /\ made = 0 /\ todo = <<>>
  /\ pings = 0 /\ faults = 0

-------------------------------------------------------------------------------
(* What the peer does with a data frame (RFC 6455, 5.4).                   *)
read(in, f) ==
  LET opens == f.op = "text"
      m     == IF opens THEN f.msg ELSE in.open
      got   == (IF opens THEN 0 ELSE in.got) + f.len
      ok    == /\ (in.open # 0) = ~opens
               /\ f.msg = m /\ f.msg > in.last
               /\ got <= MsgLen /\ (f.fin <=> got = MsgLen)
  IN [open |-> IF f.fin THEN 0 ELSE m, got |-> IF f.fin THEN 0 ELSE got,
      last |-> IF f.fin THEN m ELSE in.last, bad |-> in.bad \/ ~ok]

space(k)   == SndBuf - k.flight - k.unsent
canSend(k) == k.flight = 0 /\ space(k) > 0

(* webSocketSendFrameWindow                                                *)
window(k) == IF canSend(k) /\ space(k) >= 9 THEN space(k) - 8 ELSE 0

(* webSocketSendFrame of n bytes: the client, and whether it was sent.     *)
frameSent(k, n, fault) ==
  IF ~canSend(k) \/ space(k) < HeadLen \/ fault = "malloc" THEN [k |-> k, sent |-> FALSE]
  ELSE IF n > 0 /\ fault = "data"
  THEN [k |-> [k EXCEPT !.unsent = @ + HeadLen, !.lost = TRUE], sent |-> FALSE]
  ELSE [k |-> [k EXCEPT !.flight = k.unsent + HeadLen + n, !.unsent = 0], sent |-> TRUE]

sendControl(k, fault) ==
  frameSent([k EXCEPT !.controls[1].finished = TRUE], 0, fault).k

(* Defect: computed from what was sent before this frame.                  *)
finalLate(sent, n) == sent - n = MsgLen

final(sent, n) == sent = MsgLen

(* AsyncWebSocketBasicMessage::send, AsyncWebSocketMultiMessage::send.     *)
sendMessage(k, fault) ==
  LET m    == Head(k.messages)
      n    == Min({MsgLen - m.sent, window(k)})
      sent == m.sent + n
      out  == frameSent(k, n, fault)
      f    == [op |-> IF sent = n THEN "text" ELSE "continuation", msg |-> m.buf,
               len |-> n, fin |-> final(sent, n)]
  IN IF m.status # "sending" \/ m.acked < m.ack THEN k
     ELSE IF m.sent = MsgLen THEN [k EXCEPT !.messages[1].status = "sent"]
     ELSE IF out.sent
     THEN [out.k EXCEPT !.messages[1] = [m EXCEPT !.sent = sent, !.ack = @ + HeadLen + n],
                        !.in = read(@, f)]
     ELSE [out.k EXCEPT !.messages[1] = [m EXCEPT !.ack = @ + HeadLen], !.lost = TRUE]

betweenFrames(m) == m.acked = m.ack
finished(m)      == m.status # "sending"

(* Deleting a message gives its buffer back.                               *)
release(s, q) ==
  [s EXCEPT !.buffers = [b \in DOMAIN @ |-> @[b] - Cardinality({i \in DOMAIN q : q[i].buf = b})]]

runQueue(s, c, fault) ==
  LET old  == s.ws[c].messages
      done == SelectInSeq(old, LAMBDA m : ~finished(m))
      rest == IF done = 0 THEN <<>> ELSE SubSeq(old, done, Len(old))
      gone == IF done = 0 THEN old ELSE SubSeq(old, 1, done - 1)
      k    == [s.ws[c] EXCEPT !.messages = rest]
      free == rest = <<>> \/ betweenFrames(Head(rest))
      after == IF k.controls # <<>> /\ free /\ window(k) > 1 THEN sendControl(k, fault)
               ELSE IF rest # <<>> /\ free /\ window(k) > 0 THEN sendMessage(k, fault)
               ELSE k
  IN release([s EXCEPT !.ws[c] = after], gone)

queueControl(s, c, op, fault) ==
  LET t == [s EXCEPT !.ws[c].controls = Append(@, Control(op))]
  IN IF canSend(t.ws[c]) THEN runQueue(t, c, fault) ELSE t

(* The message takes the buffer when it is made; a full queue deletes it.  *)
queueMessage(s, c, b, fault) ==
  LET k == s.ws[c]
      t == IF k.status # "connected" \/ Len(k.messages) >= MaxQueued THEN s
           ELSE [s EXCEPT !.ws[c].messages = Append(@, Message(b)), !.buffers[b] = @ + 1]
  IN IF k.status = "connected" /\ canSend(k) THEN runQueue(t, c, fault) ELSE t

(* Defect: a buffer goes as soon as one client has sent it.                *)
cleanedEarly(s) ==
  [s EXCEPT !.buffers = [b \in {x \in DOMAIN @ : @[x] > 1} |-> @[b]]]

(* _cleanBuffers; textAll() holds its lock until it calls it.              *)
cleaned(s) ==
  [s EXCEPT !.buffers = [b \in {x \in DOMAIN @ : @[x] # 0} |-> @[b]]]

(* _onDisconnect: the server forgets and deletes the client.               *)
disconnected(s, c) ==
  release([s EXCEPT !.ws[c] = [@ EXCEPT !.life = "gone", !.messages = <<>>, !.controls = <<>>,
                                        !.flight = 0],
                    !.order = RemoveFirst(@, c)], s.ws[c].messages)

(* close() of the server: the status stays WS_CONNECTED.                   *)
close(s, c, fault) ==
  IF s.ws[c].status # "connected" THEN s ELSE queueControl(s, c, "close", fault)

(* Defect: the acknowledgement of our answer is not looked for.            *)
onAckOpen(s, c, len, fault) == runQueue([s EXCEPT !.ws[c].controls = <<>>], c, fault)

(* _onAck(len)                                                             *)
onAck(s, c, len, fault) ==
  LET k       == s.ws[c]
      control == k.controls # <<>> /\ Head(k.controls).finished
      rest    == IF control THEN len - HeadLen ELSE len
      k1      == IF control THEN [k EXCEPT !.controls = Tail(@)] ELSE k
      m       == Head(k1.messages)
      m1      == [m EXCEPT !.acked = @ + rest,
                           !.status = IF m.sent = MsgLen /\ m.acked + rest = m.ack THEN "sent" ELSE @]
      k2      == IF rest # 0 /\ k1.messages # <<>> THEN [k1 EXCEPT !.messages[1] = m1] ELSE k1
  IN IF control /\ k.status = "disconnecting" /\ Head(k.controls).op = "close"
     THEN disconnected(s, c)
     ELSE runQueue(cleaned([s EXCEPT !.ws[c] = k2]), c, fault)

-------------------------------------------------------------------------------
Live(c) == ws[c].life = "live"

(* A step in which the frame it writes, if any, may fail.                  *)
Step(f(_)) ==
  \E fault \in {"none"} \cup (IF faults < MaxFaults THEN Faults ELSE {}) :
    /\ \E s \in {f(fault)} : Become(s)
    /\ faults' = IF fault = "none" THEN faults ELSE faults + 1

(* The acknowledgement of the response with code 101: the client exists.   *)
Connects(c) ==
  /\ ws[c].life = "none"
  /\ ws' = [ws EXCEPT ![c].life = "live"]
  /\ order' = Append(order, c)
  /\ UNCHANGED <<buffers, made, todo, pings, faults>>

(* textAll(): a buffer is made, queued to one client after the other, and  *)
(* cleaned up.  Nothing else runs meanwhile.                               *)
TextAll ==
  /\ made < MaxTexts /\ order # <<>>
  /\ made' = made + 1 /\ todo' = order
  /\ buffers' = [b \in DOMAIN buffers \cup {made + 1} |-> IF b = made + 1 THEN 0 ELSE buffers[b]]
  /\ UNCHANGED <<ws, order, pings, faults>>

Text ==
  /\ todo # <<>>
  /\ todo' = Tail(todo)
  /\ Step(LAMBDA fault : LET s == queueMessage(S, Head(todo), made, fault)
                         IN  IF Len(todo) = 1 THEN cleaned(s) ELSE s)
  /\ UNCHANGED <<made, pings>>

Close(c) ==
  /\ Live(c) /\ Len(ws[c].controls) < MaxControls
  /\ Step(LAMBDA fault : close(S, c, fault))
  /\ UNCHANGED <<made, todo, pings>>

(* count() counts WS_CONNECTED; the front of the list is closed.           *)
count == Cardinality({i \in DOMAIN order : ws[order[i]].status = "connected"})

CleanupClients ==
  /\ count > MaxClients
  /\ Len(ws[Head(order)].controls) < MaxControls
  /\ Step(LAMBDA fault : close(S, Head(order), fault))
  /\ UNCHANGED <<made, todo, pings>>

(* lwIP polls: _onPoll without a keep-alive period.                        *)
Poll(c) ==
  /\ Live(c) /\ canSend(ws[c])
  /\ ws[c].controls # <<>> \/ ws[c].messages # <<>>
  /\ Step(LAMBDA fault : runQueue(S, c, fault))
  /\ UNCHANGED <<made, todo, pings>>

Ack(c) ==
  /\ Live(c) /\ ws[c].flight > 0
  /\ Step(LAMBDA fault : onAck([S EXCEPT !.ws[c].flight = 0], c, ws[c].flight, fault))
  /\ UNCHANGED <<made, todo, pings>>

(* A close frame arrives; a second one ends the connection.                *)
PeerCloses(c) ==
  /\ Live(c)
  /\ LET s == [S EXCEPT !.ws[c].closing = TRUE] IN
     IF ws[c].status = "disconnecting"
     THEN Become(disconnected(s, c)) /\ UNCHANGED faults
     ELSE Step(LAMBDA fault : queueControl([s EXCEPT !.ws[c].status = "disconnecting"], c, "close", fault))
  /\ UNCHANGED <<made, todo, pings>>

PeerPings(c) ==
  /\ Live(c) /\ ~ws[c].closing /\ pings < MaxPings
  /\ pings' = pings + 1
  /\ Step(LAMBDA fault : queueControl(S, c, "pong", fault))
  /\ UNCHANGED <<made, todo>>

(* The connection ends: the peer closes it, an error, or _onTimeout.       *)
Drops(c) ==
  /\ Live(c)
  /\ Become(disconnected(S, c))
  /\ UNCHANGED <<made, todo, pings, faults>>

Next == \/ Text
        \/ /\ todo = <<>>
           /\ \/ TextAll \/ CleanupClients
              \/ \E c \in Clients : \/ Connects(c) \/ Close(c) \/ Poll(c) \/ Ack(c)
                                    \/ PeerCloses(c) \/ PeerPings(c) \/ Drops(c)

(* lwIP polls every connection, and TCP acknowledges what it received or   *)
(* the acknowledgement timeout closes the connection.  This is weak        *)
(* fairness of Poll(c) and Ack(c) with the conditions that enable them     *)
(* written out (TLC is slow to find that a step of theirs is enabled);     *)
(* after a failed write nothing is asked of Poll(c).  textAll() returns.   *)
PollDue(c) == /\ todo = <<>> /\ Live(c) /\ ~ws[c].lost /\ canSend(ws[c])
              /\ ws[c].controls # <<>> \/ ws[c].messages # <<>>
AckDue(c)  == todo = <<>> /\ Live(c) /\ ws[c].flight > 0

Fairness == /\ \A c \in Clients : /\ []<>~PollDue(c) \/ []<><<Poll(c)>>_vars
                                  /\ []<>~AckDue(c) \/ []<><<Ack(c)>>_vars
            /\ []<>(todo = <<>>)

Spec == Init /\ [][Next]_vars /\ Fairness

-------------------------------------------------------------------------------
(* The peer reassembles whole messages, in the order they were queued,     *)
(* although frames are cut to the window and control frames go between.    *)
(* A frame whose writing failed half-way spoils the stream.                *)
MessagesIntact == \A c \in Clients : ws[c].lost \/ ~ws[c].in.bad

(* A buffer is there as long as a message of any client uses it.           *)
BuffersHeld ==
  \A c \in Clients : \A i \in DOMAIN ws[c].messages : ws[c].messages[i].buf \in DOMAIN buffers

(* The closing handshake ends: a peer that sent a close frame gets its     *)
(* answer and is disconnected - unless the writing of a frame failed,      *)
(* after which the message at the front blocks both queues.                *)
CloseAnswered ==
  \A c \in Clients : ws[c].closing /\ Live(c) ~> ~Live(c) \/ ws[c].lost
===============================================================================
