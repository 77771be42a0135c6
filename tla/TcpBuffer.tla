------------------------------- MODULE TcpBuffer -------------------------------
(***************************************************************************)
(* AsyncTCPbuffer (ESPAsyncTCPbuffer.cpp): a program's reads and writes    *)
(* over an AsyncClient.  Bytes that arrive go to the request that is       *)
(* pending or into a buffer; bytes that are written go into a chain of     *)
(* buffers that is sent as the connection allows.                          *)
(*                                                                         *)
(* A byte is its position in its direction.  cbuf is a sequence.  The      *)
(* program's callbacks read on or not, but do not delete the object.       *)
(***************************************************************************)
EXTENDS Integers, SequencesExt, FiniteSetsExt

CONSTANTS Terminators,    \* positions of bytes at which a string ends
          Sizes,          \* lengths of readBytes(), at least 1
          MaxSegment,     \* bytes of a received segment
          Mss,            \* capacity of a buffer of the TX chain, TCP_MSS
          SndBuf,         \* room of the connection
          MaxRx, MaxTx    \* bounds: bytes received and written

VARIABLES
  rx,   \* [mode, size, buffer, given, received]: _RXmode, _rxSize, _RXbuffer,
        \* what the program was given, bytes received so far
  tx,   \* [chain, out, flight, written, repeated]: the chain from
        \* _TXbufferRead to _TXbufferWrite, what lwIP took, bytes of that
        \* which are not acknowledged, bytes written so far, and whether a
        \* tcp_output() failed after its bytes were taken
  client    \* "open", "closing" (_client is NULL), "gone"

vars == <<rx, tx, client>>

Init ==
  /\ rx = [mode |-> "free", size |-> 0, buffer |-> <<>>, given |-> <<>>, received |-> 0]
  /\ tx = [chain |-> << <<>> >>, out |-> <<>>, flight |-> 0, written |-> 0, repeated |-> FALSE]
  /\ client = "open"

-------------------------------------------------------------------------------
(* What the program does when it is called: the request it makes then, and *)
(* the bytes a data callback takes.                                        *)
Requests == {[mode |-> "free", size |-> 0], [mode |-> "none", size |-> 0],
             [mode |-> "string", size |-> 0]} \cup {[mode |-> "bytes", size |-> n] : n \in Sizes}
Programs == [next : Requests, takes : {"all", "one", "none"}]

taken(p, n) == IF p.takes = "all" THEN n ELSE IF p.takes = "one" THEN Min({1, n}) ELSE 0

(* readBytes(), readStringUntil(), onData(), noCallback().                 *)
request(s, q) == [s EXCEPT !.mode = q.mode, !.size = q.size]

take(s, bytes)    == [s EXCEPT !.given = @ \o bytes]
takeBuffer(s, n)  == [take(s, SubSeq(s.buffer, 1, n)) EXCEPT !.buffer = SubSeq(@, n + 1, Len(@))]
First(bytes, n)   == SubSeq(bytes, 1, n)
Beyond(bytes, n)  == SubSeq(bytes, n + 1, Len(bytes))

(* The three ways of _handleRxBuffer: what it leaves and what it returns.  *)
handleFree(s, buf, p) ==
  LET avail == Len(s.buffer)
      r     == taken(p, avail)
      t     == IF avail > 0 THEN request(takeBuffer(s, r), p.next) ELSE s
      n     == taken(p, Len(buf))
  IN IF r = avail /\ buf # <<>>
     THEN [s |-> request(take(t, First(buf, n)), p.next), n |-> n]
     ELSE [s |-> t, n |-> 0]

(* Defect: bytes that wait in the buffer are passed by.                    *)
handleBytesPast(s, buf, p) ==
  LET n == Min({s.size, Len(buf)})
      u == [take(s, First(buf, n)) EXCEPT !.size = @ - n]
  IN  [s |-> IF u.size = 0 THEN request(u, p.next) ELSE u, n |-> n]

handleBytes(s, buf, p) ==
  LET r == Min({s.size, Len(s.buffer)})
      t == [takeBuffer(s, r) EXCEPT !.size = @ - r]
      n == IF t.buffer = <<>> THEN Min({t.size, Len(buf)}) ELSE 0
      u == [take(t, First(buf, n)) EXCEPT !.size = @ - n]
  IN  [s |-> IF u.size = 0 THEN request(u, p.next) ELSE u, n |-> n]

(* Up to the terminator, itself included, or all.                          *)
untilTerminator(bytes) ==
  LET at == SelectInSeq(bytes, LAMBDA b : b \in Terminators)
  IN  IF at = 0 THEN Len(bytes) ELSE at
ends(bytes) == \E i \in DOMAIN bytes : bytes[i] \in Terminators

handleString(s, buf, p) ==
  LET t == takeBuffer(s, untilTerminator(s.buffer))
      n == untilTerminator(buf)
      u == take(t, First(buf, n))
  IN IF ends(s.buffer) THEN [s |-> request(t, p.next), n |-> 0]
     ELSE [s |-> IF ends(buf) THEN request(u, p.next) ELSE u, n |-> n]

handleRxBuffer(s, buf, p) ==
  CASE s.mode = "none"   -> [s |-> s, n |-> 0]
    [] s.mode = "free"   -> handleFree(s, buf, p)
    [] s.mode = "bytes"  -> handleBytes(s, buf, p)
    [] s.mode = "string" -> handleString(s, buf, p)

(* while(_RXmode != NONE && handled != 0 && len > 0): a turn handles a     *)
(* byte at least or is the last.                                           *)
handleTurn(t, p) ==
  LET h == handleRxBuffer(t.s, t.rest, p) IN
  IF t.s.mode = "none" \/ t.rest = <<>> \/ ~t.handled THEN t
  ELSE [s |-> h.s, rest |-> Beyond(t.rest, h.n), handled |-> h.n # 0]

handleOn(s, buf, p) ==
  LET turn[k \in 0..Len(buf)] == IF k = 0 THEN [s |-> s, rest |-> buf, handled |-> TRUE]
                                 ELSE handleTurn(turn[k - 1], p)
  IN  turn[Len(buf)]

(* _rxData; without a segment to offer, _handleRxBuffer returns 0 in every *)
(* mode, so the buffer is offered once.                                    *)
rxData(s, buf, p) ==
  LET h     == handleRxBuffer(s, buf, p)
      rest1 == Beyond(buf, h.n)
      on    == IF s.mode # "none" /\ h.s.buffer = <<>> /\ h.n # 0
               THEN handleOn(h.s, rest1, p) ELSE [s |-> h.s, rest |-> rest1]
      kept  == [on.s EXCEPT !.buffer = @ \o on.rest]
  IN IF kept.buffer # <<>> /\ kept.mode # "none"
     THEN handleRxBuffer(kept, <<>>, p).s ELSE kept

-------------------------------------------------------------------------------
busy(t)  == t.flight > 0
space(t) == SndBuf - t.flight

(* n bytes of the front are sent; an empty buffer goes if there is another.*)
removed(chain, n) ==
  LET front == Beyond(chain[1], n)
  IN  IF front = <<>> /\ Len(chain) > 1 THEN Tail(chain) ELSE [chain EXCEPT ![1] = front]

(* _sendBuffer: after one write the connection is busy.  fault: "memory",  *)
(* there is none for the copy; "output", the bytes are taken but           *)
(* tcp_output() fails, so write() returns 0 and they stay in the chain.    *)
sendBuffer(t, fault) ==
  LET n     == Min({Len(t.chain[1]), space(t)})
      bytes == First(t.chain[1], n)
  IN IF n = 0 \/ busy(t) \/ fault = "memory" THEN t
     ELSE IF fault = "output"
     THEN [t EXCEPT !.out = @ \o bytes, !.flight = @ + n, !.repeated = TRUE]
     ELSE [t EXCEPT !.out = @ \o bytes, !.flight = @ + n, !.chain = removed(@, n)]

(* write(): one buffer after the other is filled and offered.  Without     *)
(* heap for the next buffer the rest is not accepted.                      *)
writeTurn(x, heap, fault) ==
  LET t    == x.t
      last == Len(t.chain)
      w    == Min({x.left, Mss - Len(t.chain[last])})
      more == [i \in 1..w |-> t.written + i]
      u    == sendBuffer([t EXCEPT !.chain[last] = @ \o more, !.written = @ + w], fault)
      full == Len(u.chain[Len(u.chain)]) = Mss
      on   == x.left > w /\ (full => heap)
  IN IF ~x.on THEN x
     ELSE [t |-> IF on /\ full THEN [u EXCEPT !.chain = Append(@, <<>>)] ELSE u,
           left |-> x.left - w, on |-> on]

(* All turns but the first write a byte or are the last.                   *)
written(t, n, heap, fault) ==
  LET turn[k \in 0..(n + 1)] == IF k = 0 THEN [t |-> t, left |-> n, on |-> TRUE]
                                ELSE writeTurn(turn[k - 1], heap, fault)
  IN  turn[n + 1].t

-------------------------------------------------------------------------------
Data(n, p) ==
  /\ client = "open" /\ rx.received + n <= MaxRx
  /\ rx' = rxData([rx EXCEPT !.received = @ + n], [i \in 1..n |-> rx.received + i], p)
  /\ UNCHANGED <<tx, client>>

(* A request from loop().                                                  *)
Request(q) ==
  /\ client = "open"
  /\ rx' = request(rx, q)
  /\ UNCHANGED <<tx, client>>

Faults == {"none", "memory", "output"}
failsOnce(fault) == fault = "output" => ~tx.repeated      \* a bound

Write(n, heap, fault) ==
  /\ client = "open" /\ tx.written + n <= MaxTx /\ failsOnce(fault)
  /\ tx' = written(tx, n, heap, fault)
  /\ UNCHANGED <<rx, client>>

(* onAck, onPoll and the turns of flush().                                 *)
Ack(fault) ==
  /\ client = "open" /\ tx.flight > 0 /\ failsOnce(fault)
  /\ tx' = sendBuffer([tx EXCEPT !.flight = 0], fault)
  /\ UNCHANGED <<rx, client>>
Poll(fault) ==
  /\ client = "open" /\ failsOnce(fault)
  /\ tx' = sendBuffer(tx, fault)
  /\ UNCHANGED <<rx, client>>

(* stop(): a pending request ends with done(false).                        *)
Stop ==
  /\ client = "open"
  /\ client' = "closing"
  /\ rx' = request(rx, [mode |-> "none", size |-> 0])
  /\ UNCHANGED tx

(* onDisconnect deletes the client and, unless the program objects, this.  *)
Disconnect ==
  /\ client # "gone"
  /\ client' = "gone"
  /\ UNCHANGED <<rx, tx>>

Next ==
  \/ \E n \in 1..MaxSegment, p \in Programs : Data(n, p)
  \/ \E q \in Requests : Request(q)
  \/ \E n \in 1..MaxTx, heap \in BOOLEAN, fault \in Faults : Write(n, heap, fault)
  \/ \E fault \in Faults : Ack(fault) \/ Poll(fault)
  \/ Stop \/ Disconnect

Spec == Init /\ [][Next]_vars

-------------------------------------------------------------------------------
UpTo(n) == [i \in 1..n |-> i]

(* Whatever the program reads, in whatever mode, and however the stream is *)
(* cut: it is given every byte once and in order, and what it writes       *)
(* reaches lwIP so, unless tcp_output() failed.                            *)
BytesInOrder ==
  /\ rx.given \o rx.buffer = UpTo(rx.received)
  /\ tx.repeated \/ tx.out \o FlattenSeq(tx.chain) = UpTo(tx.written)
===============================================================================
