------------------------------ MODULE WebResponse ------------------------------
(***************************************************************************)
(* One HTTP response of ESP Async WebServer (WebResponses.cpp) on its way  *)
(* through the send buffer of the connection.  A response is sent piece by *)
(* piece: _respond() starts it, and each time the peer has acknowledged    *)
(* everything, or lwIP polls, _ack() continues it.                         *)
(*                                                                         *)
(* Bytes are numbers: 1..HeadLen the head, then the content.  The bytes    *)
(* around a chunk are the tokens Frame (its size line, FrameHead bytes)    *)
(* and Crlf (FrameTail).  Templates are in WebTemplate.  The AsyncClient   *)
(* is reduced to its send buffer and its busy flag (see AsyncClient).      *)
(***************************************************************************)
EXTENDS Integers, SequencesExt

CONSTANTS SndBufs,         \* possible bytes the connection holds unacknowledged,
                           \* more than FrameHead + FrameTail
          ContinueLens,    \* bytes of "100 Continue" in flight when it starts
          HeadLen,         \* bytes of the head, at least 1
          ContentLens,     \* possible lengths of the content
          FrameHead, FrameTail,  \* around a chunk; 6 and 2 in the code
          MaxFaults        \* bound: faults of a behaviour

Frame == 0
Crlf  == -1

Kinds  == {"basic",      \* AsyncBasicResponse: a string
           "length",     \* a file, a stream or PROGMEM of a known length
           "print",      \* AsyncResponseStream: printed to before it is sent
           "chunked",    \* AsyncChunkedResponse
           "until"}      \* AsyncCallbackResponse without a length
Faults == {"write",      \* tcp_write() or tcp_output() fails
           "malloc",     \* no memory for the piece
           "tryAgain",   \* the content says RESPONSE_TRY_AGAIN
           "source"}     \* the file is not valid

(* r, the response and the connection:                                     *)
(*   kind, state, contentLength, sentLength, ackedLength, writtenLength    *)
(*   head, source    bytes of them that were not taken yet                 *)
(*   wire            bytes given to lwIP                                   *)
(*   flight, acked   bytes of wire the peer has not acknowledged, and the  *)
(*                   ones it has since _sent_cb last ran                   *)
(*   busy, closing   _pcb_busy, and whether the close has been asked for   *)
(*   sndbuf          room for bytes in flight; "100 Continue" may be there *)
(* and the history: faults, lost (a write failed), headHeld (the piece     *)
(* that the head goes with had to wait, or had no room beside the head).   *)
VARIABLE r

Response(k, n, buf, cont) ==
  [kind |-> k, sndbuf |-> buf, state |-> "setup",
   contentLength |-> IF k \in {"basic", "length"} THEN n ELSE 0,
   sentLength |-> 0, ackedLength |-> 0, writtenLength |-> 0,
   head |-> [i \in 1..HeadLen |-> i],
   source |-> IF k = "print" THEN <<>> ELSE [i \in 1..n |-> HeadLen + i],
   total |-> HeadLen + n, wire |-> <<>>, flight |-> cont, acked |-> 0,
   busy |-> cont > 0, closing |-> FALSE,
   faults |-> 0, lost |-> FALSE, headHeld |-> FALSE]

Init == \E k \in Kinds, n \in ContentLens, buf \in SndBufs, cont \in ContinueLens :
          r = Response(k, n, buf, cont)

-------------------------------------------------------------------------------
space(s)   == s.sndbuf - s.flight
canSend(s) == ~s.busy /\ space(s) > 0
started(s) == s.state # "setup"

(* Defect: RESPONSE_WAIT_ACK counts as the end.                            *)
finishedEarly(s) == s.state \in {"waitAck", "end", "failed"}

finished(s) == s.state \in {"end", "failed"}

chunked(s)  == s.kind = "chunked"
sendsLength(s) == s.kind \notin {"chunked", "until"}
close(s)   == [s EXCEPT !.closing = TRUE]

Take(q, n) == SubSeq(q, 1, IF n < Len(q) THEN n ELSE Len(q))
Drop(q, n) == SubSeq(q, n + 1, Len(q))

(* AsyncClient::write: what fits is taken, the rest is not.                *)
write(s, bytes, fault) ==
  IF fault = "write" THEN [s EXCEPT !.lost = @ \/ bytes # <<>>]
  ELSE LET n == Len(Take(bytes, space(s)))
       IN  IF n = 0 THEN s
           ELSE [s EXCEPT !.wire = @ \o Take(bytes, n), !.flight = @ + n,
                          !.writtenLength = @ + n, !.busy = TRUE]

(* AsyncBasicResponse::_respond                                            *)
basicRespond(s, fault) ==
  LET room == space(s)
      all  == s.head \o s.source
      rest == [s EXCEPT !.head = <<>>, !.source = Drop(all, room), !.state = "content"]
  IN  CASE room >= Len(all) ->
             write([s EXCEPT !.head = <<>>, !.source = <<>>, !.state = "waitAck"],
                   all, fault)
        [] room < Len(all) /\ room > 0 /\ room < HeadLen ->
             write([rest EXCEPT !.contentLength = @ + HeadLen - room],
                   Take(all, room), fault)
        [] room < Len(all) /\ room > HeadLen ->
             write([rest EXCEPT !.sentLength = @ + room - HeadLen],
                   Take(all, room), fault)
        [] OTHER ->
             [s EXCEPT !.head = <<>>, !.source = all, !.state = "content",
                       !.contentLength = @ + HeadLen]

(* AsyncBasicResponse::_ack                                                *)
basicAck(s, len, fault) ==
  LET a == [s EXCEPT !.ackedLength = @ + len]
      available == a.contentLength - a.sentLength
      room      == space(a)
  IN  CASE a.state = "content" /\ room > available ->
             write([a EXCEPT !.source = <<>>, !.state = "waitAck"],
                   Take(a.source, available), fault)
        [] a.state = "content" /\ room <= available ->
             write([a EXCEPT !.source = Drop(@, room), !.sentLength = @ + room],
                   Take(a.source, room), fault)
        [] a.state = "waitAck" /\ a.ackedLength >= a.writtenLength ->
             [a EXCEPT !.state = "end"]
        [] OTHER -> a

(* The piece of content that _ack asks for, of at most n bytes.            *)
chunk(data) == [i \in 1..FrameHead |-> Frame] \o data \o [i \in 1..FrameTail |-> Crlf]

(* Defect: what was read is not counted for a chunked response.            *)
chunkNotTaken(s, room, fault) ==
  LET data == Take(s.source, room - FrameHead - FrameTail)
      out  == s.head \o chunk(data)
      w    == write([s EXCEPT !.head = <<>>], out, fault)
  IN  [w EXCEPT !.state = IF data = <<>> THEN "waitAck" ELSE @]

chunkedPiece(s, room, fault) ==
  LET data == Take(s.source, room - FrameHead - FrameTail)
      out  == s.head \o chunk(data)
      w    == write([s EXCEPT !.head = <<>>, !.source = Drop(@, Len(data)),
                              !.sentLength = @ + Len(data)], out, fault)
  IN  [w EXCEPT !.state = IF data = <<>> THEN "waitAck" ELSE @]

plainPiece(s, room, fault) ==
  LET left == s.contentLength - s.sentLength
      data == Take(s.source, IF sendsLength(s) /\ left < room THEN left ELSE room)
      out  == s.head \o data
      w    == write([s EXCEPT !.head = <<>>, !.source = Drop(@, Len(data)),
                              !.sentLength = @ + Len(data)], out, fault)
  IN  [w EXCEPT !.state =
         IF (~sendsLength(s) /\ out = <<>>) \/ w.sentLength = w.contentLength
           THEN "waitAck" ELSE @]

(* AsyncAbstractResponse::_ack in RESPONSE_CONTENT.  The head is counted   *)
(* against room only in the call that left RESPONSE_HEADERS.               *)
piece(s, room, fault) ==
  LET narrow == chunked(s) /\ room <= FrameHead + FrameTail
      waits  == narrow \/ fault \in {"malloc", "tryAgain"}
      exact  == s.kind = "until" /\ room = 0
      h      == [s EXCEPT !.headHeld = @ \/ (s.head # <<>> /\ (waits \/ exact))]
  IN  CASE waits -> h
        [] ~waits /\ chunked(s)  -> chunkedPiece(h, room, fault)
        [] ~waits /\ ~chunked(s) -> plainPiece(h, room, fault)

(* AsyncAbstractResponse::_ack                                             *)
abstractAck(s, len, fault) ==
  LET a    == [s EXCEPT !.ackedLength = @ + len]
      room == space(a)
  IN  CASE fault = "source" -> close([s EXCEPT !.state = "failed"])
        [] fault # "source" /\ a.state = "headers" /\ room < Len(a.head) ->
             write([a EXCEPT !.head = Drop(@, room)], Take(a.head, room), fault)
        [] fault # "source" /\ a.state = "headers" /\ room >= Len(a.head) ->
             piece([a EXCEPT !.state = "content"], room - Len(a.head), fault)
        [] fault # "source" /\ a.state = "content" -> piece(a, room, fault)
        [] fault # "source" /\ a.state = "waitAck"
             /\ (~sendsLength(a) \/ a.ackedLength >= a.writtenLength) ->
             LET e == [a EXCEPT !.state = "end"]
             IN  IF a.kind = "until" THEN close(e) ELSE e
        [] OTHER -> a

ack(s, len, fault) ==
  IF s.kind = "basic" THEN basicAck(s, len, fault) ELSE abstractAck(s, len, fault)

respond(s, fault) ==
  IF s.kind = "basic" THEN basicRespond(s, fault)
                      ELSE abstractAck([s EXCEPT !.state = "headers"], 0, fault)

-------------------------------------------------------------------------------
(* A call of the code with the fault it meets.                             *)
Step(next(_)) ==
  \/ r' = next("none")
  \/ \E f \in Faults : /\ r.faults < MaxFaults
                       /\ r' = [next(f) EXCEPT !.faults = @ + 1]

(* AsyncResponseStream::write, which takes nothing once started.           *)
Printed ==
  /\ r.kind = "print" /\ ~started(r) /\ HeadLen + Len(r.source) < r.total
  /\ r' = [r EXCEPT !.source = Append(@, HeadLen + Len(@) + 1), !.contentLength = @ + 1]

Respond ==
  /\ ~started(r)
  /\ r.kind = "print" => HeadLen + Len(r.source) = r.total
  /\ LET next(f) == respond(r, f) IN Step(next)

(* The peer acknowledges n bytes; _onAck runs when it has all of them.     *)
Acked(n) ==
  LET a == [r EXCEPT !.flight = @ - n, !.acked = @ + n]
      d == [a EXCEPT !.busy = FALSE, !.acked = 0]
      next(f) == IF started(d) /\ ~finished(d) THEN ack(d, a.acked, f) ELSE d
  IN  IF a.flight > 0 THEN r' = a ELSE Step(next)

(* AsyncWebServerRequest::_onPoll                                          *)
Poll ==
  /\ started(r) /\ canSend(r) /\ ~finished(r) /\ ~r.closing
  /\ LET next(f) == ack(r, 0, f) IN Step(next)

(* AsyncWebServerRequest::_onTimeout: the peer acknowledges nothing.       *)
Timeout == r.busy /\ ~r.closing /\ r' = close([r EXCEPT !.busy = FALSE])

AckedAny == \E n \in 1..r.flight : Acked(n)

Next == Printed \/ Respond \/ AckedAny \/ Poll \/ Timeout

Spec     == Init /\ [][Next]_r
FairSpec == Spec /\ WF_r(Respond \/ Printed) /\ WF_r(AckedAny) /\ WF_r(Poll)

-------------------------------------------------------------------------------
TypeOK ==
  /\ r.state \in {"setup", "headers", "content", "waitAck", "end", "failed"}
  /\ r.flight \in 0..r.sndbuf /\ r.kind \in Kinds
  /\ {r.sentLength, r.contentLength, r.writtenLength, r.ackedLength} \subseteq Nat

isByte(b) == b \notin {Frame, Crlf}

(* The bytes among the first tokens of w.                                  *)
bytesIn(w) ==
  LET bytes[n \in 0..Len(w)] ==
        IF n = 0 THEN <<>>
        ELSE IF isByte(w[n]) THEN Append(bytes[n - 1], w[n]) ELSE bytes[n - 1]
  IN  bytes[Len(w)]

Bytes == bytesIn(r.wire)

(* The peer gets the bytes of the response in their order, none missing    *)
(* and none twice, and all of them, whole chunks, by the time nothing more *)
(* is sent - unless a write fails, or a piece of content had to wait while *)
(* the head was unsent, after which the head is not counted against room.  *)
WholeResponse ==
  ~r.lost /\ ~r.headHeld =>
    /\ Bytes = [i \in 1..Len(Bytes) |-> i]
    /\ r.state \in {"waitAck", "end"} => Len(Bytes) = r.total
    /\ chunked(r) => \E n \in 0..Len(r.wire) :
                       Len(r.wire) = Len(Bytes) + n * (FrameHead + FrameTail)

(* A response that is begun is sent to its end, or the connection closed.  *)
Completes == started(r) ~> r.state \in {"end", "failed"} \/ r.closing
===============================================================================
