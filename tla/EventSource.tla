----------------------------- MODULE EventSource ------------------------------
(***************************************************************************)
(* Server-sent events of ESP Async WebServer (AsyncEventSource.cpp): the   *)
(* queue of each client, over a connection whose acknowledgements count    *)
(* bytes and not events.  The text of an event is left out but for its     *)
(* length; the accounting of the connection is that of AsyncClient.        *)
(***************************************************************************)
EXTENDS Integers, SequencesExt, FiniteSetsExt

CONSTANTS Clients,      \* the browsers that may come
          Lens,         \* lengths of events in bytes, of 1..SndBuf
          SndBuf,       \* room of a connection
          W,            \* modulus of the lengths, size_t in the code: above SndBuf
          MaxEvents     \* bound: events the program sends

(* An event in a queue.  id numbers the events in the order they are made. *)
Message(e) == [id |-> e.id, len |-> e.len, sent |-> 0, acked |-> 0]

(* A connection; life is "none", "head" (the response was written), "live" *)
(* or "gone".  flight holds a byte as the id of its event (0: the head), in*)
(* the order lwIP got them, got what the browser has acknowledged; busy,   *)
(* unacked, unsent and ackedLen are AsyncClient's; owed are the events     *)
(* that were queued for the client.                                        *)
NewClient == [life |-> "none", queue |-> <<>>, flight |-> <<>>, got |-> <<>>, busy |-> FALSE,
              unacked |-> 0, unsent |-> 0, ackedLen |-> 0, closing |-> FALSE, owed |-> {}]

VARIABLES es,       \* the connections
          made      \* events made so far

vars == <<es, made>>

Init == es = [c \in Clients |-> NewClient] /\ made = 0

space(k) == SndBuf - Len(k.flight)

(* AsyncClient::add of n bytes of an event, and what was added.            *)
added(k, n) == Min({n, space(k)})
add(k, id, n) ==
  [k EXCEPT !.flight = @ \o [i \in 1..added(k, n) |-> id], !.unsent = (@ + added(k, n)) % W]

flush(k) == [k EXCEPT !.busy = TRUE, !.unacked = (@ + k.unsent) % W, !.unsent = 0]

isSent(m)   == m.sent = m.len
finished(m) == m.acked = m.len

-------------------------------------------------------------------------------
(* Defect: what fits is sent.                                              *)
sendWhatFits(k, i) ==
  LET m == k.queue[i]
      n == m.len - m.sent
      t == [add(k, m.id, n) EXCEPT !.queue[i].sent = @ + added(k, n)]
  IN  IF ~t.busy /\ space(t) > 0 THEN flush(t) ELSE t

(* AsyncEventSourceMessage::send of the i-th event; tcp_write() works.     *)
send(k, i) ==
  LET m == k.queue[i]
      n == m.len - m.sent
      t == [add(k, m.id, n) EXCEPT !.queue[i].sent = @ + added(k, n)]
  IN  IF space(k) < n THEN k
      ELSE IF ~t.busy /\ space(t) > 0 THEN flush(t) ELSE t

(* What was acknowledged leaves the front of the queue.                    *)
unfinished(q) ==
  LET keep == SelectInSeq(q, LAMBDA m : ~finished(m))
  IN  IF keep = 0 THEN <<>> ELSE SubSeq(q, keep, Len(q))

(* Events that do not fit are passed over; a later one may fit.            *)
runQueue(k) ==
  LET q == unfinished(k.queue)
      turn[i \in 0..Len(q)] ==
        IF i = 0 THEN [k EXCEPT !.queue = q]
        ELSE IF isSent(turn[i - 1].queue[i]) THEN turn[i - 1] ELSE send(turn[i - 1], i)
  IN  turn[Len(q)]

queueMessage(k, e) ==
  IF k.life # "live" THEN k
  ELSE runQueue([k EXCEPT !.queue = Append(@, Message(e)), !.owed = @ \cup {e}])

(* AsyncEventSourceMessage::ack of the event at the front, which leaves    *)
(* when it is acknowledged, and event by event: a turn ends the loop or    *)
(* takes one out.                                                          *)
ack(t) ==
  LET m     == Head(t.queue)
      acked == m.acked + t.len
  IN  IF t.len = 0 \/ t.queue = <<>> THEN t
      ELSE IF acked >= m.len THEN [queue |-> Tail(t.queue), len |-> acked - m.len]
      ELSE [queue |-> [t.queue EXCEPT ![1].acked = acked], len |-> 0]

onAck(q, len) ==
  LET turn[i \in 0..Len(q)] == IF i = 0 THEN [queue |-> q, len |-> len] ELSE ack(turn[i - 1])
  IN  turn[Len(q)].queue

-------------------------------------------------------------------------------
Live(c) == es[c].life = "live"

(* handleRequest: the head of the response, one byte of it, is written.    *)
Request(c) ==
  /\ es[c].life = "none"
  /\ es' = [es EXCEPT ![c] = flush(add([@ EXCEPT !.life = "head"], 0, 1))]
  /\ UNCHANGED made

(* AsyncEventSource::send, to every client that is connected.              *)
Send ==
  /\ made < MaxEvents /\ \E c \in Clients : Live(c)
  /\ made' = made + 1
  /\ \E n \in Lens : es' = [c \in Clients |-> queueMessage(es[c], [id |-> made + 1, len |-> n])]

(* AsyncClient::_sent: n more bytes are acknowledged.  The handler hears   *)
(* of it when all that was sent is; the first one is the response's, and   *)
(* makes the AsyncEventSourceClient.                                       *)
Ack(c, n) ==
  LET k == [es[c] EXCEPT !.got = @ \o SubSeq(es[c].flight, 1, n),
                         !.flight = SubSeq(@, n + 1, Len(@)),
                         !.unacked = (@ - n) % W, !.ackedLen = @ + n]
      heard == [k EXCEPT !.busy = FALSE, !.ackedLen = 0]
  IN /\ es[c].life \in {"head", "live"}
     /\ es' = [es EXCEPT ![c] =
                 IF k.unacked # 0 THEN k
                 ELSE IF k.life = "head" THEN [heard EXCEPT !.life = "live"]
                 ELSE [runQueue([k EXCEPT !.busy = FALSE, !.queue = onAck(@, k.ackedLen)])
                         EXCEPT !.ackedLen = 0]]
     /\ UNCHANGED made

Poll(c) ==
  /\ Live(c)
  /\ es' = [es EXCEPT ![c] =
              IF @.closing THEN [NewClient EXCEPT !.life = "gone"]
              ELSE IF @.queue # <<>> THEN runQueue(@) ELSE @]
  /\ UNCHANGED made

(* close() of the program: a request that _poll() serves.                  *)
Close(c) ==
  /\ Live(c)
  /\ es' = [es EXCEPT ![c].closing = TRUE]
  /\ UNCHANGED made

(* _onTimeout and every other end of the connection, _onDisconnect.        *)
Disconnect(c) ==
  /\ es[c].life \in {"head", "live"}
  /\ es' = [es EXCEPT ![c] = [NewClient EXCEPT !.life = "gone"]]
  /\ UNCHANGED made

Next ==
  \/ Send
  \/ \E c \in Clients : \/ Request(c) \/ Poll(c) \/ Close(c) \/ Disconnect(c)
                        \/ \E n \in 1..Len(es[c].flight) : Ack(c, n)

Spec == Init /\ [][Next]_vars

-------------------------------------------------------------------------------
Stream(k) == k.got \o k.flight

(* An event that was sent is one piece of the stream: never cut, never     *)
(* repeated, never mixed with another, although it may have waited for     *)
(* room and other events may have overtaken it.                            *)
EventsWhole ==
  \A c \in Clients : \A e \in es[c].owed :
    LET s  == Stream(es[c])
        at == {i \in DOMAIN s : s[i] = e.id}
    IN  at = {} \/ \E b \in DOMAIN s : at = b..(b + e.len - 1)

(* "If the whole message is now acked..." (AsyncEventSourceMessage::ack):  *)
(* an event that left the queue as acknowledged was sent.                  *)
AckedWasSent ==
  \A c \in Clients : \A e \in es[c].owed :
    \/ \E i \in DOMAIN es[c].queue : es[c].queue[i].id = e.id
    \/ \E i \in DOMAIN Stream(es[c]) : Stream(es[c])[i] = e.id
===============================================================================
