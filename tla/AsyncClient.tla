------------------------------ MODULE AsyncClient ------------------------------
(***************************************************************************)
(* One connection of ESPAsyncTCP (ESPAsyncTCP.cpp, without SSL): the       *)
(* AsyncClient object, its ACErrorTracker, the AsyncServer that may have   *)
(* made it, and the user whose handlers run inside lwIP's callbacks.       *)
(*                                                                         *)
(* lwIP runs callbacks one at a time on the ESP8266, so each callback is   *)
(* one action, with everything the user's handlers do inside it.  An       *)
(* object is used for one connection.  The receive window and the rest of  *)
(* the configuration of a connection are left out.                         *)
(***************************************************************************)
EXTENDS Integers

CONSTANTS SndBuf,              \* room of lwIP's send buffer
          W,                   \* modulus of the lengths, size_t in the code
          AckTimeout,          \* _ack_timeout, in ticks
          Reactions            \* what the user's handlers may do

ASSUME WAssumption == W \in Nat /\ SndBuf \in Nat /\ SndBuf < W
ASSUME ReactionsAssumption ==
  Reactions \subseteq {"none", "add", "send", "write", "writeFails", "outputFails",
                       "close", "closeNow", "closeAborts"}
ASSUME TimeoutAssumption == AckTimeout \in Nat \ {0}

(* c, the object, its tracker and its connection:                          *)
(*   obj      "alive" or "deleted"                                         *)
(*   deletes  whether the user deletes the object when it hears of the end *)
(*   pcb      whether _pcb is set                                          *)
(*   tcp      the connection that has the object as its argument:          *)
(*            "none", "resolving", "connecting", "est"                     *)
(*   busy, closeReq, unacked, unsent   _pcb_busy, _close_pcb, _tx_..._len  *)
(*   age      ticks since _pcb_sent_at, up to AckTimeout                   *)
(*   flight   bytes lwIP took and the peer has not acknowledged            *)
(*   closeError, errored               of the tracker                      *)
(*   aborted  tcp_abort() was called in the callback that is running       *)
(* and the history: opened, discards (calls of _discard_cb, at most 2),    *)
(* outputFailed, silent (a connect() failed after the name was found),     *)
(* badUse (a deleted object was used), badReturn (of a callback).          *)
VARIABLES listening, c

vars == <<listening, c>>

ClientState ==
  [obj : {"alive", "deleted"}, deletes : BOOLEAN, pcb : BOOLEAN,
   busy : BOOLEAN, closeReq : BOOLEAN,
   tcp : {"none", "resolving", "connecting", "est"}, age : 0..AckTimeout,
   unacked : 0..(W-1), unsent : 0..(W-1), flight : 0..SndBuf,
   closeError : {"ok", "abrt", "rst"}, errored : BOOLEAN, aborted : BOOLEAN,
   opened : BOOLEAN, discards : 0..2, outputFailed : BOOLEAN, silent : BOOLEAN,
   badUse : BOOLEAN, badReturn : BOOLEAN]

TypeOK == listening \in BOOLEAN /\ c \in ClientState

-------------------------------------------------------------------------------
(* The tracker.  It outlives the object for the callback that is running.  *)
setCloseError(s, e) == IF s.errored THEN s ELSE [s EXCEPT !.closeError = e]
setErrored(s)       == [s EXCEPT !.errored = TRUE]

(* The callback returns to lwIP, which must be told of a tcp_abort().      *)
getCallbackCloseError(s) ==
  LET e == IF s.errored THEN "ok" ELSE s.closeError
  IN  [s EXCEPT !.errored = @ \/ e = "abrt", !.aborted = FALSE,
                !.badReturn = @ \/ ((e = "abrt") # s.aborted)]

(* The object is used: next is its new state.                              *)
Use(s, next) == IF s.obj = "deleted" THEN [s EXCEPT !.badUse = TRUE] ELSE next

hasClient(s) == s.obj = "alive"

(* _discard_cb; _pcb is NULL here, so ~AsyncClient() closes nothing.       *)
discard(s) ==
  [s EXCEPT !.discards = IF @ = 2 THEN 2 ELSE @ + 1,
            !.obj = IF s.deletes THEN "deleted" ELSE @]

(* _s_error and _error: lwIP has freed the connection.                     *)
sError(s, e) ==
  discard([setErrored(setCloseError(s, e)) EXCEPT !.pcb = FALSE, !.tcp = "none"])

(* abort(), which only _close() calls, with the callbacks cleared: lwIP    *)
(* frees the connection.                                                   *)
abort(s) ==
  IF ~s.pcb THEN s
  ELSE setCloseError([s EXCEPT !.aborted = TRUE, !.tcp = "none", !.flight = 0,
                               !.pcb = FALSE], "abrt")

(* Defect: _pcb is still set when the user hears of the end.               *)
closedTwice(s, ok) ==
  IF ~s.pcb THEN s
  ELSE discard(IF ok THEN setCloseError([s EXCEPT !.tcp = "none", !.flight = 0], "ok")
                     ELSE abort(s))

close_(s, ok) ==
  IF ~s.pcb THEN s
  ELSE LET t == IF ok THEN setCloseError([s EXCEPT !.tcp = "none", !.flight = 0], "ok")
                      ELSE abort(s)
       IN  discard([t EXCEPT !.pcb = FALSE])

close(s, now, ok) == IF now THEN close_(s, ok) ELSE [s EXCEPT !.closeReq = TRUE]

connected(s) == s.pcb /\ s.tcp = "est"
space(s)     == IF connected(s) THEN SndBuf - s.flight ELSE 0

(* One byte is added; tcp_write() may fail.                                *)
add(s, ok) ==
  IF ok /\ space(s) > 0
    THEN [s EXCEPT !.unsent = (@ + 1) % W, !.flight = @ + 1]
    ELSE s

(* Defect: what was unsent is counted again by the next send().            *)
unsentKept(s, ok) ==
  IF ok THEN [s EXCEPT !.busy = TRUE, !.age = 0, !.unacked = (@ + s.unsent) % W]
        ELSE [s EXCEPT !.unsent = 0, !.outputFailed = @ \/ s.unsent > 0]

(* tcp_output(); when it fails the bytes are forgotten, not withdrawn.     *)
send(s, ok) ==
  IF ok THEN [s EXCEPT !.busy = TRUE, !.age = 0, !.unsent = 0,
                       !.unacked = (@ + s.unsent) % W]
        ELSE [s EXCEPT !.unsent = 0, !.outputFailed = @ \/ s.unsent > 0]

write(s, ok, outputOk) ==
  IF ok /\ space(s) > 0 THEN send(add(s, ok), outputOk) ELSE s

(* One handler of the user runs.                                           *)
React(s, r) ==
  Use(s, CASE r = "none"        -> s
           [] r = "add"         -> add(s, TRUE)
           [] r = "send"        -> IF s.pcb THEN send(s, TRUE) ELSE s
           [] r = "write"       -> write(s, TRUE, TRUE)
           [] r = "writeFails"  -> write(s, FALSE, TRUE)
           [] r = "outputFails" -> write(s, TRUE, FALSE)
           [] r = "close"       -> close(s, FALSE, TRUE)
           [] r = "closeNow"    -> close(s, TRUE, TRUE)
           [] r = "closeAborts" -> close(s, TRUE, FALSE))

-------------------------------------------------------------------------------
Init ==
  /\ listening = FALSE
  /\ \E deletes \in BOOLEAN :
       c = [obj |-> "alive", deletes |-> deletes, pcb |-> FALSE, busy |-> FALSE,
            closeReq |-> FALSE, tcp |-> "none", age |-> 0, unacked |-> 0,
            unsent |-> 0, flight |-> 0, closeError |-> "ok", errored |-> FALSE,
            aborted |-> FALSE, opened |-> FALSE, discards |-> 0,
            outputFailed |-> FALSE, silent |-> FALSE, badUse |-> FALSE,
            badReturn |-> FALSE]

(* AsyncServer::begin() where tcp_bind() and tcp_listen() succeed, end().  *)
Begin == ~listening /\ listening' = TRUE  /\ UNCHANGED c
End   ==  listening /\ listening' = FALSE /\ UNCHANGED c

(* AsyncServer::_accept: the object is made around the connection, and its *)
(* first handler runs.                                                     *)
Accept(r) ==
  /\ listening /\ ~c.opened
  /\ c' = getCallbackCloseError(
            React([c EXCEPT !.opened = TRUE, !.pcb = TRUE, !.tcp = "est"], r))
  /\ UNCHANGED listening

(* connect(host): the name is looked up first.                             *)
Resolve ==
  /\ ~c.opened
  /\ c' = [c EXCEPT !.opened = TRUE, !.tcp = "resolving"]
  /\ UNCHANGED listening

(* connect(ip); _pcb is not set before _connected().                       *)
Connect ==
  /\ ~c.opened
  /\ c' = [c EXCEPT !.opened = TRUE, !.tcp = "connecting"]
  /\ UNCHANGED listening

(* _dns_found; what connect() returns is ignored.                          *)
DnsFound(found, connects) ==
  /\ c.tcp = "resolving"
  /\ c' = CASE found /\ connects  -> [c EXCEPT !.tcp = "connecting"]
            [] found /\ ~connects -> [c EXCEPT !.tcp = "none", !.silent = TRUE]
            [] ~found             -> discard([c EXCEPT !.tcp = "none"])
  /\ UNCHANGED listening

Connected(r) ==
  /\ c.tcp = "connecting"
  /\ c' = getCallbackCloseError(
            React([c EXCEPT !.tcp = "est", !.pcb = TRUE, !.busy = FALSE], r))
  /\ UNCHANGED listening

(* _connected and _recv with an error: the callbacks are cleared.          *)
CallbackError ==
  /\ c.tcp \in {"connecting", "est"}
  /\ c' = getCallbackCloseError(sError(c, "rst"))
  /\ UNCHANGED listening

Error ==
  /\ c.tcp \in {"connecting", "est"}
  /\ c' = sError(c, "rst")
  /\ UNCHANGED listening

(* Defect: the object is used whether or not the handler deleted it.       *)
sentUnchecked(s, n, r) ==
  LET a == [s EXCEPT !.unacked = (@ - n) % W, !.flight = @ - n]
      t == React(setCloseError([a EXCEPT !.busy = FALSE], "ok"), r)
  IN  IF a.unacked = 0 THEN Use(t, t) ELSE a

(* _sent: n more bytes are acknowledged; _sent_cb only when all are.       *)
sent(s, n, r) ==
  LET a == [s EXCEPT !.unacked = (@ - n) % W, !.flight = @ - n]
      t == React(setCloseError([a EXCEPT !.busy = FALSE], "ok"), r)
  IN  IF a.unacked # 0 THEN a ELSE IF hasClient(t) THEN Use(t, t) ELSE t

Sent(n, r) ==
  /\ c.tcp = "est" /\ n <= c.flight
  /\ c' = getCallbackCloseError(sent(c, n, r))
  /\ UNCHANGED listening

(* _recv of a chain of two buffers: _recv_cb for each while there is an    *)
(* object.                                                                 *)
Recv(r1, r2) ==
  /\ c.tcp = "est"
  /\ LET t == React(setCloseError(c, "ok"), r1)
     IN  c' = getCallbackCloseError(IF hasClient(t) THEN React(t, r2) ELSE t)
  /\ UNCHANGED listening

(* _recv without a buffer: the peer has closed.                            *)
PeerCloses(ok) ==
  /\ c.tcp = "est"
  /\ c' = getCallbackCloseError(close_(c, ok))
  /\ UNCHANGED listening

(* Defect: a pending close request waits for the acknowledgement timeout.  *)
polledTimeoutFirst(s, r, ok, rxTimeout) ==
  CASE s.busy                   -> React(s, r)
    [] ~s.busy /\ s.closeReq    -> close_([s EXCEPT !.closeReq = FALSE], ok)
    [] OTHER                    -> React(s, r)

(* _poll; rxTimeout: _rx_since_timeout is set and has passed.              *)
poll(s, r, ok, rxTimeout) ==
  CASE s.closeReq -> close_([s EXCEPT !.closeReq = FALSE], ok)
    [] ~s.closeReq /\ s.busy /\ s.age = AckTimeout -> React([s EXCEPT !.busy = FALSE], r)
    [] OTHER -> IF rxTimeout THEN close_(s, ok) ELSE React(s, r)

Poll(r, ok, rxTimeout) ==
  /\ c.tcp = "est"
  /\ c' = getCallbackCloseError(poll(setCloseError(c, "ok"), r, ok, rxTimeout))
  /\ UNCHANGED listening

Tick ==
  /\ c.busy /\ c.age < AckTimeout
  /\ c' = [c EXCEPT !.age = @ + 1]
  /\ UNCHANGED listening

(* The user calls the object from loop().                                  *)
Foreground(r) ==
  /\ c.obj = "alive" /\ c.opened
  /\ c' = [React(c, r) EXCEPT !.aborted = FALSE]
  /\ UNCHANGED listening

(* ~AsyncClient() from loop(), by a user that does not delete the object   *)
(* when it hears of the end.  One that is connecting must not be deleted:  *)
(* its callbacks stay registered.                                          *)
Destroy(ok) ==
  /\ c.obj = "alive" /\ ~c.deletes /\ c.opened
  /\ c.tcp \notin {"resolving", "connecting"}
  /\ c' = [close_(c, ok) EXCEPT !.obj = "deleted", !.aborted = FALSE]
  /\ UNCHANGED listening

PollAny == \E r \in Reactions, ok, x \in BOOLEAN : Poll(r, ok, x)

Next ==
  \/ Begin \/ End \/ Resolve \/ Connect \/ CallbackError \/ Error \/ Tick \/ PollAny
  \/ \E r \in Reactions : Accept(r) \/ Connected(r) \/ Foreground(r)
  \/ \E found, connects \in BOOLEAN : DnsFound(found, connects)
  \/ \E n \in 1..SndBuf, r \in Reactions : Sent(n, r)
  \/ \E r1, r2 \in Reactions : Recv(r1, r2)
  \/ \E ok \in BOOLEAN : PeerCloses(ok) \/ Destroy(ok)

Spec     == Init /\ [][Next]_vars
FairSpec == Spec /\ WF_vars(PollAny)

-------------------------------------------------------------------------------
(* No method and no callback runs on an object that a handler deleted, the *)
(* one that is running included (hasClient() in _sent and _recv), and lwIP *)
(* is told of every connection that a close() in its callback had to abort *)
(* and of no other, although the object that knows may be gone by then:    *)
(* either would be a use of freed memory (ACErrorTracker).                 *)
CallbacksSafe == ~c.badUse /\ ~c.badReturn

(* The user hears exactly once of the end of every connection it began,    *)
(* except when connect() fails after the name was found.                   *)
DisconnectReportedOnce ==
  /\ c.discards <= 1
  /\ c.opened /\ c.tcp = "none" /\ ~c.silent => c.discards = 1
  /\ c.discards = 1 => ~c.pcb /\ c.tcp = "none"

(* Unless tcp_output() failed, the lengths count what lwIP still holds,    *)
(* even when lwIP sends, and the peer acknowledges, bytes that send() has  *)
(* not counted yet and _tx_unacked_len wraps below 0.                      *)
TxAccounted ==
  connected(c) /\ ~c.outputFailed => (c.unacked + c.unsent) % W = c.flight

(* close() takes effect although it only leaves a request for _poll().     *)
CloseHappens == c.closeReq ~> ~c.pcb
===============================================================================
