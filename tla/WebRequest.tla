------------------------------ MODULE WebRequest -------------------------------
(***************************************************************************)
(* One HTTP request of ESP Async WebServer (WebRequest.cpp, WebServer.cpp, *)
(* WebHandlerImpl.h) from the connection to its end: the parser that is    *)
(* fed the segments of the connection, the handler it chooses, and what    *)
(* becomes of the request when the peer, or the handler, falls silent.     *)
(* How a response is sent is in WebResponse, multipart bodies are in       *)
(* WebMultipart.                                                           *)
(*                                                                         *)
(* The text of a line is two tokens, the line and Rest, so that a segment  *)
(* may end inside it; then comes NewLine.  A body is single bytes.         *)
(***************************************************************************)
EXTENDS Integers, SequencesExt

CONSTANTS Requests,     \* requests a client may send
          Handlers,     \* the sequence of handlers of the server
          Reactions,    \* what handlers do with a request
          MaxSegment    \* bound: tokens of a segment

Rest    == "~"
NewLine == "nl"
Blank   == ""          \* an empty line is no text before NewLine
CatchAll == [name |-> "catch-all", methods |-> {}, upgrade |-> FALSE, trivial |-> TRUE]

(* A request: its first line, the method or Blank, the headers that mean   *)
(* something to the parser, the bytes that Content-Length counts, and the  *)
(* ones that come after them.                                              *)
ASSUME RequestsAssumption ==
  \A q \in Requests : /\ DOMAIN q = {"first", "headers", "body", "excess"}
                      /\ q.first \in {"GET", "POST", Blank}
                      /\ Range(q.headers) \subseteq {"length", "form", "text", "raw",
                                                     "expect", "upgrade"}
                      /\ q.headers \in Seq(Range(q.headers))
                      /\ q.body \in Seq(Range(q.body)) /\ q.excess \in Seq(Range(q.excess))
                      /\ q.body # <<>> => "length" \in Range(q.headers)
ASSUME HandlersAssumption ==
  \A i \in DOMAIN Handlers : DOMAIN Handlers[i] = DOMAIN CatchAll
ASSUME ReactionsAssumption == Reactions \subseteq {"send", "later", "never"}
ASSUME BoundAssumption == MaxSegment \in Nat

line(t)   == IF t = Blank THEN <<NewLine>> ELSE <<t, Rest, NewLine>>
stream(q) == line(q.first) \o FlattenSeq([i \in DOMAIN q.headers |-> line(q.headers[i])])
             \o line(Blank) \o q.body \o q.excess

VARIABLES
  sent,     \* the request that the client sends
  pos,      \* tokens of it that have arrived
  r         \* the request object and its connection:
            \*   open, closing   connection, and whether its close is asked for
            \*   rxTimeout       whether the connection has one
            \*   parse, temp, contentLength, parsedLength, contentType, upgrade,
            \*   expecting, plainPost, handler      members of the request
            \*   params, body    what the handler was given of the body
            \*   aligned         every handleBody() had the right index
            \*   handled         calls of handleRequest(), up to 2
            \*   continued       "100 Continue" was written
            \*   response        "none", "sent", "gone"

vars == <<sent, pos, r>>

(* AsyncWebServer's onClient, and the request's constructor.               *)
accepted ==
  [open |-> TRUE, closing |-> FALSE, rxTimeout |-> TRUE, parse |-> "start",
   temp |-> <<>>, contentLength |-> 0, parsedLength |-> 0, contentType |-> "none",
   upgrade |-> FALSE, expecting |-> FALSE, plainPost |-> FALSE, method |-> "none",
   handler |-> CatchAll, params |-> <<>>, body |-> <<>>, aligned |-> TRUE,
   handled |-> 0, continued |-> FALSE, response |-> "none"]

(* Defect: the connection is given no time-out.                            *)
acceptedForever == [accepted EXCEPT !.rxTimeout = FALSE]

client == accepted

Init == sent \in Requests /\ pos = 0 /\ r = client

-------------------------------------------------------------------------------
(* AsyncCallbackWebHandler::canHandle and _attachHandler: the first that   *)
(* can.                                                                    *)
canHandle(h, s) == s.method \in h.methods /\ (h.upgrade => s.upgrade)

attachHandler(s) ==
  LET able == {i \in DOMAIN Handlers : canHandle(Handlers[i], s)}
  IN  IF able = {} THEN CatchAll ELSE Handlers[CHOOSE i \in able : \A j \in able : i <= j]

(* send(): from now on only the response ends the connection.              *)
send(s) == [s EXCEPT !.response = "sent", !.rxTimeout = FALSE]

(* handleRequest(); a handler without _onRequest sends an error at once.   *)
handleRequest(s, reaction) ==
  LET h == [s EXCEPT !.parse = "end", !.handled = IF @ = 2 THEN 2 ELSE @ + 1]
  IN  IF s.handler.trivial \/ reaction = "send" THEN send(h) ELSE h

(* _parseReqHead and _parseReqHeader                                       *)
parseReqHead(s, t) == [s EXCEPT !.method = t, !.parse = "headers"]
parseReqHeader(s, t) ==
  CASE t = "length"  -> [s EXCEPT !.contentLength = Len(sent.body)]
    [] t \in {"form", "text", "raw"} -> [s EXCEPT !.contentType = t]
    [] t = "expect"  -> [s EXCEPT !.expecting = TRUE]
    [] t = "upgrade" -> [s EXCEPT !.upgrade = TRUE]

endOfHeaders(s, reaction) ==
  LET a == [s EXCEPT !.handler = attachHandler(s), !.continued = s.expecting]
  IN  IF a.contentLength > 0 THEN [a EXCEPT !.parse = "body"]
                             ELSE handleRequest(a, reaction)

(* _parseLine, with the text of the line in _temp.                         *)
parseLine(s, reaction) ==
  LET t == [s EXCEPT !.temp = <<>>]
  IN  CASE s.parse = "start" /\ s.temp = <<>>   -> [t EXCEPT !.parse = "fail", !.closing = TRUE]
        [] s.parse = "start" /\ s.temp # <<>>   -> parseReqHead(t, s.temp[1])
        [] s.parse = "headers" /\ s.temp # <<>> -> parseReqHeader(t, s.temp[1])
        [] s.parse = "headers" /\ s.temp = <<>> -> endOfHeaders(t, reaction)

(* _parsePlainPostChar: a parameter ends at '&' and with the body.         *)
plainPostChar(s, byte) ==
  LET t == [s EXCEPT !.parsedLength = @ + 1,
                     !.temp = IF byte = "&" THEN @ ELSE Append(@, byte)]
  IN  IF byte = "&" \/ t.parsedLength = t.contentLength
        THEN [t EXCEPT !.params = Append(@, t.temp), !.temp = <<>>] ELSE t

(* Whether the first bytes of a text/plain body look like parameters: a    *)
(* name and '=' with something after it, in the same segment.              *)
looksLikeParams(buf) ==
  /\ buf[1] \notin {"&", "=", "{"}
  /\ \E i \in 2..Len(buf)-1 :
       buf[i] = "=" /\ \A j \in 1..i-1 : buf[j] \notin {"&", "=", "{"}

handleBody(s, buf) ==
  [s EXCEPT !.body = @ \o buf, !.aligned = @ /\ s.parsedLength = Len(s.body)]

(* _onData in PARSE_REQ_BODY takes all that the segment has.               *)
bodyData(s, buf, reaction) ==
  LET plain == s.plainPost \/ (s.parsedLength = 0 /\
                 (s.contentType = "form" \/ (s.contentType = "text" /\ looksLikeParams(buf))))
      a == [s EXCEPT !.plainPost = plain]
      after[n \in 0..Len(buf)] ==
        IF n = 0 THEN a ELSE plainPostChar(after[n - 1], buf[n])
      b == CASE ~plain -> [handleBody(a, buf) EXCEPT !.parsedLength = @ + Len(buf)]
             [] plain /\ ~a.handler.trivial -> after[Len(buf)]
             [] plain /\ a.handler.trivial  -> [a EXCEPT !.parsedLength = @ + Len(buf)]
  IN  IF b.parsedLength = b.contentLength THEN handleRequest(b, reaction) ELSE b

(* One turn of the loop of _onData: a line, or all that is left.           *)
onDataTurn(x, reaction) ==
  LET s == x.s
      lines == s.parse \in {"start", "headers"}
  IN  CASE lines /\ NewLine \notin Range(x.rest) ->
             [s |-> [s EXCEPT !.temp = @ \o x.rest], rest |-> <<>>]
        [] lines /\ NewLine \in Range(x.rest) ->
             LET i == CHOOSE i \in DOMAIN x.rest :
                        x.rest[i] = NewLine /\ \A j \in 1..i-1 : x.rest[j] # NewLine
             IN  [s    |-> parseLine([s EXCEPT !.temp = @ \o SubSeq(x.rest, 1, i-1)], reaction),
                  rest |-> SubSeq(x.rest, i+1, Len(x.rest))]
        [] s.parse = "body" -> [s |-> bodyData(s, x.rest, reaction), rest |-> <<>>]
        [] s.parse \in {"end", "fail"} -> [s |-> s, rest |-> <<>>]

(* Defect: the bytes behind the line are lost.                             *)
onDataOneLine(s, buf, reaction) == onDataTurn([s |-> s, rest |-> buf], reaction).s

(* _onData: line by line until nothing is left.                            *)
onData(s, buf, reaction) ==
  LET after[n \in 0..Len(buf)] ==
        IF n = 0 THEN [s |-> s, rest |-> buf]
        ELSE LET x == after[n - 1]
             IN  IF x.rest = <<>> THEN x ELSE onDataTurn(x, reaction)
  IN  after[Len(buf)].s

-------------------------------------------------------------------------------
(* A segment of n tokens arrives.                                          *)
Segment(n, reaction) ==
  /\ r.open /\ pos + n <= Len(stream(sent))
  /\ pos' = pos + n
  /\ r' = onData(r, SubSeq(stream(sent), pos + 1, pos + n), reaction)
  /\ UNCHANGED sent

(* The handler answers after handleRequest() has returned.                 *)
RespondLater ==
  /\ r.open /\ r.handled > 0 /\ r.response = "none" /\ "later" \in Reactions
  /\ r' = send(r)
  /\ UNCHANGED <<sent, pos>>

(* _onAck once the response has finished (see WebResponse): it is deleted. *)
Acked ==
  /\ r.open /\ r.response = "sent"
  /\ r' = [r EXCEPT !.response = "gone"]
  /\ UNCHANGED <<sent, pos>>

(* _onTimeout: nothing written is acknowledged.                            *)
AckTimeout ==
  /\ r.open /\ (r.continued \/ r.response = "sent") /\ ~r.closing
  /\ r' = [r EXCEPT !.closing = TRUE]
  /\ UNCHANGED <<sent, pos>>

(* The connection is closed from _poll (see AsyncClient) or by the peer,   *)
(* and the request deleted with it: _onDisconnect, _handleDisconnect.      *)
disconnected(s) == [s EXCEPT !.open = FALSE, !.closing = FALSE]

PollCloses ==
  /\ r.open /\ (r.closing \/ r.rxTimeout)
  /\ r' = disconnected(r)
  /\ UNCHANGED <<sent, pos>>

PeerCloses ==
  /\ r.open
  /\ r' = disconnected(r)
  /\ UNCHANGED <<sent, pos>>

Next ==
  \/ \E n \in 1..MaxSegment, reaction \in Reactions : Segment(n, reaction)
  \/ RespondLater \/ Acked \/ AckTimeout \/ PollCloses \/ PeerCloses

Spec == Init /\ [][Next]_vars

(* lwIP polls every connection, and no client sends for ever.              *)
FairSpec == Spec /\ WF_vars(PollCloses)

-------------------------------------------------------------------------------
(* The parameters of a body: none has an '&', and with one after each they *)
(* are the body again, whose last may lack its own.                        *)
PartsOf(bytes, ps) ==
  /\ \A i \in DOMAIN ps : "&" \notin Range(ps[i])
  /\ FlattenSeq([i \in DOMAIN ps |-> Append(ps[i], "&")])
       = IF Last(bytes) = "&" THEN bytes ELSE Append(bytes, "&")

(* handleRequest() is called exactly once, when, and not before, the whole *)
(* request has arrived, however it was cut into segments, and by then the  *)
(* handler has been given its body: as parameters if it is a form, byte by *)
(* byte with the right indices if not, and one of the two if it is text.   *)
(* Only bytes after the body, in the segment of its end, keep a request    *)
(* from ever being handled.                                                *)
HandledWhole ==
  LET whole == Len(stream(sent)) - Len(sent.excess)
  IN  /\ r.handled <= 1
      /\ r.handled = 1 => pos >= whole
      /\ sent.first # Blank /\ sent.excess = <<>> /\ pos >= whole => r.handled = 1
      /\ r.aligned
      /\ r.handled = 1 /\ sent.body # <<>> /\ ~r.handler.trivial =>
           \/ r.contentType # "form" /\ r.body = sent.body /\ r.params = <<>>
           \/ r.contentType \in {"form", "text"} /\ r.body = <<>>
                /\ PartsOf(sent.body, r.params)

(* Every connection is answered or closed in the end, also when the client *)
(* sends half a request or the handler never answers.                      *)
Ends == r.open ~> ~r.open \/ r.response # "none"
===============================================================================
