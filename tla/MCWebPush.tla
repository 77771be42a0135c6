------------------------------ MODULE MCWebPush -------------------------------
(***************************************************************************)
(* Instances of what the web server sends piece by piece for TLC: the      *)
(* messages of WebSocket, with the frames it receives (WebSocketFrames),   *)
(* the events of EventSource, and pages with templates (WebTemplate).      *)
(* Sending and receiving, and the kinds of connection, share no state, so  *)
(* a behaviour is of one of them, part, and the others stay as they begin. *)
(***************************************************************************)
EXTENDS WebSocket

CONSTANTS Streams, Garbage,                        \* of WebSocketFrames
          Browsers, Lens, Room, Wrap, MaxEvents,   \* of EventSource
          Percent, Texts, Names, Value(_), NameLength,
          Rooms, MaxPieces                         \* of WebTemplate

VARIABLES part,
          frames, arrived, taken, pstate, pinfo, events, controls,
          es, sent,
          content, unread, page, ended

Receiver == INSTANCE WebSocketFrames
Source   == INSTANCE EventSource WITH Clients <- Browsers, SndBuf <- Room, W <- Wrap, made <- sent
Template == INSTANCE WebTemplate WITH rest <- unread, out <- page, done <- ended

(* The frames of a stream follow each other.                               *)
ASSUME FramesAssumption == Garbage \subseteq Nat /\ \A fs \in Streams : Receiver!Laid(fs)

ASSUME EventsAssumption == Lens \subseteq Nat /\ Room \in Nat /\ Wrap \in Nat \ {0}

(* A name is not empty and short enough to be recognized, and no percent  *)
(* sign is in it, in its value or in the text between placeholders.        *)
ASSUME TextAssumption ==
  LET plain(s) == s \in Seq(Range(s)) /\ Percent \notin Range(s)
  IN  /\ NameLength \in Nat /\ MaxPieces \in Nat /\ Rooms \subseteq Nat \ {0}
      /\ \A t \in Texts : plain(t)
      /\ \A p \in Names : plain(p) /\ Len(p) \in 1..NameLength /\ plain(Value(p))

(* The frames of up to two messages, one in two or three frames, with a    *)
(* ping or a close frame between, before or after them.                    *)
MCLens == {0, 1, 3}
frame(op, fin, n) == [op |-> op, fin |-> fin, len |-> n]

laidOut(fs) ==
  [i \in DOMAIN fs |->
     [op |-> fs[i].op, fin |-> fs[i].fin, len |-> fs[i].len,
      at |-> FoldLeft(LAMBDA n, f : n + f.len + 1, 1, SubSeq(fs, 1, i - 1))]]

MCStreams ==
  {laidOut(<<frame(1, FALSE, m), frame(0, FALSE, n), frame(0, TRUE, 2)>>) : m, n \in MCLens}
  \cup {laidOut(<<frame(1, FALSE, m), frame(o, TRUE, n), frame(0, TRUE, 2), frame(2, TRUE, n)>>) :
          m, n \in MCLens, o \in {9, 10}}
  \cup {laidOut(<<frame(1, TRUE, m), frame(2, TRUE, 2), frame(8, TRUE, n)>>) : m, n \in MCLens}

(* A value that is empty, one that is a little longer than its placeholder,*)
(* and a long one.                                                         *)
MCValue(name) == CASE name = <<"e">>      -> <<>>
                   [] name = <<"l", "m">> -> <<"1", "2", "3", "4", "5">>
                   [] name = <<"n">>      -> <<"6", "7", "8", "9", "6", "7">>
                   [] OTHER               -> <<>>

MCTexts == {<<"x">>}
MCNames == {<<"e">>, <<"l", "m">>, <<"n">>}

receiverVars == <<frames, arrived, taken, pstate, pinfo, events, controls>>
sourceVars   == <<es, sent>>
templateVars == <<content, unread, page, ended>>
MCvars       == <<vars, receiverVars, sourceVars, templateVars, part>>

OfSocket(A)   == part = "socket" /\ A /\ UNCHANGED <<receiverVars, sourceVars, templateVars, part>>
OfReceiver(A) == part = "receiver" /\ A /\ UNCHANGED <<vars, sourceVars, templateVars, part>>
OfSource(A)   == part = "source" /\ A /\ UNCHANGED <<vars, receiverVars, templateVars, part>>
OfTemplate(A) == part = "template" /\ A /\ UNCHANGED <<vars, receiverVars, sourceVars, part>>

MCInit ==
  /\ part \in {"socket", "receiver", "source", "template"}
  /\ part # "receiver" => frames = CHOOSE fs \in Streams : TRUE
  /\ part # "template" => content = <<>>
  /\ Init /\ Source!Init /\ Receiver!Init /\ Template!Init
  /\ part # "receiver" =>
       LET g == CHOOSE g \in Garbage : TRUE IN pinfo.num = g /\ pinfo.message_opcode = g

MCNext == \/ OfSocket(Next) \/ OfReceiver(Receiver!Next)
          \/ OfSource(Source!Next) \/ OfTemplate(Template!Next)

(* WebSocket!Fairness asks nothing of a server without clients.            *)
MCSpec == MCInit /\ [][MCNext]_MCvars /\ Fairness

-------------------------------------------------------------------------------
(* The program gets every byte of the data frames (WebSocketFrames).       *)
DataWhole == Receiver!DataWhole

(* An event is never cut, repeated or mixed with another (EventSource).    *)
EventsWhole == Source!EventsWhole

(* Every placeholder is replaced, wherever buffers end (WebTemplate).      *)
Expanded == Template!Expanded
===============================================================================
