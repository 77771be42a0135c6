---------------------------- MODULE WebSocketFrames ----------------------------
(***************************************************************************)
(* AsyncWebSocketClient::_onData: the frames of a peer, as TCP cuts them   *)
(* into segments, become events of the program and control frames for the  *)
(* library.  A byte is its position in the stream; a header (2 to 14       *)
(* bytes) has one position and arrives whole.  Unmasking is left out.      *)
(***************************************************************************)
EXTENDS Integers, Sequences

CONSTANTS Streams,    \* what the peer may send: sequences of frames [op, fin, len, at]
          Garbage     \* what _pinfo may hold before it is set

Text == 1  Binary == 2  Continuation == 0
Disconnect == 8  Ping == 9  Pong == 10
DataOps == {Continuation, Text, Binary}

Frames == [op : DataOps \cup {Disconnect, Ping, Pong}, fin : BOOLEAN, len : Nat, at : Nat]

End(f) == f.at + f.len

(* Frames one behind the other from the first position on: the header of   *)
(* a frame is at `at', its payload from at + 1 to End.                     *)
Laid(fs) ==
  /\ fs \in Seq(Frames)
  /\ fs # <<>> => fs[1].at = 1
  /\ \A i \in 1..(Len(fs) - 1) : fs[i + 1].at = End(fs[i]) + 1
  /\ \A i, j \in DOMAIN fs : i < j => End(fs[i]) < fs[j].at

Size(fs) == IF fs = <<>> THEN 0 ELSE End(fs[Len(fs)])

VARIABLES frames,         \* what the peer sends
          arrived, taken,  \* positions that arrived, and those _onData has taken
          pstate, pinfo,
          events,         \* WS_EVT_DATA events so far
          controls        \* control frames the library has taken

vars == <<frames, arrived, taken, pstate, pinfo, events, controls>>

Init ==
  /\ frames \in Streams
  /\ arrived = 0 /\ taken = 0
  /\ pstate = 0
  /\ \E g, h \in Garbage :
       pinfo = [index |-> 0, final |-> FALSE, opcode |-> 0, len |-> 0, message_opcode |-> g, num |-> h]
  /\ events = <<>> /\ controls = <<>>

(* The next segment arrives.                                               *)
Segment ==
  /\ taken = arrived
  /\ \E n \in (arrived + 1)..Size(frames) : arrived' = n
  /\ UNCHANGED <<frames, taken, pstate, pinfo, events, controls>>

-------------------------------------------------------------------------------
(* The frame that begins.                                                  *)
beginning == frames[CHOOSE i \in DOMAIN frames : frames[i].at = taken + 1]

(* The header of the frame that begins, or what is known of it.            *)
opened ==
  IF pstate = 1 THEN pinfo
  ELSE [pinfo EXCEPT !.index = 0, !.final = beginning.fin, !.opcode = beginning.op, !.len = beginning.len]

(* At the first piece of a frame that does not arrive in one piece.        *)
numbered(p) ==
  IF p.index # 0 THEN p
  ELSE IF p.opcode # Continuation THEN [p EXCEPT !.message_opcode = p.opcode, !.num = 0]
  ELSE [p EXCEPT !.num = @ + 1]

(* The program gets n bytes, the first one at the position from.           *)
Event(p, from, n) == [info |-> p, from |-> from, n |-> n]

(* Defect: the offset in the frame stays where it was.                     *)
advancedNot(p, n) == p

advanced(p, n) == [p EXCEPT !.index = @ + n]

(* One turn of the loop over a segment.                                    *)
Turn ==
  LET p       == opened
      from    == IF pstate = 1 THEN taken + 1 ELSE taken + 2
      plen    == arrived - from + 1
      datalen == IF p.len - p.index < plen THEN p.len - p.index ELSE plen
  IN /\ taken < arrived
     /\ taken' = from + datalen - 1
     /\ IF p.index + datalen < p.len
        THEN /\ pstate' = 1
             /\ events' = Append(events, Event(numbered(p), from, datalen))
             /\ pinfo' = advanced(numbered(p), datalen)
             /\ UNCHANGED controls
        ELSE /\ pstate' = 0
             /\ pinfo' = p
             /\ IF p.opcode \in DataOps
                THEN events' = Append(events, Event(p, from, datalen)) /\ UNCHANGED controls
                ELSE controls' = Append(controls, p.opcode) /\ UNCHANGED events
     /\ UNCHANGED <<frames, arrived>>

Next == Segment \/ Turn
Spec == Init /\ [][Next]_vars

-------------------------------------------------------------------------------
Bytes(e) == e.from..(e.from + e.n - 1)

(* The bytes of e are of the payload of f, and are announced as what they  *)
(* are: their offset, and the length, kind and last flag of f.             *)
PieceOf(e, f) ==
  /\ f.at < e.from /\ e.from + e.n - 1 <= End(f)
  /\ e.info.index = e.from - f.at - 1
  /\ e.info.len = f.len /\ e.info.opcode = f.op /\ e.info.final = f.fin

(* What is announced of the message.  The pieces of a frame differ in      *)
(* their offset alone.  A text or binary frame that comes in pieces is the *)
(* first of its message; a continuation is of the same message as the      *)
(* piece before it, and counted on.  A frame that comes whole is announced *)
(* with what was there before: the code promises nothing of it.            *)
Announced ==
  \A k \in DOMAIN events :
    LET p      == events[k].info
        cut    == events[k].n < p.len
        before == events[k - 1]
    IN /\ p.index # 0 => k > 1 /\ p = [before.info EXCEPT !.index = @ + before.n]
       /\ p.index = 0 /\ cut /\ p.opcode # Continuation =>
            p.message_opcode = p.opcode /\ p.num = 0
       /\ p.index = 0 /\ cut /\ p.opcode = Continuation /\ k > 1 =>
            /\ p.message_opcode = before.info.message_opcode
            /\ p.num = before.info.num + 1

(* However the stream is cut, the program gets every payload byte of the   *)
(* data frames that were taken, once and in order, and in pieces that are  *)
(* announced as what they are.  It may get bytes of control frames too     *)
(* (OnlyMessagesSeen).                                                     *)
DataWhole ==
  /\ \A k \in DOMAIN events : \E i \in DOMAIN frames : PieceOf(events[k], frames[i])
  /\ \A k, l \in DOMAIN events : k < l => events[k].from + events[k].n <= events[l].from
  /\ \A i \in DOMAIN frames : frames[i].op \in DataOps =>
       \A b \in (frames[i].at + 1)..End(frames[i]) :
         b <= taken => \E k \in DOMAIN events : b \in Bytes(events[k])
  /\ Announced

(* AsyncWebSocket.h, of message_opcode: "Applications will only see        *)
(* WS_TEXT and WS_BINARY. All other types are handled by the library."     *)
OnlyMessagesSeen ==
  \A k \in DOMAIN events : events[k].n > 0 =>
    /\ events[k].info.opcode \in DataOps
    /\ events[k].info.message_opcode \in {Text, Binary}
===============================================================================
