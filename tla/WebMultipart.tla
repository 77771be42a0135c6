------------------------------ MODULE WebMultipart -----------------------------
(***************************************************************************)
(* The parser of multipart/form-data bodies of ESP Async WebServer         *)
(* (WebRequest.cpp, _parseMultipartPostByte), which is fed one byte at a   *)
(* time, told only which byte is the last of its segment, and must find    *)
(* the end of an item whose bytes may look like the boundary's.            *)
(*                                                                         *)
(* A header line of an item is one token.  The boundary, and the buffer    *)
(* for uploads of 1460 bytes, have the lengths that the constants give.    *)
(***************************************************************************)
EXTENDS Integers, SequencesExt

CONSTANTS Boundary,     \* the boundary, a sequence of bytes, not empty
          Contents,     \* the contents an item may have: none contains the
                        \* delimiter, as a client must choose the boundary
          BufferSize    \* bytes of an upload handed out at a time

CR == "cr"
LF == "lf"
Dash == "-"
FieldHeader == "name"       \* Content-Disposition with a name
FileHeader  == "filename"   \* ... and a file name, or Content-Type

Delimiter == <<CR, LF, Dash, Dash>> \o Boundary

(* An item that a client sends, and the body that says it.                 *)
Item == [file : BOOLEAN, content : Contents]
itemText(x) == <<CR, LF>> \o <<IF x.file THEN FileHeader ELSE FieldHeader, CR, LF, CR, LF>>
               \o x.content
bodyText(xs) ==    \* the first delimiter without CR LF, the last followed by --
  LET all == FlattenSeq([i \in DOMAIN xs |-> Delimiter \o itemText(xs[i])])
  IN  SubSeq(all, 3, Len(all)) \o Delimiter \o <<Dash, Dash, CR, LF>>

VARIABLES
  items,    \* the items of the body that is sent, one or two
  p         \* the parser: parsedLength, state (_multiParseState), position
            \* (in the boundary), header (whether _temp has a header line),
            \* isFile, size, value, buffer of the item, and what it found:
            \* found    the items, as added to the parameters
            \* upload   the bytes of the current file handed out
            \* indexed  whether each piece of it came with the right index

vars == <<items, p>>

body == bodyText(items)

Init ==
  /\ items \in UNION {[1..n -> Item] : n \in 1..2}
  /\ p = [parsedLength |-> 0, contentLength |-> Len(bodyText(items)),
          state |-> "EXPECT_BOUNDARY", position |-> 0, header |-> FALSE,
          isFile |-> FALSE, size |-> 0, value |-> <<>>, buffer |-> <<>>,
          found |-> <<>>, upload |-> <<>>, indexed |-> TRUE]

-------------------------------------------------------------------------------
At(s, state) == [s EXCEPT !.state = state]

(* handleUpload() of what is in the buffer.                                *)
handleUpload(s) ==
  [s EXCEPT !.buffer = <<>>, !.upload = @ \o s.buffer,
            !.indexed = @ /\ s.size - Len(s.buffer) = Len(s.upload)]

(* _handleUploadByte                                                       *)
handleUploadByte(s, byte, last) ==
  LET t == [s EXCEPT !.buffer = Append(@, byte)]
  IN  IF last \/ Len(t.buffer) = BufferSize THEN handleUpload(t) ELSE t

(* itemWriteByte                                                           *)
itemWriteByte(s, byte, last) ==
  LET u == [s EXCEPT !.size = @ + 1]
  IN  IF u.isFile THEN handleUploadByte(u, byte, last)
                  ELSE [u EXCEPT !.value = Append(@, byte)]

(* ... of several bytes                                                    *)
itemWrite(s, bytes, last) ==
  LET after[n \in 0..Len(bytes)] ==
        IF n = 0 THEN s ELSE itemWriteByte(after[n - 1], bytes[n], last)
  IN  after[Len(bytes)]

(* The first boundary of the body, which has no CR LF before it.           *)
expectBoundary(s, byte) ==
  LET n == s.parsedLength
  IN  CASE n < 2 /\ byte # Dash -> At(s, "PARSE_ERROR")
        [] n \in 2..Len(Boundary)+1 /\ byte # Boundary[n - 1] -> At(s, "PARSE_ERROR")
        [] n = Len(Boundary) + 2 /\ byte # CR -> At(s, "PARSE_ERROR")
        [] n = Len(Boundary) + 3 ->
             IF byte = LF THEN [At(s, "PARSE_HEADERS") EXCEPT !.isFile = FALSE]
                          ELSE At(s, "PARSE_ERROR")
        [] OTHER -> s

(* Lines of headers, of which one without text is the last.                *)
parseHeaders(s, byte) ==
  CASE byte \notin {CR, LF} -> [s EXCEPT !.header = TRUE, !.isFile = @ \/ byte = FileHeader]
    [] byte = CR -> s
    [] byte = LF /\ s.header -> [s EXCEPT !.header = FALSE]
    [] byte = LF /\ ~s.header ->
         [At(s, "WAIT_FOR_RETURN1") EXCEPT !.size = 0, !.value = <<>>, !.buffer = <<>>,
                                           !.upload = <<>>]

(* The boundary is complete: the item ends.  An empty file is dropped.     *)
endItem(s) ==
  LET t == At(s, "DASH3_OR_RETURN2")
      add(u, c) == [u EXCEPT !.found = Append(@, [file |-> s.isFile, content |-> c])]
  IN  CASE ~s.isFile             -> add(t, t.value)
        [] s.isFile /\ s.size = 0 -> t
        [] s.isFile /\ s.size > 0 -> LET u == handleUpload(t) IN add(u, u.upload)

(* Defect: the byte that does not fit is written, whatever it is.          *)
notTheEndWritten(s, bytes, byte, last) ==
  itemWrite(At(s, "WAIT_FOR_RETURN1"), Append(bytes, byte), last)

(* The bytes that looked like a boundary are the item's; the one that did  *)
(* not fit is looked at again.                                             *)
notTheEnd(s, bytes, byte, last) ==
  LET t == itemWrite(At(s, "WAIT_FOR_RETURN1"), bytes, last)
  IN  IF byte = CR THEN At(t, "EXPECT_FEED1") ELSE itemWrite(t, <<byte>>, last)

(* _parseMultipartPostByte                                                 *)
parseByte(s, byte, last) ==
  CASE s.state = "WAIT_FOR_RETURN1" -> notTheEnd(s, <<>>, byte, last)
    [] s.state = "EXPECT_BOUNDARY"  -> expectBoundary(s, byte)
    [] s.state = "PARSE_HEADERS"    -> parseHeaders(s, byte)
    [] s.state = "EXPECT_FEED1" ->
         IF byte = LF THEN At(s, "EXPECT_DASH1") ELSE notTheEnd(s, <<CR>>, byte, last)
    [] s.state = "EXPECT_DASH1" ->
         IF byte = Dash THEN At(s, "EXPECT_DASH2")
                        ELSE notTheEnd(s, <<CR, LF>>, byte, last)
    [] s.state = "EXPECT_DASH2" ->
         IF byte = Dash THEN [At(s, "BOUNDARY_OR_DATA") EXCEPT !.position = 0]
                        ELSE notTheEnd(s, <<CR, LF, Dash>>, byte, last)
    [] s.state = "BOUNDARY_OR_DATA" ->
        (CASE Boundary[s.position + 1] # byte ->
                notTheEnd(s, SubSeq(Delimiter, 1, 4 + s.position), byte, last)
           [] Boundary[s.position + 1] = byte /\ s.position = Len(Boundary) - 1 -> endItem(s)
           [] Boundary[s.position + 1] = byte /\ s.position < Len(Boundary) - 1 ->
                [s EXCEPT !.position = @ + 1])
    [] s.state = "DASH3_OR_RETURN2" ->
        (CASE byte = CR   -> At(s, "EXPECT_FEED2")
           [] byte = Dash -> [At(s, "PARSING_FINISHED") EXCEPT
                                !.contentLength = s.parsedLength + 4]
           [] byte \notin {CR, Dash} -> notTheEnd(s, Delimiter, byte, last))
    [] s.state = "EXPECT_FEED2" ->
         IF byte = LF THEN [At(s, "PARSE_HEADERS") EXCEPT !.isFile = FALSE]
                      ELSE notTheEnd(s, Append(Delimiter, CR), byte, last)
    [] s.state \in {"PARSING_FINISHED", "PARSE_ERROR"} -> s

(* _onData hands over the next byte.                                       *)
Byte(last) ==
  /\ p.parsedLength < p.contentLength /\ p.parsedLength < Len(body)
  /\ p' = [parseByte(p, body[p.parsedLength + 1], last) EXCEPT !.parsedLength = @ + 1]
  /\ UNCHANGED items

Next == Byte(TRUE) \/ Byte(FALSE)

Spec == Init /\ [][Next]_vars

-------------------------------------------------------------------------------
(* The items found when the body ends are the ones that were sent, files   *)
(* byte by byte with the right indices, however the body is cut into       *)
(* segments, and its length is the one that was announced; empty files are *)
(* left out.                                                               *)
ItemsAsSent ==
  /\ p.indexed
  /\ p.state # "PARSE_ERROR" /\ p.contentLength = Len(body)
  /\ p.parsedLength = p.contentLength =>
       /\ p.state = "PARSING_FINISHED"
       /\ p.found = FlattenSeq([i \in DOMAIN items |->
                       IF items[i].file /\ items[i].content = <<>> THEN <<>> ELSE <<items[i]>>])
===============================================================================
