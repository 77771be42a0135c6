------------------------------ MODULE WebTemplate ------------------------------
(***************************************************************************)
(* Template processing of ESP Async WebServer (WebResponses.cpp,           *)
(* _fillBufferAndProcessTemplates): %NAME% in the content of a response is *)
(* replaced by the program's value and %% by one %, while the response is  *)
(* cut into buffers of whatever size the connection has room for.          *)
(*                                                                         *)
(* _cache is read before the content and filled at its front, so the two   *)
(* are one sequence, rest.  The content is a file: _fillBuffer gives what  *)
(* is asked for until the end.                                             *)
(***************************************************************************)
EXTENDS Integers, SequencesExt, FiniteSetsExt

CONSTANTS Percent,      \* TEMPLATE_PLACEHOLDER
          Texts,        \* pieces of content that are no template, one byte each
          Names,        \* names of placeholders: 1..NameLength bytes, no Percent
          Value(_),     \* the program's callback; it returns no Percent
          NameLength,   \* TEMPLATE_PARAM_NAME_LENGTH
          Rooms,        \* sizes of buffers, at least 1
          MaxPieces     \* bound on the content

VARIABLES content,    \* the pieces of the content: texts, names and "escape"
          rest,       \* _cache and the content that was not read
          out,        \* the body the browser got
          done        \* an empty chunk has ended the response

vars == <<content, rest, out, done>>

Escape == <<"escape">>
Pieces == Texts \cup Names \cup {Escape}

Written(p) == IF p \in Texts THEN p
              ELSE IF p = Escape THEN <<Percent, Percent>>
              ELSE <<Percent>> \o p \o <<Percent>>
Shown(p)   == IF p \in Texts THEN p ELSE IF p = Escape THEN <<Percent>> ELSE Value(p)

Init ==
  /\ content \in BoundedSeq(Pieces, MaxPieces)
  /\ rest = FlattenSeq([i \in DOMAIN content |-> Written(content[i])])
  /\ out = <<>> /\ done = FALSE

-------------------------------------------------------------------------------
First(s, n)  == SubSeq(s, 1, Min({n, Len(s)}))
Beyond(s, n) == SubSeq(s, Min({n, Len(s)}) + 1, Len(s))

(* _readDataFromCacheOrContent: n bytes more of what is processed.         *)
readData(d, n) == [d EXCEPT !.data = @ \o First(d.rest, n), !.rest = Beyond(@, n)]

(* memchr for a percent sign at a position of at least from, 0 for none.   *)
percentFrom(s, from) ==
  LET at == SelectInSeq(SubSeq(s, from, Len(s)), LAMBDA b : b = Percent)
  IN  IF at = 0 THEN 0 ELSE from - 1 + at

(* Defect: what had no room goes behind the cache.                         *)
replacedBehind(d, size, start, end, value) ==
  LET n     == Min({Len(value), size - start + 1})
      whole == SubSeq(d.data, 1, start - 1) \o First(value, n) \o Beyond(d.data, end)
  IN IF Len(whole) > size \/ n < Len(value)
     THEN [d EXCEPT !.data = First(whole, size), !.rest = @ \o Beyond(value, n) \o Beyond(whole, size)]
     ELSE IF n < end + 1 - start
     THEN readData([d EXCEPT !.data = whole], size - Len(whole))
     ELSE [d EXCEPT !.data = whole]

(* The value takes the place of start..end.  What has no room goes to the  *)
(* cache.  When it is the value that is cut and nothing follows it in the  *)
(* buffer, len stays, although more of the buffer was written.             *)
replaced(d, size, start, end, value) ==
  LET n     == Min({Len(value), size - start + 1})
      whole == SubSeq(d.data, 1, start - 1) \o First(value, n) \o Beyond(d.data, end)
      cut   == [d EXCEPT !.rest = Beyond(value, n) \o Beyond(whole, size) \o @]
  IN IF Len(whole) > size THEN [cut EXCEPT !.data = First(whole, size)]
     ELSE IF n < Len(value) THEN [cut EXCEPT !.data = First(whole, Len(d.data))]
     ELSE IF n < end + 1 - start
     THEN readData([d EXCEPT !.data = whole], size - Len(whole))
     ELSE [d EXCEPT !.data = whole]

(* The two percent signs are in the buffer.                                *)
closed(d, size, start, end) ==
  IF end = start + 1
  THEN [readData([d EXCEPT !.data = RemoveAt(@, end)], 1) EXCEPT !.at = start + 1]
  ELSE replaced(d, size, start, end, Value(First(SubSeq(d.data, start + 1, end - 1), NameLength)))

(* The second one is looked for ahead, as far as a name may reach.  At the *)
(* very start of what is ahead it is dropped, without a name to replace.   *)
lookedAhead(d, size, start) ==
  LET left == Len(d.data) - start + 1
      end  == percentFrom(First(d.rest, NameLength + 2 - left), 1)
      name == Beyond(d.data, start) \o SubSeq(d.rest, 1, end - 1)
      past == [d EXCEPT !.rest = Beyond(@, end)]
  IN IF left >= NameLength + 2 \/ end = 0 THEN [d EXCEPT !.at = start + 1]
     ELSE IF name = <<>> THEN past
     ELSE replaced(past, size, start, Len(d.data), Value(name))

(* One turn of the loop; after a replacement the value itself is searched. *)
processedOnce(d, size) ==
  LET start == percentFrom(d.data, d.at)
      end   == percentFrom(d.data, start + 1)
  IN IF d.at > Len(d.data) \/ start = 0 THEN d
     ELSE IF end # 0 THEN closed(d, size, start, end)
     ELSE lookedAhead(d, size, start)

(* The loop ends within this many turns: each takes a percent sign, which  *)
(* no value puts back, or moves on in the buffer.                          *)
turns(d, size) == Len(d.data) + Len(d.rest) + size

(* _fillBufferAndProcessTemplates, into a buffer of size bytes.            *)
fillBufferAndProcessTemplates(size) ==
  LET first == readData([data |-> <<>>, rest |-> rest, at |-> 1], size)
      after[n \in 0..turns(first, size)] ==
        IF n = 0 THEN first ELSE processedOnce(after[n - 1], size)
  IN  after[turns(first, size)]

Fill(size) ==
  /\ ~done
  /\ LET d == fillBufferAndProcessTemplates(size) IN
     /\ out' = out \o d.data
     /\ rest' = d.rest
     /\ done' = (d.data = <<>>)
  /\ UNCHANGED content

Next == \E size \in Rooms : Fill(size)

Spec == Init /\ [][Next]_vars

-------------------------------------------------------------------------------
Expansion == FlattenSeq([i \in DOMAIN content |-> Shown(content[i])])
Escaped   == Escape \in Range(content)

(* A placeholder and its value's first byte: what surely has room when the *)
(* content ends before the buffer does.                                    *)
Long(p) == p \in Names /\ Len(Value(p)) > Len(Written(p)) + 1

(* Wherever the buffers cut the content, a placeholder or a value, the     *)
(* browser gets the text with every placeholder replaced: nothing is lost, *)
(* sent twice or out of order.                                             *)
Expanded ==
  done /\ ~Escaped /\ ~(\E p \in Range(content) : Long(p)) => out = Expansion
===============================================================================
