---------------------------- MODULE WebPushProofs -----------------------------
(***************************************************************************)
(* Proofs about what the web server sends piece by piece, for any number   *)
(* of clients and all sizes: the messages of WebSocket, with the frames it *)
(* receives, the events of EventSource, and the pages of WebTemplate.      *)
(*                                                                         *)
(* SocketInv says of every client that its queue is in the order of the    *)
(* buffers and only its front has been begun (Ordered), that the peer has  *)
(* read exactly what that front has sent (Reads), and of every buffer that *)
(* it counts the clients whose queues use it (Counted).  While textAll()   *)
(* runs, the clients it has yet to reach have not got the newest buffer    *)
(* (Top), and the buffer is there although nobody may use it.              *)
(*                                                                         *)
(* ReceiverInv says where a turn of _onData finds itself in the stream     *)
(* (InStep) and what it has given so far (InOrder, AllGiven).              *)
(*                                                                         *)
(* SourceInv says of every browser that an event in the queue is sent      *)
(* whole or not at all (QueueFits) and that the stream is in pieces.  The  *)
(* loops of _runQueue and _onAck are recursive functions: RunIsDefined,    *)
(* AckIsDefined and SetInduction are what reasoning about them needs.      *)
(*                                                                         *)
(* PageInv says that the browser's page and what is unread of the content  *)
(* are together the text to be shown.  Means says what a content is to be  *)
(* shown as, placeholder by placeholder from its end; a turn of the loop   *)
(* leaves a buffer without a percent sign, or one placeholder fewer        *)
(* (TurnIs), so that the loop ends with plain text in the buffer (LoopIs). *)
(***************************************************************************)
EXTENDS MCWebPush, FiniteSetTheorems, SequenceTheorems, TLAPS

(* The buffers the messages of a queue use.                                *)
Bufs(q) == {q[i].buf : i \in DOMAIN q}

Messages == [buf : Nat, sent : Nat, ack : Nat, acked : Int, status : {"sending", "sent"}]
Controls == [op : {"close", "pong"}, finished : BOOLEAN]
Readers  == [open : Nat, got : Int, last : Nat, bad : BOOLEAN]
Sockets  == [life : {"none", "live", "gone"}, status : {"connected", "disconnecting"},
             messages : Seq(Messages), controls : Seq(Controls), flight : Nat, unsent : Nat,
             closing : BOOLEAN, lost : BOOLEAN, in : Readers]

(* A queue of messages made in the order of their numbers, none above top: *)
(* only the one at the front has been begun.                               *)
Ordered(q, top) ==
  /\ \A i \in DOMAIN q : /\ q[i].buf \in 1..top
                         /\ q[i].sent <= MsgLen
                         /\ q[i].status = "sent" => q[i].sent = MsgLen
                         /\ i > 1 => q[i] = Message(q[i].buf)
  /\ \A i, j \in DOMAIN q : i < j => q[i].buf < q[j].buf

(* The peer has read what the queue has sent of the message at its front,  *)
(* and no message still to be finished.                                    *)
Reads(in, q, top) ==
  /\ ~in.bad /\ in.last <= top
  /\ \A i \in DOMAIN q : q[i].sent # MsgLen => in.last < q[i].buf
  /\ IF q # <<>> /\ q[1].sent \in 1..(MsgLen - 1)
     THEN in.open = q[1].buf /\ in.got = q[1].sent
     ELSE in.open = 0

Sound(k, top) ==
  /\ k \in Sockets
  /\ k.life # "live" => k.messages = <<>>
  /\ Ordered(k.messages, top)
  /\ k.lost \/ ~k.in.bad
  /\ ~k.lost /\ k.life # "gone" => Reads(k.in, k.messages, top)

(* A buffer counts the clients that have queued it.                        *)
Holders(w, b) == {c \in Clients : b \in Bufs(w[c].messages)}
Counted(w, bs) ==
  /\ bs = [b \in DOMAIN bs |-> bs[b]]
  /\ \A b \in DOMAIN bs : bs[b] = Cardinality(Holders(w, b))
  /\ \A b : Holders(w, b) # {} => b \in DOMAIN bs

Lined(o) ==
  /\ o \in Seq(Clients)
  /\ \A i, j \in DOMAIN o : o[i] = o[j] => i = j

Top(c) == IF \E i \in DOMAIN todo : todo[i] = c THEN made - 1 ELSE made

SocketInv ==
  /\ made \in Nat
  /\ ws = [c \in Clients |-> ws[c]]
  /\ \A c \in Clients : Sound(ws[c], Top(c))
  /\ Counted(ws, buffers)
  /\ Lined(order) /\ Lined(todo)
  /\ \A i \in DOMAIN order : ws[order[i]].life = "live"
  /\ \A i \in DOMAIN todo : ws[todo[i]].life = "live"
  /\ todo # <<>> => made \in DOMAIN buffers /\ made > 0

-------------------------------------------------------------------------------
LEMMA MinPair ==
  ASSUME NEW a \in Int, NEW b \in Int
  PROVE  Min({a, b}) = IF a <= b THEN a ELSE b
<1>1. \A x \in {a, b} : (\A y \in {a, b} : x <= y) => x = IF a <= b THEN a ELSE b
  OBVIOUS
<1>2. \E x \in {a, b} : \A y \in {a, b} : x <= y
  OBVIOUS
<1> QED BY <1>1, <1>2 DEF Min

LEMMA SoundAgain ==
  ASSUME NEW k, NEW j, NEW top, Sound(k, top), j \in Sockets, j.messages = k.messages,
         j.in = k.in, j.life = k.life, k.lost => j.lost
  PROVE  Sound(j, top)
BY DEF Sound

LEMMA Sized ==
  ASSUME NEW k \in Sockets, NEW n \in Nat
  PROVE  LET y == [k EXCEPT !.unsent = n, !.lost = TRUE]
         IN  /\ y \in Sockets /\ y.messages = k.messages /\ y.in = k.in /\ y.life = k.life
             /\ y.controls = k.controls /\ y.status = k.status /\ y.lost
BY DEF Sockets

LEMMA FrameSent ==
  ASSUME NEW k \in Sockets, NEW n \in Nat, NEW fault, NEW out, out = frameSent(k, n, fault)
  PROVE  /\ out.k \in Sockets
         /\ out.k.messages = k.messages /\ out.k.in = k.in /\ out.k.life = k.life
         /\ out.k.controls = k.controls
         /\ out.k.status = k.status
         /\ k.lost => out.k.lost
         /\ n = 0 \/ out.sent => out.k.lost = k.lost
         /\ out.sent \in BOOLEAN
<1>1. CASE out = [k |-> k, sent |-> FALSE]
  BY <1>1
<1>2. CASE out = [k |-> [k EXCEPT !.unsent = @ + HeadLen, !.lost = TRUE], sent |-> FALSE] /\ n > 0
  <2> DEFINE y == [k EXCEPT !.unsent = @ + HeadLen, !.lost = TRUE]
  <2>1. k.unsent + HeadLen \in Nat
    BY DEF Sockets, HeadLen
  <2>2. /\ y \in Sockets /\ y.messages = k.messages /\ y.in = k.in /\ y.life = k.life
        /\ y.controls = k.controls /\ y.status = k.status /\ y.lost
    BY <2>1, Sized
  <2>3. out.k = y /\ out.sent = FALSE /\ n # 0
    BY <1>2
  <2> HIDE DEF y
  <2> QED BY <2>2, <2>3
<1>3. CASE out = [k |-> [k EXCEPT !.flight = k.unsent + HeadLen + n, !.unsent = 0], sent |-> TRUE]
  <2> DEFINE v == k.unsent + HeadLen + n
             y == [k EXCEPT !.flight = v, !.unsent = 0]
  <2>1. v \in Nat
    BY DEF Sockets, HeadLen
  <2>0. out.k = y /\ out.sent = TRUE
    BY <1>3
  <2> HIDE DEF v
  <2>2. /\ y \in Sockets /\ y.messages = k.messages /\ y.in = k.in /\ y.life = k.life
        /\ y.controls = k.controls /\ y.status = k.status /\ y.lost = k.lost
    BY <2>1 DEF Sockets
  <2> HIDE DEF y
  <2> QED BY <2>0, <2>2
<1> QED BY <1>1, <1>2, <1>3 DEF frameSent

(* What sending does to a client: the buffers it uses are the same.        *)
Sends(k, j, top) ==
  /\ Sound(j, top) /\ j.life = k.life /\ j.status = k.status
  /\ Bufs(j.messages) = Bufs(k.messages)

LEMMA SendControl ==
  ASSUME NEW k, NEW top, Sound(k, top), k.controls # <<>>, NEW fault
  PROVE  Sends(k, sendControl(k, fault), top)
<1> DEFINE j == [k EXCEPT !.controls[1].finished = TRUE]
<1>1. k \in Sockets /\ k.controls \in Seq(Controls) /\ 1 \in DOMAIN k.controls
  BY DEF Sound, Sockets
<1> DEFINE x == [k.controls[1] EXCEPT !.finished = TRUE]
<1>a. k.controls[1] \in Controls
  BY <1>1
<1>0. x \in Controls
  BY <1>a DEF Controls
<1>2. [k.controls EXCEPT ![1] = x] \in Seq(Controls)
  <2> HIDE DEF x
  <2> QED BY <1>0, <1>1
<1>3. /\ j \in Sockets /\ j.messages = k.messages /\ j.in = k.in /\ j.life = k.life
      /\ j.lost = k.lost /\ j.status = k.status
  BY <1>1, <1>2 DEF Sockets
<1> HIDE DEF j
<1> DEFINE out == frameSent(j, 0, fault)
<1>4. sendControl(k, fault) = out.k
  BY DEF sendControl, j
<1>5. /\ out.k \in Sockets
      /\ out.k.messages = j.messages /\ out.k.in = j.in /\ out.k.life = j.life
      /\ out.k.status = j.status
      /\ out.k.lost = j.lost
  BY <1>3, FrameSent
<1> HIDE DEF out
<1>6. Sound(out.k, top)
  BY <1>3, <1>5, SoundAgain
<1> QED BY <1>3, <1>4, <1>5, <1>6 DEF Sends

LEMMA Window ==
  ASSUME NEW k \in Sockets, window(k) > 0
  PROVE  window(k) \in Nat \ {0}
BY SizesAssumption DEF window, canSend, space, Sockets

(* The message at the front makes progress.                                *)
LEMMA FrontChanged ==
  ASSUME NEW q \in Seq(Messages), q # <<>>, NEW top, Ordered(q, top), NEW x \in Messages,
         x.buf = q[1].buf, x.sent <= MsgLen, x.status = "sent" => x.sent = MsgLen
  PROVE  /\ [q EXCEPT ![1] = x] \in Seq(Messages)
         /\ Ordered([q EXCEPT ![1] = x], top)
         /\ Bufs([q EXCEPT ![1] = x]) = Bufs(q)
         /\ \A in : x.sent = q[1].sent /\ Reads(in, q, top) => Reads(in, [q EXCEPT ![1] = x], top)
<1> DEFINE r == [q EXCEPT ![1] = x]
<1>0. 1 \in DOMAIN q
  OBVIOUS
<1>1. r \in Seq(Messages) /\ DOMAIN r = DOMAIN q /\ r # <<>>
  BY <1>0
<1>2. \A i \in DOMAIN q : r[i] = IF i = 1 THEN x ELSE q[i]
  OBVIOUS
<1> HIDE DEF r
<1>3. \A i \in DOMAIN q : r[i].buf = q[i].buf
  BY <1>2
<1>4. Bufs(r) = Bufs(q)
  BY <1>1, <1>3 DEF Bufs
<1>5. ASSUME NEW i \in DOMAIN q
      PROVE  /\ r[i].buf \in 1..top
             /\ r[i].sent <= MsgLen
             /\ r[i].status = "sent" => r[i].sent = MsgLen
             /\ i > 1 => r[i] = Message(r[i].buf)
  BY <1>0, <1>2 DEF Ordered
<1>6. \A i, j \in DOMAIN q : i < j => r[i].buf < r[j].buf
  BY <1>3 DEF Ordered
<1>7. Ordered(r, top)
  BY <1>1, <1>5, <1>6 DEF Ordered
<1>8. ASSUME NEW in, x.sent = q[1].sent, Reads(in, q, top)
      PROVE  Reads(in, r, top)
  <2>1. \A i \in DOMAIN q : r[i].sent = q[i].sent
    BY <1>2, <1>8
  <2>2. r[1].sent = q[1].sent /\ r[1].buf = q[1].buf
    BY <2>1, <1>0, <1>3
  <2> QED BY <1>1, <1>3, <1>8, <2>1, <2>2 DEF Reads
<1> QED BY <1>1, <1>4, <1>7, <1>8 DEF r

LEMMA SendMessage ==
  ASSUME NEW k, NEW top \in Nat, Sound(k, top), k.life = "live", k.messages # <<>>, window(k) > 0, NEW fault
  PROVE  Sends(k, sendMessage(k, fault), top)
<1> DEFINE q    == k.messages
           m    == q[1]
           n    == Min({MsgLen - m.sent, window(k)})
           out  == frameSent(k, n, fault)
           f    == [op |-> IF m.sent + n = n THEN "text" ELSE "continuation", msg |-> m.buf,
                    len |-> n, fin |-> m.sent + n = MsgLen]
           j    == sendMessage(k, fault)
<1>1. /\ q = k.messages /\ m = q[1]
      /\ k \in Sockets /\ q \in Seq(Messages) /\ q # <<>> /\ m \in Messages /\ 1 \in DOMAIN q /\ Head(q) = m
      /\ k.in \in Readers
  BY DEF Sound, Sockets
<1>2. MsgLen \in Nat \ {0} /\ m.sent \in Nat /\ m.sent <= MsgLen /\ m.buf \in 1..top /\ m.ack \in Nat /\ m.acked \in Int
  BY <1>1, SizesAssumption DEF Sound, Ordered, Messages
<1>3. j = IF m.status # "sending" \/ m.acked < m.ack THEN k
     ELSE IF m.sent = MsgLen THEN [k EXCEPT !.messages = [q EXCEPT ![1] = [m EXCEPT !.status = "sent"]]]
     ELSE IF out.sent
     THEN [out.k EXCEPT !.messages = [out.k.messages EXCEPT ![1] = [m EXCEPT !.sent = m.sent + n, !.ack = m.ack + HeadLen + n]],
                        !.in = read(out.k.in, f)]
     ELSE [out.k EXCEPT !.messages = [out.k.messages EXCEPT ![1] = [m EXCEPT !.ack = m.ack + HeadLen]], !.lost = TRUE]
  BY <1>1 DEF sendMessage, final
<1> HIDE DEF q, m
<1>4. ASSUME NEW x \in Messages, x.buf = m.buf, x.sent <= MsgLen, x.status = "sent" => x.sent = MsgLen
      PROVE  /\ [q EXCEPT ![1] = x] \in Seq(Messages)
             /\ Ordered([q EXCEPT ![1] = x], top)
             /\ Bufs([q EXCEPT ![1] = x]) = Bufs(q)
             /\ x.sent = m.sent /\ Reads(k.in, q, top) => Reads(k.in, [q EXCEPT ![1] = x], top)
  BY <1>1, <1>4, FrontChanged DEF Sound
<1>5. CASE m.status # "sending" \/ m.acked < m.ack
  BY <1>1, <1>3, <1>5 DEF Sends
<1>6. CASE ~(m.status # "sending" \/ m.acked < m.ack) /\ m.sent = MsgLen
  <2> DEFINE x == [m EXCEPT !.status = "sent"]
  <2>1. x \in Messages /\ x.buf = m.buf /\ x.sent = MsgLen /\ x.status = "sent"
    BY <1>1, <1>2, <1>6 DEF Messages
  <2>2. j = [k EXCEPT !.messages = [q EXCEPT ![1] = x]]
    BY <1>3, <1>6
  <2> HIDE DEF x, j
  <2>3. /\ [q EXCEPT ![1] = x] \in Seq(Messages)
        /\ Ordered([q EXCEPT ![1] = x], top)
        /\ Bufs([q EXCEPT ![1] = x]) = Bufs(q)
    BY <2>1, <1>2, <1>4
  <2>4. j \in Sockets /\ j.messages = [q EXCEPT ![1] = x] /\ j.in = k.in /\ j.life = k.life /\ j.lost = k.lost /\ j.status = k.status
    BY <2>2, <2>3, <1>1 DEF Sockets
  <2>5. ASSUME Reads(k.in, q, top)
        PROVE  Reads(j.in, j.messages, top)
    BY <2>5, <2>4, <2>1, <1>1, <1>2, <1>6 DEF Reads
  <2>6. Sound(j, top)
    BY <1>1, <2>3, <2>4, <2>5 DEF Sound
  <2> QED BY <1>1, <2>3, <2>4, <2>6 DEF Sends, j
<1>7. CASE ~(m.status # "sending" \/ m.acked < m.ack) /\ m.sent # MsgLen
  <2>0. MsgLen - m.sent \in Nat \ {0} /\ window(k) \in Nat \ {0}
    BY <1>1, <1>2, <1>7, Window
  <2>1. n \in Nat \ {0} /\ m.sent + n <= MsgLen
    <3>1. n = IF MsgLen - m.sent <= window(k) THEN MsgLen - m.sent ELSE window(k)
      BY <2>0, MinPair
    <3> QED BY <3>1, <2>0, <1>2
  <2> HIDE DEF n
  <2>2. /\ out.k \in Sockets
        /\ out.k.messages = q /\ out.k.in = k.in /\ out.k.life = k.life
        /\ out.k.status = k.status
        /\ k.lost => out.k.lost
        /\ out.sent => out.k.lost = k.lost
        /\ out.sent \in BOOLEAN
    BY <1>1, <2>1, FrameSent
  <2> HIDE DEF out
  <2>3. CASE out.sent
    <3> DEFINE x == [m EXCEPT !.sent = m.sent + n, !.ack = m.ack + HeadLen + n]
               r == read(k.in, f)
    <3>1. x \in Messages /\ x.buf = m.buf /\ x.sent = m.sent + n /\ x.status = "sending"
      <4>1. m.sent + n \in Nat /\ m.ack + HeadLen + n \in Nat /\ m.status = "sending"
        BY <1>2, <1>7, <2>1, SMTT(20) DEF HeadLen
      <4>2. m \in Messages
        BY <1>1
      <4> DEFINE a == m.sent + n
                 b == m.ack + HeadLen + n
      <4>3. a \in Nat /\ b \in Nat /\ x = [m EXCEPT !.sent = a, !.ack = b]
        BY <4>1
      <4> HIDE DEF a, b, x
      <4>4. x \in Messages /\ x.buf = m.buf /\ x.sent = a /\ x.status = m.status
        BY <4>2, <4>3 DEF Messages
      <4> QED BY <4>1, <4>4 DEF a
    <3>2. j = [out.k EXCEPT !.messages = [q EXCEPT ![1] = x], !.in = r]
      BY <1>3, <1>7, <2>2, <2>3
    <3>3. r \in Readers
      <4>1. k.in \in Readers /\ m.buf \in Nat /\ n \in Nat
        BY <1>1, <1>2, <2>1
      <4>2. f.msg \in Nat /\ f.len \in Nat /\ f.fin \in BOOLEAN
        BY <4>1
      <4> HIDE DEF f
      <4> QED BY <4>1, <4>2 DEF read, Readers
    <3>4. ASSUME Reads(k.in, q, top)
          PROVE  Reads(r, [q EXCEPT ![1] = x], top)
      <4>1. /\ ~k.in.bad /\ k.in.last <= top /\ k.in.last < m.buf
            /\ m.sent # 0 => k.in.open = m.buf /\ k.in.got = m.sent
            /\ m.sent = 0 => k.in.open = 0
        BY <3>4, <1>1, <1>2, <1>7 DEF Reads
      <4>2. r = [open |-> IF m.sent + n = MsgLen THEN 0 ELSE m.buf,
                 got |-> IF m.sent + n = MsgLen THEN 0 ELSE m.sent + n,
                 last |-> IF m.sent + n = MsgLen THEN m.buf ELSE k.in.last, bad |-> FALSE]
        <5>1. k.in \in Readers
          BY <1>1
        <5>2. (m.sent + n = n) <=> (m.sent = 0)
          BY <1>2, <2>1
        <5>3. CASE m.sent = 0
          BY <5>1, <5>2, <5>3, <4>1, <1>2, <2>1 DEF read, Readers
        <5>4. CASE m.sent # 0
          <6>1. f.op # "text" /\ f.msg = m.buf /\ f.len = n /\ f.fin = (m.sent + n = MsgLen)
            BY <5>2, <5>4
          <6>2. m.buf # 0 /\ m.buf > k.in.last /\ k.in.open = m.buf /\ k.in.got = m.sent /\ ~k.in.bad
            BY <5>4, <4>1, <1>2, <5>1 DEF Readers
          <6> HIDE DEF f
          <6> QED BY <6>1, <6>2, <2>1, <1>2 DEF read
        <5> QED BY <5>3, <5>4
      <4> HIDE DEF r, x
      <4>3. \A i \in DOMAIN q : i > 1 => q[i].buf > m.buf /\ q[i].sent = 0
        <5>1. \A i \in DOMAIN q : i > 1 => q[1].buf < q[i].buf /\ q[i] = Message(q[i].buf) /\ q[i].buf \in Nat
          BY <1>1 DEF Sound, Ordered
        <5>2. 1 \in DOMAIN q /\ m = q[1]
          BY <1>1
        <5>3. \A b : Message(b).sent = 0
          BY DEF Message
        <5> QED BY <5>1, <5>2, <5>3, <1>2
      <4>4. \A i \in DOMAIN q : [q EXCEPT ![1] = x][i] = IF i = 1 THEN x ELSE q[i]
        BY <1>1
      <4>5. DOMAIN [q EXCEPT ![1] = x] = DOMAIN q /\ [q EXCEPT ![1] = x] # <<>> /\ [q EXCEPT ![1] = x][1] = x
        BY <1>1
      <4>6. r.last <= top /\ ~r.bad
        BY <4>1, <4>2, <1>2
      <4>7. ASSUME NEW i \in DOMAIN q, [q EXCEPT ![1] = x][i].sent # MsgLen
            PROVE  r.last < [q EXCEPT ![1] = x][i].buf
        <5>1. CASE i = 1
          BY <5>1, <4>7, <4>5, <4>2, <3>1, <4>1, <1>2
        <5>2. CASE i # 1
          <6>1. q[i].buf > m.buf /\ q[i].sent = 0 /\ [q EXCEPT ![1] = x][i] = q[i] /\ q[i].buf \in Nat
            <7>1. i > 1 /\ q[i] \in Messages
              BY <5>2, <1>1
            <7> QED BY <7>1, <5>2, <4>3, <4>4 DEF Messages
          <6>2. k.in.last < q[i].buf
            <7>1. k.in.last \in Nat
              BY <1>1 DEF Readers
            <7>2. m.buf \in Nat /\ k.in.last < m.buf
              BY <1>2, <4>1
            <7> QED BY <7>1, <7>2, <6>1
          <6> QED BY <6>1, <6>2, <4>2
        <5> QED BY <5>1, <5>2
      <4>8. IF [q EXCEPT ![1] = x] # <<>> /\ [q EXCEPT ![1] = x][1].sent \in 1..(MsgLen - 1)
            THEN r.open = [q EXCEPT ![1] = x][1].buf /\ r.got = [q EXCEPT ![1] = x][1].sent
            ELSE r.open = 0
        <5>1. [q EXCEPT ![1] = x][1].sent = m.sent + n /\ [q EXCEPT ![1] = x][1].buf = m.buf
          BY <4>5, <3>1
        <5>2. m.sent + n \in 1..(MsgLen - 1) <=> m.sent + n # MsgLen
          BY <1>2, <2>1
        <5>3. /\ r.open = IF m.sent + n = MsgLen THEN 0 ELSE m.buf
              /\ m.sent + n # MsgLen => r.got = m.sent + n
          BY <4>2
        <5> QED BY <4>5, <5>1, <5>2, <5>3
      <4> QED BY <4>5, <4>6, <4>7, <4>8 DEF Reads
    <3> HIDE DEF x, j, r
    <3>5. /\ [q EXCEPT ![1] = x] \in Seq(Messages)
          /\ Ordered([q EXCEPT ![1] = x], top)
          /\ Bufs([q EXCEPT ![1] = x]) = Bufs(q)
      BY <3>1, <2>1, <1>4
    <3>6. j \in Sockets /\ j.messages = [q EXCEPT ![1] = x] /\ j.in = r /\ j.life = k.life /\ j.lost = k.lost /\ j.status = k.status
      BY <3>2, <3>3, <3>5, <2>2, <2>3 DEF Sockets
    <3>7. ~k.lost => Reads(k.in, q, top)
      BY <1>1 DEF Sound
    <3>8. ~r.bad \/ k.lost
      BY <3>7, <3>4 DEF Reads
    <3>9. Sound(j, top)
      BY <3>4, <3>5, <3>6, <3>7, <3>8 DEF Sound
    <3> QED BY <1>1, <3>5, <3>6, <3>9 DEF Sends, j
  <2>4. CASE ~out.sent
    <3> DEFINE x == [m EXCEPT !.ack = m.ack + HeadLen]
    <3>1. x \in Messages /\ x.buf = m.buf /\ x.sent = m.sent /\ x.status = "sending"
      <4>1. m.ack + HeadLen \in Nat /\ m.status = "sending"
        BY SMTT(20), <1>1, <1>2, <1>7, <2>1 DEF Messages, HeadLen
      <4> QED BY <4>1, <1>1 DEF Messages
    <3>2. j = [out.k EXCEPT !.messages = [q EXCEPT ![1] = x], !.lost = TRUE]
      BY <1>3, <1>7, <2>2, <2>4
    <3> HIDE DEF x, j
    <3>3. /\ [q EXCEPT ![1] = x] \in Seq(Messages)
          /\ Ordered([q EXCEPT ![1] = x], top)
          /\ Bufs([q EXCEPT ![1] = x]) = Bufs(q)
      BY <3>1, <1>2, <1>4
    <3>4. j \in Sockets /\ j.messages = [q EXCEPT ![1] = x] /\ j.life = k.life /\ j.lost /\ j.status = k.status
      BY <3>2, <3>3, <2>2 DEF Sockets
    <3>5. Sound(j, top)
      BY <3>3, <3>4 DEF Sound
    <3> QED BY <1>1, <3>3, <3>4, <3>5 DEF Sends, j
  <2> QED BY <2>2, <2>3, <2>4
<1> QED BY <1>5, <1>6, <1>7

LEMMA MinIs ==
  ASSUME NEW T \in SUBSET Int, NEW x \in T, \A y \in T : x <= y
  PROVE  Min(T) = x
<1>1. \A z \in T : (\A y \in T : z <= y) => z = x
  OBVIOUS
<1> QED BY <1>1 DEF Min

LEMMA NatSize == \A n \in Nat : n # 0 => n >= 1 /\ (n = 1 \/ n > 1)
OBVIOUS

LEMMA SeqSize ==
  ASSUME NEW M, NEW q \in Seq(M), q # <<>>
  PROVE  Len(q) \in Nat /\ Len(q) >= 1 /\ (Len(q) = 1 \/ Len(q) > 1)
<1> DEFINE n == Len(q)
<1>1. n \in Nat \ {0}
  BY EmptySeq
<1> HIDE DEF n
<1>2. n \in Nat /\ n >= 1 /\ (n = 1 \/ n > 1)
  BY <1>1, NatSize
<1> QED BY <1>2 DEF n

LEMMA FrontOnly ==
  ASSUME NEW M, NEW q \in Seq(M), q # <<>>
  PROVE  SubSeq(q, 1, 1) = << q[1] >>
<1> DEFINE a == SubSeq(q, 1, 1)
           b == << q[1] >>
<1>1. Len(q) >= 1
  BY SeqSize
<1>2. a \in Seq(M) /\ Len(a) = 1 /\ a[1] = q[1]
  BY <1>1, SubSeqProperties
<1>3. b \in Seq(M) /\ Len(b) = 1 /\ b[1] = q[1]
  BY <1>1
<1> HIDE DEF a, b
<1>4. \A i \in 1..Len(a) : a[i] = b[i]
  BY <1>2, <1>3
<1>5. a = b
  BY <1>2, <1>3, <1>4, SeqEqual
<1> QED BY <1>5 DEF a, b

LEMMA SingleSeq ==
  ASSUME NEW M, NEW q \in Seq(M), Len(q) = 1
  PROVE  Tail(q) = <<>> /\ q = << q[1] >>
<1>1. q # <<>>
  BY EmptySeq
<1>2. Tail(q) = SubSeq(q, 2, 1)
  BY <1>1, TailIsSubSeq
<1>3. SubSeq(q, 2, 1) = <<>>
  BY SubSeqEmpty
<1>4. q = << q[1] >>
  BY <1>1, FrontOnly, SubSeqFull
<1> QED BY <1>2, <1>3, <1>4

(* What runQueue() takes out: nothing, or the message at the front, sent.  *)
LEMMA Cut ==
  ASSUME NEW q \in Seq(Messages), NEW top, Ordered(q, top)
  PROVE  LET I    == {i \in 1..Len(q) : ~finished(q[i])}
             done == IF I # {} THEN Min(I) ELSE 0
             rest == IF done = 0 THEN <<>> ELSE SubSeq(q, done, Len(q))
             gone == IF done = 0 THEN q ELSE SubSeq(q, 1, done - 1)
         IN  \/ rest = q /\ gone = <<>>
             \/ q # <<>> /\ q[1].sent = MsgLen /\ rest = Tail(q) /\ gone = << q[1] >>
<1> DEFINE I == {i \in 1..Len(q) : ~finished(q[i])}
           done == IF I # {} THEN Min(I) ELSE 0
           rest == IF done = 0 THEN <<>> ELSE SubSeq(q, done, Len(q))
           gone == IF done = 0 THEN q ELSE SubSeq(q, 1, done - 1)
<1>1. SUFFICES \/ rest = q /\ gone = <<>>
               \/ q # <<>> /\ q[1].sent = MsgLen /\ rest = Tail(q) /\ gone = << q[1] >>
  OBVIOUS
<1>2. \A i \in 1..Len(q) : i > 1 => i \in I
  <2>1. \A b : ~finished(Message(b))
    BY DEF finished, Message
  <2> QED BY <2>1 DEF Ordered
<1>3. CASE q = <<>>
  <2>1. I = {}
    BY <1>3
  <2>2. done = 0
    BY <2>1
  <2> HIDE DEF I, done
  <2> QED BY <1>3, <2>2
<1>4. CASE q # <<>> /\ ~finished(q[1])
  <2>1. 1 \in I /\ I \in SUBSET Int /\ \A y \in I : 1 <= y
    BY <1>4, SeqSize
  <2> HIDE DEF I
  <2>2. done = 1
    BY <2>1, MinIs
  <2> HIDE DEF done
  <2>3. rest = SubSeq(q, 1, Len(q)) /\ gone = SubSeq(q, 1, 0)
    BY <2>2
  <2>4. SubSeq(q, 1, Len(q)) = q /\ SubSeq(q, 1, 0) = <<>>
    BY SubSeqFull, SubSeqEmpty
  <2>5. rest = q /\ gone = <<>>
    BY <2>3, <2>4
  <2> QED BY <2>5
<1>5. ASSUME q # <<>>, finished(q[1])
      PROVE  q[1].sent = MsgLen
  <2>1. q[1] \in Messages /\ 1 \in DOMAIN q
    BY <1>5
  <2>2. q[1].status = "sent"
    BY <1>5, <2>1 DEF finished, Messages
  <2> QED BY <2>1, <2>2 DEF Ordered
<1>6. CASE q # <<>> /\ finished(q[1]) /\ Len(q) = 1
  <2>1. I = {}
    BY <1>6
  <2>2. done = 0
    BY <2>1
  <2> HIDE DEF I, done
  <2>3. rest = <<>> /\ gone = q
    BY <2>2
  <2>4. rest = Tail(q) /\ gone = << q[1] >>
    BY <1>6, <2>3, SingleSeq
  <2> HIDE DEF rest, gone
  <2> QED BY <1>5, <1>6, <2>4
<1>7. CASE q # <<>> /\ finished(q[1]) /\ Len(q) > 1
  <2>1. 2 \in I /\ I \in SUBSET Int /\ \A y \in I : 2 <= y
    BY <1>7, <1>2
  <2> HIDE DEF I
  <2>2. done = 2
    BY <2>1, MinIs
  <2> HIDE DEF done
  <2>3. rest = SubSeq(q, 2, Len(q)) /\ gone = SubSeq(q, 1, 1)
    BY <2>2
  <2>4. rest = Tail(q) /\ gone = << q[1] >>
    BY <1>7, <2>3, TailIsSubSeq, FrontOnly
  <2>5. q # <<>> /\ q[1].sent = MsgLen
    BY <1>5, <1>7
  <2> QED BY <2>4, <2>5
<1> HIDE DEF rest, gone
<1> QED BY <1>3, <1>4, <1>6, <1>7, SeqSize

LEMMA OrderedTail ==
  ASSUME NEW q \in Seq(Messages), q # <<>>, NEW top \in Nat, Ordered(q, top)
  PROVE  /\ Tail(q) \in Seq(Messages) /\ Ordered(Tail(q), top)
         /\ Bufs(q) = Bufs(<< q[1] >>) \cup Bufs(Tail(q))
         /\ Bufs(<< q[1] >>) \cap Bufs(Tail(q)) = {}
<1>1. /\ Tail(q) \in Seq(Messages) /\ DOMAIN Tail(q) = 1..(Len(q) - 1)
      /\ \A i \in DOMAIN Tail(q) : i + 1 \in DOMAIN q /\ Tail(q)[i] = q[i + 1]
  OBVIOUS
<1>2. Ordered(Tail(q), top)
  <2>1. ASSUME NEW i \in DOMAIN Tail(q)
        PROVE  /\ Tail(q)[i].buf \in 1..top
               /\ Tail(q)[i].sent <= MsgLen
               /\ Tail(q)[i].status = "sent" => Tail(q)[i].sent = MsgLen
               /\ i > 1 => Tail(q)[i] = Message(Tail(q)[i].buf)
    <3>1. i + 1 \in DOMAIN q /\ Tail(q)[i] = q[i + 1] /\ i \in Nat
      BY <1>1
    <3> QED BY <3>1 DEF Ordered
  <2>2. ASSUME NEW i \in DOMAIN Tail(q), NEW j \in DOMAIN Tail(q), i < j
        PROVE  Tail(q)[i].buf < Tail(q)[j].buf
    <3>1. /\ i + 1 \in DOMAIN q /\ j + 1 \in DOMAIN q /\ i + 1 < j + 1
          /\ Tail(q)[i] = q[i + 1] /\ Tail(q)[j] = q[j + 1]
      BY <1>1, <2>2
    <3> QED BY <3>1 DEF Ordered
  <2> QED BY <2>1, <2>2 DEF Ordered
<1>3. Bufs(<< q[1] >>) = {q[1].buf}
  BY DEF Bufs
<1>4. Bufs(q) \subseteq {q[1].buf} \cup Bufs(Tail(q))
  <2> SUFFICES ASSUME NEW i \in DOMAIN q PROVE q[i].buf \in {q[1].buf} \cup Bufs(Tail(q))
    BY DEF Bufs
  <2>1. CASE i = 1
    BY <2>1
  <2>2. CASE i # 1
    <3>1. i - 1 \in DOMAIN Tail(q) /\ Tail(q)[i - 1] = q[i]
      BY <2>2
    <3> QED BY <3>1 DEF Bufs
  <2> QED BY <2>1, <2>2
<1>5. {q[1].buf} \cup Bufs(Tail(q)) \subseteq Bufs(q)
  BY <1>1 DEF Bufs
<1>6. q[1].buf \notin Bufs(Tail(q))
  <2>1. \A i \in DOMAIN Tail(q) : q[1].buf < Tail(q)[i].buf /\ q[1].buf \in Nat /\ Tail(q)[i].buf \in Nat
    BY <1>1 DEF Ordered
  <2> QED BY <2>1 DEF Bufs
<1> QED BY <1>1, <1>2, <1>3, <1>4, <1>5, <1>6

LEMMA ReadsTail ==
  ASSUME NEW q \in Seq(Messages), q # <<>>, NEW top \in Nat, Ordered(q, top), q[1].sent = MsgLen,
         NEW in, Reads(in, q, top)
  PROVE  Reads(in, Tail(q), top)
<1>1. /\ DOMAIN Tail(q) = 1..(Len(q) - 1)
      /\ \A i \in DOMAIN Tail(q) : i + 1 \in DOMAIN q /\ Tail(q)[i] = q[i + 1]
  OBVIOUS
<1>2. \A i \in DOMAIN Tail(q) : Tail(q)[i].sent = 0
  <2>1. \A b : Message(b).sent = 0
    BY DEF Message
  <2> QED BY <1>1, <2>1 DEF Ordered
<1>3. in.open = 0
  BY SizesAssumption DEF Reads
<1>4. Tail(q) # <<>> => Tail(q)[1].sent = 0
  <2>1. Tail(q) # <<>> => 1 \in DOMAIN Tail(q)
    OBVIOUS
  <2> QED BY <1>2, <2>1
<1>5. \A i \in DOMAIN Tail(q) : Tail(q)[i].sent # MsgLen => in.last < Tail(q)[i].buf
  BY <1>1 DEF Reads
<1> QED BY <1>3, <1>4, <1>5 DEF Reads

-------------------------------------------------------------------------------
LEMMA HoldersFinite ==
  ASSUME NEW w, NEW b
  PROVE  IsFiniteSet(Holders(w, b)) /\ Cardinality(Holders(w, b)) \in Nat
BY ClientsAssumption, FS_Subset, FS_CardinalityType DEF Holders

LEMMA Kept ==
  ASSUME NEW w, w = [c \in Clients |-> w[c]], NEW bs, Counted(w, bs), NEW c \in Clients,
         NEW k, Bufs(k.messages) = Bufs(w[c].messages)
  PROVE  Counted([w EXCEPT ![c] = k], bs)
<1>1. \A b : Holders([w EXCEPT ![c] = k], b) = Holders(w, b)
  BY DEF Holders
<1> QED BY <1>1 DEF Counted

(* Where a queue holds a buffer.                                           *)
At(q, b) == {i \in DOMAIN q : q[i].buf = b}

(* The buffers without those of the messages in q, each in it once.        *)
Once(q) == \A i, j \in DOMAIN q : q[i].buf = q[j].buf => i = j
Without(bs, bt, q) ==
  /\ bt = [b \in DOMAIN bs |-> bt[b]]
  /\ \A b \in DOMAIN bs : bt[b] = bs[b] - Cardinality(At(q, b))
Clientwise(w) == w = [c \in Clients |-> w[c]]
Parts(q, q1, q2) == Bufs(q) = Bufs(q1) \cup Bufs(q2) /\ Bufs(q1) \cap Bufs(q2) = {}

LEMMA Released ==
  ASSUME NEW w, Clientwise(w), NEW bs, Counted(w, bs), NEW c \in Clients, NEW k,
         NEW gone, Once(gone), Parts(w[c].messages, gone, k.messages),
         NEW bt, Without(bs, bt, gone)
  PROVE  Counted([w EXCEPT ![c] = k], bt)
<1>0. /\ w = [d \in Clients |-> w[d]]
      /\ \A i, j \in DOMAIN gone : gone[i].buf = gone[j].buf => i = j
      /\ Bufs(w[c].messages) = Bufs(gone) \cup Bufs(k.messages)
      /\ Bufs(gone) \cap Bufs(k.messages) = {}
      /\ bt = [b \in DOMAIN bs |-> bt[b]]
      /\ \A b \in DOMAIN bs : bt[b] = bs[b] - Cardinality(At(gone, b))
  BY DEF Clientwise, Once, Parts, Without
<1> DEFINE v == [w EXCEPT ![c] = k]
<1>1. \A d \in Clients : v[d] = IF d = c THEN k ELSE w[d]
  BY <1>0
<1> HIDE DEF v
<1>2. ASSUME NEW b, b \in Bufs(gone)
      PROVE  /\ Holders(v, b) = Holders(w, b) \ {c} /\ c \in Holders(w, b)
             /\ Cardinality(At(gone, b)) = 1
  <2>1. PICK i \in DOMAIN gone : gone[i].buf = b
    BY <1>2 DEF Bufs
  <2>2. At(gone, b) = {i}
    BY <2>1, <1>0 DEF At
  <2>3. Cardinality(At(gone, b)) = 1
    BY <2>2, FS_Singleton
  <2> QED BY <1>0, <1>1, <1>2, <2>3 DEF Holders
<1>3. ASSUME NEW b, b \notin Bufs(gone)
      PROVE  /\ Holders(v, b) = Holders(w, b)
             /\ Cardinality(At(gone, b)) = 0
  <2>1. At(gone, b) = {}
    BY <1>3 DEF Bufs, At
  <2>2. Cardinality(At(gone, b)) = 0
    BY <2>1, FS_EmptySet
  <2> QED BY <1>0, <1>1, <1>3, <2>2 DEF Holders
<1>4. ASSUME NEW b \in DOMAIN bs
      PROVE  bt[b] = Cardinality(Holders(v, b))
  <2>1. bs[b] = Cardinality(Holders(w, b)) /\ bs[b] \in Nat /\ IsFiniteSet(Holders(w, b))
    BY HoldersFinite DEF Counted
  <2>2. CASE b \in Bufs(gone)
    <3>1. Cardinality(Holders(w, b) \ {c}) = Cardinality(Holders(w, b)) - 1
      BY <2>1, <2>2, <1>2, FS_RemoveElement
    <3> QED BY <3>1, <2>1, <2>2, <1>0, <1>2
  <2>3. CASE b \notin Bufs(gone)
    BY <2>1, <2>3, <1>0, <1>3
  <2> QED BY <2>2, <2>3
<1>5. ASSUME NEW b, Holders(v, b) # {}
      PROVE  b \in DOMAIN bs
  <2>1. Holders(w, b) # {}
    BY <1>5, <1>2, <1>3
  <2> QED BY <2>1 DEF Counted
<1>6. bt = [b \in DOMAIN bt |-> bt[b]] /\ DOMAIN bt = DOMAIN bs
  BY <1>0
<1> QED BY <1>4, <1>5, <1>6 DEF Counted, v

LEMMA Added ==
  ASSUME NEW w, w = [c \in Clients |-> w[c]], NEW bs, Counted(w, bs), NEW c \in Clients, NEW k,
         NEW new \in DOMAIN bs, new \notin Bufs(w[c].messages),
         Bufs(k.messages) = Bufs(w[c].messages) \cup {new}
  PROVE  Counted([w EXCEPT ![c] = k], [bs EXCEPT ![new] = @ + 1])
<1> DEFINE v == [w EXCEPT ![c] = k]
           bt == [bs EXCEPT ![new] = @ + 1]
<1>1. \A d \in Clients : v[d] = IF d = c THEN k ELSE w[d]
  OBVIOUS
<1>2. bs = [b \in DOMAIN bs |-> bs[b]]
  BY DEF Counted
<1>3. bt = [b \in DOMAIN bs |-> bt[b]] /\ DOMAIN bt = DOMAIN bs
  BY <1>2
<1>4. \A b \in DOMAIN bs : bt[b] = IF b = new THEN bs[b] + 1 ELSE bs[b]
  BY <1>2
<1> HIDE DEF v, bt
<1>5. \A b : b # new => Holders(v, b) = Holders(w, b)
  BY <1>1 DEF Holders
<1>6. Holders(v, new) = Holders(w, new) \cup {c} /\ c \notin Holders(w, new)
  BY <1>1 DEF Holders
<1>7. Cardinality(Holders(v, new)) = Cardinality(Holders(w, new)) + 1
  BY <1>6, HoldersFinite, FS_AddElement
<1>8. \A b \in DOMAIN bt : bt[b] = Cardinality(Holders(v, b))
  BY <1>3, <1>4, <1>5, <1>7 DEF Counted
<1>9. \A b : Holders(v, b) # {} => b \in DOMAIN bt
  BY <1>3, <1>5 DEF Counted
<1> QED BY <1>3, <1>8, <1>9 DEF Counted, v, bt

LEMMA CleanedCounts ==
  ASSUME NEW w, NEW bs, Counted(w, bs),
         NEW bt, bt = [b \in {x \in DOMAIN bs : bs[x] # 0} |-> bs[b]]
  PROVE  Counted(w, bt)
<1>1. DOMAIN bt = {x \in DOMAIN bs : bs[x] # 0} /\ (\A b \in DOMAIN bt : bt[b] = bs[b]) /\ bt = [b \in DOMAIN bt |-> bt[b]]
  OBVIOUS
<1>2. ASSUME NEW b, Holders(w, b) # {}
      PROVE  b \in DOMAIN bt
  <2>1. b \in DOMAIN bs /\ bs[b] = Cardinality(Holders(w, b))
    BY <1>2 DEF Counted
  <2>2. bs[b] # 0
    BY <1>2, <2>1, HoldersFinite, FS_EmptySet
  <2> QED BY <1>1, <2>1, <2>2
<1> QED BY <1>1, <1>2 DEF Counted

(* The records that the operators change.                                  *)
WellFormed(s) ==
  /\ s = [ws |-> s.ws, order |-> s.order, buffers |-> s.buffers]
  /\ s.ws = [c \in Clients |-> s.ws[c]]
  /\ Counted(s.ws, s.buffers)

(* A change to one client and the buffers.                                 *)
Turns(s, t, c, top) ==
  /\ WellFormed(t) /\ t.order = s.order
  /\ \A d \in Clients : d # c => t.ws[d] = s.ws[d]
  /\ Sound(t.ws[c], top) /\ t.ws[c].life = s.ws[c].life

LEMMA RunQueue ==
  ASSUME NEW s, WellFormed(s), NEW c \in Clients, NEW top \in Nat, Sound(s.ws[c], top),
         s.ws[c].life = "live", NEW fault
  PROVE  /\ Turns(s, runQueue(s, c, fault), c, top)
         /\ DOMAIN runQueue(s, c, fault).buffers = DOMAIN s.buffers
<1> DEFINE q    == s.ws[c].messages
           I    == {i \in 1..Len(q) : ~finished(q[i])}
           done == IF I # {} THEN Min(I) ELSE 0
           rest == IF done = 0 THEN <<>> ELSE SubSeq(q, done, Len(q))
           gone == IF done = 0 THEN q ELSE SubSeq(q, 1, done - 1)
           k    == [s.ws[c] EXCEPT !.messages = rest]
           free == rest = <<>> \/ betweenFrames(Head(rest))
           after == IF k.controls # <<>> /\ free /\ window(k) > 1 THEN sendControl(k, fault)
                    ELSE IF rest # <<>> /\ free /\ window(k) > 0 THEN sendMessage(k, fault)
                    ELSE k
           t    == runQueue(s, c, fault)
<1>1. t = release([s EXCEPT !.ws[c] = after], gone)
  BY DEF runQueue, SelectInSeq
<1>2. s.ws[c] \in Sockets /\ q \in Seq(Messages) /\ Ordered(q, top)
  BY DEF Sound, Sockets
<1>3. \/ rest = q /\ gone = <<>>
      \/ q # <<>> /\ q[1].sent = MsgLen /\ rest = Tail(q) /\ gone = << q[1] >>
  BY <1>2, Cut
<1> HIDE DEF I, done, rest, gone
<1>4. /\ rest \in Seq(Messages) /\ Ordered(rest, top)
      /\ Bufs(q) = Bufs(gone) \cup Bufs(rest) /\ Bufs(gone) \cap Bufs(rest) = {}
      /\ \A i, j \in DOMAIN gone : gone[i].buf = gone[j].buf => i = j
      /\ Reads(s.ws[c].in, q, top) => Reads(s.ws[c].in, rest, top)
  <2>1. CASE rest = q /\ gone = <<>>
    <3>1. Bufs(gone) = {}
      BY <2>1 DEF Bufs
    <3> QED BY <2>1, <3>1, <1>2
  <2>2. CASE q # <<>> /\ q[1].sent = MsgLen /\ rest = Tail(q) /\ gone = << q[1] >>
    <3> HIDE DEF q
    <3>1. /\ Tail(q) \in Seq(Messages) /\ Ordered(Tail(q), top)
          /\ Bufs(q) = Bufs(<< q[1] >>) \cup Bufs(Tail(q))
          /\ Bufs(<< q[1] >>) \cap Bufs(Tail(q)) = {}
      BY <2>2, <1>2, OrderedTail
    <3>2. Reads(s.ws[c].in, q, top) => Reads(s.ws[c].in, Tail(q), top)
      BY <2>2, <1>2, ReadsTail
    <3>3. DOMAIN gone = {1}
      BY <2>2
    <3>4. \A i, j \in DOMAIN gone : gone[i].buf = gone[j].buf => i = j
      BY <3>3
    <3> QED BY <2>2, <3>1, <3>2, <3>4
  <2> QED BY <1>3, <2>1, <2>2
<1>5. k \in Sockets /\ k.messages = rest /\ k.in = s.ws[c].in /\ k.life = "live" /\ k.lost = s.ws[c].lost
  BY <1>2, <1>4 DEF Sockets
<1>6. Sound(k, top)
  BY <1>4, <1>5 DEF Sound
<1> HIDE DEF k
<1>7. Sends(k, after, top)
  <2>1. CASE k.controls # <<>> /\ free /\ window(k) > 1
    BY <2>1, <1>6, SendControl
  <2>2. CASE ~(k.controls # <<>> /\ free /\ window(k) > 1) /\ rest # <<>> /\ free /\ window(k) > 0
    BY <2>2, <1>5, <1>6, SendMessage
  <2>3. CASE ~(k.controls # <<>> /\ free /\ window(k) > 1) /\ ~(rest # <<>> /\ free /\ window(k) > 0)
    BY <2>3, <1>6 DEF Sends
  <2> QED BY <2>1, <2>2, <2>3
<1> HIDE DEF after
<1> DEFINE bt == [b \in DOMAIN s.buffers |-> s.buffers[b] - Cardinality({i \in DOMAIN gone : gone[i].buf = b})]
<1>8. t = [ws |-> [s.ws EXCEPT ![c] = after], order |-> s.order, buffers |-> bt]
  <2>1. s = [ws |-> s.ws, order |-> s.order, buffers |-> s.buffers]
    BY DEF WellFormed
  <2> HIDE DEF t
  <2> QED BY <1>1, <2>1 DEF release
<1>9. Counted([s.ws EXCEPT ![c] = after], bt)
  <2>1. Parts(s.ws[c].messages, gone, after.messages)
    BY <1>4, <1>5, <1>7 DEF Sends, Parts
  <2>2. Clientwise(s.ws) /\ Counted(s.ws, s.buffers)
    BY DEF WellFormed, Clientwise
  <2>3. Once(gone)
    BY <1>4 DEF Once
  <2>4. Without(s.buffers, bt, gone)
    BY DEF At, Without
  <2> HIDE DEF bt
  <2> QED BY <2>1, <2>2, <2>3, <2>4, Released
<1> HIDE DEF t
<1>10. /\ t.ws = [s.ws EXCEPT ![c] = after] /\ t.order = s.order /\ t.buffers = bt
       /\ t = [ws |-> t.ws, order |-> t.order, buffers |-> t.buffers]
       /\ DOMAIN bt = DOMAIN s.buffers
  BY <1>8
<1>11. t.ws[c] = after /\ (\A d \in Clients : d # c => t.ws[d] = s.ws[d]) /\ t.ws = [d \in Clients |-> t.ws[d]]
  BY <1>10 DEF WellFormed
<1>12. Turns(s, t, c, top)
  BY <1>5, <1>7, <1>9, <1>10, <1>11 DEF Turns, WellFormed, Sends
<1> QED BY <1>10, <1>12 DEF t

LEMMA TurnsTwice ==
  ASSUME NEW s, NEW t, NEW u, NEW c, NEW top, NEW top2, Turns(s, t, c, top), Turns(t, u, c, top2)
  PROVE  Turns(s, u, c, top2)
BY DEF Turns

(* A change of one client that keeps its queue.                            *)
LEMMA Turned ==
  ASSUME NEW s, WellFormed(s), NEW c \in Clients, NEW top, NEW k, Sound(k, top),
         k.life = s.ws[c].life, Bufs(k.messages) = Bufs(s.ws[c].messages)
  PROVE  /\ Turns(s, [s EXCEPT !.ws[c] = k], c, top)
         /\ [s EXCEPT !.ws[c] = k].ws[c] = k /\ [s EXCEPT !.ws[c] = k].buffers = s.buffers
<1> DEFINE t == [s EXCEPT !.ws[c] = k]
<1>1. t = [ws |-> [s.ws EXCEPT ![c] = k], order |-> s.order, buffers |-> s.buffers]
  BY DEF WellFormed
<1>2. Counted([s.ws EXCEPT ![c] = k], s.buffers)
  BY Kept DEF WellFormed
<1> HIDE DEF t
<1>3. /\ t.ws = [s.ws EXCEPT ![c] = k] /\ t.order = s.order /\ t.buffers = s.buffers
      /\ t = [ws |-> t.ws, order |-> t.order, buffers |-> t.buffers]
  BY <1>1
<1>4. t.ws[c] = k /\ (\A d \in Clients : d # c => t.ws[d] = s.ws[d]) /\ t.ws = [d \in Clients |-> t.ws[d]]
  BY <1>3 DEF WellFormed
<1>5. Turns(s, t, c, top)
  BY <1>2, <1>3, <1>4 DEF Turns, WellFormed
<1> QED BY <1>3, <1>4, <1>5 DEF t

LEMMA Cleaned ==
  ASSUME NEW s, WellFormed(s)
  PROVE  /\ WellFormed(cleaned(s)) /\ cleaned(s).ws = s.ws /\ cleaned(s).order = s.order
<1> DEFINE t == cleaned(s)
           bt == [b \in {x \in DOMAIN s.buffers : s.buffers[x] # 0} |-> s.buffers[b]]
<1>1. t = [ws |-> s.ws, order |-> s.order, buffers |-> bt]
  BY DEF cleaned, WellFormed
<1>2. Counted(s.ws, bt)
  BY CleanedCounts DEF WellFormed
<1> HIDE DEF t, bt
<1>3. /\ t.ws = s.ws /\ t.order = s.order /\ t.buffers = bt
      /\ t = [ws |-> t.ws, order |-> t.order, buffers |-> t.buffers]
  BY <1>1
<1>4. WellFormed(t)
  BY <1>2, <1>3 DEF WellFormed
<1> QED BY <1>3, <1>4 DEF t

LEMMA Raised ==
  ASSUME NEW k, NEW top \in Nat, NEW top2 \in Nat, top <= top2, Sound(k, top)
  PROVE  Sound(k, top2)
<1>1. Ordered(k.messages, top2)
  <2>1. \A b \in 1..top : b \in 1..top2
    OBVIOUS
  <2> QED BY <2>1 DEF Sound, Ordered
<1>2. ~k.lost /\ k.life # "gone" => Reads(k.in, k.messages, top2)
  <2>1. k.in.last \in Nat
    BY DEF Sound, Sockets, Readers
  <2> QED BY <2>1 DEF Sound, Reads
<1> QED BY <1>1, <1>2 DEF Sound

LEMMA QueueControl ==
  ASSUME NEW s, WellFormed(s), NEW c \in Clients, NEW top \in Nat, Sound(s.ws[c], top),
         s.ws[c].life = "live", NEW op \in {"close", "pong"}, NEW fault
  PROVE  /\ Turns(s, queueControl(s, c, op, fault), c, top)
         /\ DOMAIN queueControl(s, c, op, fault).buffers = DOMAIN s.buffers
<1> DEFINE k == [s.ws[c] EXCEPT !.controls = Append(s.ws[c].controls, Control(op))]
           t == [s EXCEPT !.ws[c] = k]
<1>1. queueControl(s, c, op, fault) = IF canSend(t.ws[c]) THEN runQueue(t, c, fault) ELSE t
  BY DEF queueControl
<1>2. s.ws[c] \in Sockets /\ Control(op) \in Controls
  BY DEF Sound, Control, Controls
<1>3. /\ k \in Sockets /\ k.messages = s.ws[c].messages /\ k.in = s.ws[c].in
      /\ k.life = s.ws[c].life /\ k.lost = s.ws[c].lost
  <2>1. Append(s.ws[c].controls, Control(op)) \in Seq(Controls)
    BY <1>2 DEF Sockets
  <2> QED BY <1>2, <2>1 DEF Sockets
<1> HIDE DEF k
<1>4. Sound(k, top)
  BY <1>3, SoundAgain
<1>5. Turns(s, t, c, top) /\ t.ws[c] = k /\ t.buffers = s.buffers
  BY <1>3, <1>4, Turned
<1> HIDE DEF t
<1>6. /\ Turns(t, runQueue(t, c, fault), c, top)
      /\ DOMAIN runQueue(t, c, fault).buffers = DOMAIN t.buffers
  BY <1>3, <1>4, <1>5, RunQueue DEF Turns
<1>7. Turns(s, runQueue(t, c, fault), c, top)
  BY <1>5, <1>6, TurnsTwice
<1> QED BY <1>1, <1>5, <1>6, <1>7

LEMMA Closes ==
  ASSUME NEW s, WellFormed(s), NEW c \in Clients, NEW top \in Nat, Sound(s.ws[c], top),
         s.ws[c].life = "live", NEW fault
  PROVE  Turns(s, close(s, c, fault), c, top)
<1>1. Turns(s, s, c, top)
  BY DEF Turns
<1>2. Turns(s, queueControl(s, c, "close", fault), c, top)
  BY QueueControl
<1> QED BY <1>1, <1>2 DEF close

LEMMA LastOrNot == \A n \in Nat : \A i \in 1..(n + 1) : i = n + 1 \/ i \in 1..n
OBVIOUS

LEMMA Queued ==
  ASSUME NEW q \in Seq(Messages), NEW b \in Nat \ {0}, Ordered(q, b - 1)
  PROVE  /\ Append(q, Message(b)) \in Seq(Messages)
         /\ Ordered(Append(q, Message(b)), b)
         /\ Bufs(Append(q, Message(b))) = Bufs(q) \cup {b} /\ b \notin Bufs(q)
         /\ \A in \in Readers : Reads(in, q, b - 1) => Reads(in, Append(q, Message(b)), b)
<1> DEFINE r == Append(q, Message(b))
<1>1. /\ Message(b) \in Messages /\ Message(b).buf = b /\ Message(b).sent = 0 /\ Message(b).status = "sending"
  BY DEF Message, Messages
<1>2. /\ r \in Seq(Messages) /\ DOMAIN r = 1..(Len(q) + 1) /\ Len(q) \in Nat
      /\ r[Len(q) + 1] = Message(b) /\ \A i \in 1..Len(q) : r[i] = q[i]
  BY <1>1
<1>3. \A i \in DOMAIN q : q[i].buf \in 1..(b - 1) /\ q[i].buf < b /\ q[i].buf # b /\ q[i].buf \in 1..b
  BY DEF Ordered
<1> DEFINE n == Len(q)
<1>4. DOMAIN q = 1..n /\ n \in Nat
  OBVIOUS
<1> HIDE DEF r, n
<1>5. \A i \in DOMAIN r : (i = n + 1 /\ r[i] = Message(b)) \/ (i \in DOMAIN q /\ r[i] = q[i])
  <2>1. DOMAIN r = 1..(n + 1) /\ r[n + 1] = Message(b) /\ \A i \in 1..n : r[i] = q[i]
    BY <1>2 DEF n
  <2>2. \A i \in 1..(n + 1) : i = n + 1 \/ i \in 1..n
    BY <1>4, LastOrNot
  <2> QED BY <2>1, <2>2, <1>4
<1>6. \A i \in DOMAIN q : i \in DOMAIN r /\ r[i] = q[i]
  BY <1>2, <1>4 DEF n
<1>7. n + 1 \in DOMAIN r /\ r[n + 1] = Message(b)
  BY <1>2 DEF n
<1>8. Bufs(r) = Bufs(q) \cup {b}
  BY <1>1, <1>5, <1>6, <1>7 DEF Bufs
<1>9. b \notin Bufs(q)
  BY <1>3 DEF Bufs
<1>10. Ordered(r, b)
  <2>1. ASSUME NEW i \in DOMAIN r
        PROVE  /\ r[i].buf \in 1..b
               /\ r[i].sent <= MsgLen
               /\ r[i].status = "sent" => r[i].sent = MsgLen
               /\ i > 1 => r[i] = Message(r[i].buf)
    <3>1. CASE r[i] = Message(b)
      <4>1. b \in 1..b /\ 0 <= MsgLen
        BY SizesAssumption
      <4> QED BY <3>1, <4>1, <1>1
    <3>2. CASE i \in DOMAIN q /\ r[i] = q[i]
      BY <3>2, <1>3 DEF Ordered
    <3> QED BY <1>5, <3>1, <3>2
  <2>2. ASSUME NEW i \in DOMAIN r, NEW j \in DOMAIN r, i < j
        PROVE  r[i].buf < r[j].buf
    <3>1. i \in DOMAIN q
      <4> HIDE DEF r
      <4>1. i \in 1..(n + 1) /\ j \in 1..(n + 1)
        BY <1>2, <2>2 DEF n
      <4> QED BY <4>1, <2>2, <1>4
    <3>2. CASE r[j] = Message(b)
      BY <3>1, <3>2, <1>1, <1>3, <1>6
    <3>3. CASE j \in DOMAIN q /\ r[j] = q[j]
      BY <3>1, <3>3, <2>2, <1>6 DEF Ordered
    <3> QED BY <1>5, <3>2, <3>3
  <2> QED BY <2>1, <2>2 DEF Ordered
<1>11. ASSUME NEW in \in Readers, Reads(in, q, b - 1)
       PROVE  Reads(in, r, b)
  <2>1. ~in.bad /\ in.last <= b /\ in.last < b
    BY <1>11 DEF Reads, Readers
  <2>2. \A i \in DOMAIN r : r[i].sent # MsgLen => in.last < r[i].buf
    <3> SUFFICES ASSUME NEW i \in DOMAIN r, r[i].sent # MsgLen PROVE in.last < r[i].buf
      OBVIOUS
    <3>1. CASE r[i] = Message(b)
      BY <3>1, <2>1, <1>1
    <3>2. CASE i \in DOMAIN q /\ r[i] = q[i]
      BY <3>2, <1>11 DEF Reads
    <3> QED BY <1>5, <3>1, <3>2
  <2>3. CASE q = <<>>
    <3>1. r[1].sent = 0 /\ in.open = 0
      BY <2>3, <1>7, <1>1, <1>11 DEF n, Reads
    <3> QED BY <2>1, <2>2, <3>1 DEF Reads
  <2>4. CASE q # <<>>
    <3>1. 1 \in DOMAIN q /\ r[1] = q[1]
      BY <2>4, <1>6
    <3>2. r # <<>>
      BY <3>1, <1>6
    <3> QED BY <2>1, <2>2, <2>4, <3>1, <3>2, <1>11 DEF Reads
  <2> QED BY <2>3, <2>4
<1> QED BY <1>2, <1>8, <1>9, <1>10, <1>11 DEF r

LEMMA QueueMessage ==
  ASSUME NEW s, WellFormed(s), NEW c \in Clients, NEW b \in Nat \ {0}, Sound(s.ws[c], b - 1),
         s.ws[c].life = "live", b \in DOMAIN s.buffers, NEW fault
  PROVE  /\ Turns(s, queueMessage(s, c, b, fault), c, b)
         /\ DOMAIN queueMessage(s, c, b, fault).buffers = DOMAIN s.buffers
<1> DEFINE k == s.ws[c]
           j == [k EXCEPT !.messages = Append(k.messages, Message(b))]
           u == [s EXCEPT !.ws[c].messages = Append(@, Message(b)), !.buffers[b] = @ + 1]
           t == IF k.status # "connected" \/ Len(k.messages) >= MaxQueued THEN s ELSE u
<1>1. queueMessage(s, c, b, fault) = IF k.status = "connected" /\ canSend(k) THEN runQueue(t, c, fault) ELSE t
  BY DEF queueMessage
<1>2. Turns(s, s, c, b)
  BY Raised DEF Turns
<1>3. Turns(s, u, c, b) /\ DOMAIN u.buffers = DOMAIN s.buffers
  <2>1. k \in Sockets /\ k.messages \in Seq(Messages) /\ k.in \in Readers
    BY DEF Sound, Sockets
  <2>2. /\ Append(k.messages, Message(b)) \in Seq(Messages)
        /\ Ordered(Append(k.messages, Message(b)), b)
        /\ Bufs(Append(k.messages, Message(b))) = Bufs(k.messages) \cup {b} /\ b \notin Bufs(k.messages)
        /\ Reads(k.in, k.messages, b - 1) => Reads(k.in, Append(k.messages, Message(b)), b)
    BY <2>1, Queued DEF Sound
  <2>3. j \in Sockets /\ j.messages = Append(k.messages, Message(b)) /\ j.in = k.in /\ j.life = k.life /\ j.lost = k.lost
    BY <2>1, <2>2 DEF Sockets
  <2> HIDE DEF j
  <2>4. Sound(j, b)
    BY <2>2, <2>3 DEF Sound
  <2>5. u = [ws |-> [s.ws EXCEPT ![c] = j], order |-> s.order, buffers |-> [s.buffers EXCEPT ![b] = @ + 1]]
    <3> DEFINE v == [s EXCEPT !.ws[c].messages = Append(@, Message(b))]
    <3>1. s = [ws |-> s.ws, order |-> s.order, buffers |-> s.buffers]
      BY DEF WellFormed
    <3>2. v = [ws |-> [s.ws EXCEPT ![c] = j], order |-> s.order, buffers |-> s.buffers]
      BY SMTT(20), <3>1 DEF j
    <3>3. u = [v EXCEPT !.buffers[b] = @ + 1]
      BY <3>1
    <3> HIDE DEF v, u
    <3> QED BY <3>2, <3>3
  <2>6. Counted([s.ws EXCEPT ![c] = j], [s.buffers EXCEPT ![b] = @ + 1])
    BY <2>2, <2>3, Added DEF WellFormed
  <2> HIDE DEF u
  <2>7. /\ u.ws = [s.ws EXCEPT ![c] = j] /\ u.order = s.order /\ u.buffers = [s.buffers EXCEPT ![b] = @ + 1]
        /\ u = [ws |-> u.ws, order |-> u.order, buffers |-> u.buffers]
    BY <2>5
  <2>8. u.ws[c] = j /\ (\A d \in Clients : d # c => u.ws[d] = s.ws[d]) /\ u.ws = [d \in Clients |-> u.ws[d]]
    BY <2>7 DEF WellFormed
  <2> QED BY <2>3, <2>4, <2>6, <2>7, <2>8 DEF Turns, WellFormed
<1> HIDE DEF u
<1>4. Turns(s, t, c, b) /\ DOMAIN t.buffers = DOMAIN s.buffers
  BY <1>2, <1>3
<1> HIDE DEF t
<1>5. /\ Turns(t, runQueue(t, c, fault), c, b)
      /\ DOMAIN runQueue(t, c, fault).buffers = DOMAIN t.buffers
  BY <1>4, RunQueue DEF Turns
<1>6. Turns(s, runQueue(t, c, fault), c, b)
  BY <1>4, <1>5, TurnsTwice
<1> QED BY <1>1, <1>4, <1>5, <1>6

(* AsyncWebSocketMultiMessage::ack of n bytes, of the message at the front *)
(* of the queue of k.                                                      *)
AckOf(m, n) ==
  [m EXCEPT !.acked = @ + n,
            !.status = IF m.sent = MsgLen /\ m.acked + n = m.ack THEN "sent" ELSE @]
AcksFront(k, j, n) == j = [k EXCEPT !.messages[1] = AckOf(Head(k.messages), n)]

LEMMA Acknowledged ==
  ASSUME NEW k, NEW top, Sound(k, top), k.messages # <<>>, NEW n \in Int, NEW j, AcksFront(k, j, n)
  PROVE  Sound(j, top) /\ j.life = k.life /\ Bufs(j.messages) = Bufs(k.messages)
<1> DEFINE q == k.messages
           m == Head(k.messages)
           x == AckOf(m, n)
<1>1. k \in Sockets /\ q \in Seq(Messages) /\ q # <<>> /\ Ordered(q, top)
  BY DEF Sound, Sockets
<1>2. 1 \in DOMAIN q /\ m = q[1] /\ m \in Messages
  BY <1>1
<1>3. m.sent <= MsgLen /\ (m.status = "sent" => m.sent = MsgLen)
  BY <1>1, <1>2 DEF Ordered
<1>4. x \in Messages /\ x.buf = m.buf /\ x.sent = m.sent /\ (x.status = "sent" => x.sent = MsgLen)
  <2>1. m.acked + n \in Int
    BY <1>2 DEF Messages
  <2>2. x = [m EXCEPT !.acked = m.acked + n,
                      !.status = IF m.sent = MsgLen /\ m.acked + n = m.ack THEN "sent" ELSE m.status]
    BY <1>2 DEF Messages, AckOf
  <2> DEFINE a == m.acked + n
             st == IF m.sent = MsgLen /\ m.acked + n = m.ack THEN "sent" ELSE m.status
  <2>3. a \in Int /\ st \in {"sending", "sent"} /\ (st = "sent" => m.sent = MsgLen)
    BY <2>1, <1>2, <1>3 DEF Messages
  <2>4. x = [m EXCEPT !.acked = a, !.status = st]
    BY <2>2
  <2> HIDE DEF a, st, x, m
  <2> QED BY <2>3, <2>4, <1>2 DEF Messages
<1>5. j = [k EXCEPT !.messages = [q EXCEPT ![1] = x]]
  BY DEF AcksFront
<1> HIDE DEF m, x
<1>6. /\ [q EXCEPT ![1] = x] \in Seq(Messages)
      /\ Ordered([q EXCEPT ![1] = x], top)
      /\ Bufs([q EXCEPT ![1] = x]) = Bufs(q)
      /\ Reads(k.in, q, top) => Reads(k.in, [q EXCEPT ![1] = x], top)
  BY <1>1, <1>2, <1>3, <1>4, FrontChanged
<1>7. j \in Sockets /\ j.messages = [q EXCEPT ![1] = x] /\ j.in = k.in /\ j.life = k.life /\ j.lost = k.lost
  BY <1>1, <1>5, <1>6 DEF Sockets
<1>8. Sound(j, top)
  <2>1. q # <<>>
    OBVIOUS
  <2> QED BY <1>6, <1>7 DEF Sound
<1> QED BY <1>6, <1>7, <1>8

-------------------------------------------------------------------------------
LEMMA Removed ==
  ASSUME NEW o, Lined(o), NEW c \in Clients
  PROVE  LET r == RemoveFirst(o, c)
         IN  Lined(r) /\ \A i \in DOMAIN r : r[i] # c /\ \E j \in DOMAIN o : r[i] = o[j]
<1> DEFINE r == RemoveFirst(o, c)
<1>1. o \in Seq(Clients) /\ (\A i, j \in DOMAIN o : o[i] = o[j] => i = j) /\ DOMAIN o = 1..Len(o) /\ Len(o) \in Nat
  BY DEF Lined
<1>2. CASE ~\E i \in 1..Len(o) : o[i] = c
  <2>1. r = o
    BY <1>2 DEF RemoveFirst
  <2> QED BY <1>1, <1>2, <2>1
<1>3. ASSUME NEW n \in 1..Len(o), o[n] = c
      PROVE  Lined(r) /\ \A i \in DOMAIN r : r[i] # c /\ \E j \in DOMAIN o : r[i] = o[j]
  <2> DEFINE I == {i \in 1..Len(o) : o[i] = c}
  <2>1. I = {n}
    BY <1>1, <1>3
  <2>2. Min(I) = n
    <3>1. I \in SUBSET Int /\ n \in I /\ \A y \in I : n <= y
      BY <2>1
    <3> HIDE DEF I
    <3> QED BY <3>1, MinIs
  <2>3. r = SubSeq(o, 1, n - 1) \o SubSeq(o, n + 1, Len(o))
    <3>1. r = RemoveAt(o, IF I # {} THEN Min(I) ELSE 0)
      BY <1>3 DEF RemoveFirst, SelectInSeq
    <3> HIDE DEF I, r
    <3>2. r = RemoveAt(o, n)
      BY <3>1, <2>1, <2>2
    <3> QED BY <3>2 DEF RemoveAt
  <2> DEFINE a == SubSeq(o, 1, n - 1)
             b == SubSeq(o, n + 1, Len(o))
             N == Len(o)
  <2>4. n \in Nat /\ n >= 1 /\ n <= N /\ N \in Nat
    BY <1>1
  <2>5. /\ a \in Seq(Clients) /\ Len(a) = n - 1 /\ \A i \in 1..(n - 1) : a[i] = o[i]
    BY <1>1, <2>4
  <2>6. /\ b \in Seq(Clients) /\ Len(b) = N - n /\ \A i \in 1..(N - n) : b[i] = o[i + n]
    <3>1. \A i \in (n + 1)..N : o[i] \in Clients
      BY <1>1, <2>4
    <3>2. /\ b \in Seq(Clients) /\ Len(b) = IF n + 1 <= N THEN N - (n + 1) + 1 ELSE 0
          /\ \A i \in 1..(N - (n + 1) + 1) : b[i] = o[(n + 1) + i - 1]
      BY <3>1, <2>4, SubSeqProperties
    <3> HIDE DEF N, b
    <3>3. N - (n + 1) + 1 = N - n /\ (~(n + 1 <= N) => N - n = 0) /\ \A i \in 1..(N - n) : (n + 1) + i - 1 = i + n
      BY <2>4
    <3> QED BY <3>2, <3>3
  <2> HIDE DEF a, b, r, I
  <2>7. /\ r \in Seq(Clients) /\ DOMAIN r = 1..(N - 1)
        /\ \A i \in 1..(N - 1) : r[i] = IF i < n THEN o[i] ELSE o[i + 1]
    <3>1. r = a \o b
      BY <2>3 DEF a, b
    <3>2. r \in Seq(Clients) /\ Len(r) = Len(a) + Len(b)
      BY <3>1, <2>5, <2>6, ConcatProperties
    <3>3. Len(r) = N - 1
      BY <3>2, <2>4, <2>5, <2>6
    <3>4. ASSUME NEW i \in 1..(N - 1)
          PROVE  r[i] = IF i < n THEN o[i] ELSE o[i + 1]
      <4>1. CASE i < n
        <5>1. i \in 1..(n - 1) /\ i \in 1..Len(a)
          BY <4>1, <2>4, <2>5
        <5>2. r[i] = a[i]
          BY <5>1, <3>1, <2>5, <2>6, ConcatProperties
        <5> QED BY <4>1, <5>1, <5>2, <2>5
      <4>2. CASE ~(i < n)
        <5>1. i - (n - 1) \in 1..(N - n) /\ i - (n - 1) + n = i + 1 /\ ~(i <= Len(a)) /\ i <= Len(a) + Len(b)
          BY <4>2, <2>4, <2>5, <2>6
        <5>2. r[i] = b[i - Len(a)]
          BY <5>1, <3>1, <2>5, <2>6, <2>4, ConcatProperties
        <5>3. b[i - (n - 1)] = o[i - (n - 1) + n]
          BY <5>1, <2>6
        <5> QED BY <4>2, <5>1, <5>2, <5>3, <2>5
      <4> QED BY <4>1, <4>2
    <3> QED BY <3>2, <3>3, <3>4
  <2> DEFINE g(i) == IF i < n THEN i ELSE i + 1
  <2>8. \A i \in DOMAIN r : g(i) \in 1..N /\ g(i) # n /\ r[i] = o[g(i)]
    BY <2>4, <2>7
  <2>9. \A i, j \in DOMAIN r : g(i) = g(j) => i = j
    BY <2>4, <2>7
  <2>10. \A i \in DOMAIN r : r[i] # c
    BY <1>1, <1>3, <2>8
  <2>11. \A i, j \in DOMAIN r : r[i] = r[j] => i = j
    <3>1. \A i, j \in DOMAIN r : r[i] = r[j] => g(i) = g(j)
      <4> HIDE DEF g
      <4> QED BY <1>1, <2>8
    <3> HIDE DEF g
    <3> QED BY <2>9, <3>1
  <2> HIDE DEF g
  <2> QED BY <1>1, <2>7, <2>8, <2>10, <2>11 DEF Lined
<1> HIDE DEF r
<1> QED BY <1>2, <1>3 DEF r

(* A client goes: its queue is empty and the server forgets it.            *)
Goes(s, t, c, top) ==
  /\ WellFormed(t) /\ t.order = RemoveFirst(s.order, c)
  /\ \A d \in Clients : d # c => t.ws[d] = s.ws[d]
  /\ Sound(t.ws[c], top)

LEMMA Disconnected ==
  ASSUME NEW s, WellFormed(s), NEW c \in Clients, NEW top \in Nat, Sound(s.ws[c], top)
  PROVE  Goes(s, disconnected(s, c), c, top)
<1> DEFINE k == s.ws[c]
           q == k.messages
           j == [k EXCEPT !.life = "gone", !.messages = <<>>, !.controls = <<>>, !.flight = 0]
           t == disconnected(s, c)
           bt == [b \in DOMAIN s.buffers |-> s.buffers[b] - Cardinality({i \in DOMAIN q : q[i].buf = b})]
<1>1. t = [ws |-> [s.ws EXCEPT ![c] = j], order |-> RemoveFirst(s.order, c), buffers |-> bt]
  <2> DEFINE u == [s EXCEPT !.ws[c] = [@ EXCEPT !.life = "gone", !.messages = <<>>, !.controls = <<>>, !.flight = 0],
                            !.order = RemoveFirst(@, c)]
  <2>1. s = [ws |-> s.ws, order |-> s.order, buffers |-> s.buffers]
    BY DEF WellFormed
  <2> DEFINE v == [s EXCEPT !.ws[c] = [@ EXCEPT !.life = "gone", !.messages = <<>>, !.controls = <<>>, !.flight = 0]]
             x == RemoveFirst(s.order, c)
  <2>4. v = [ws |-> [s.ws EXCEPT ![c] = j], order |-> s.order, buffers |-> s.buffers]
    BY <2>1
  <2>5. u = [v EXCEPT !.order = x]
    BY <2>1
  <2>2. u = [ws |-> [s.ws EXCEPT ![c] = j], order |-> x, buffers |-> s.buffers]
    <3> HIDE DEF u, v, x, j
    <3> QED BY <2>4, <2>5
  <2>3. t = release(u, q)
    BY DEF disconnected
  <2> HIDE DEF u, t, j
  <2> QED BY <2>2, <2>3 DEF release
<1>2. k \in Sockets /\ q \in Seq(Messages) /\ Ordered(q, top)
  BY DEF Sound, Sockets
<1>3. j \in Sockets /\ j.life = "gone" /\ j.messages = <<>> /\ j.in = k.in /\ j.lost = k.lost
  <2>1. <<>> \in Seq(Messages) /\ <<>> \in Seq(Controls)
    OBVIOUS
  <2> QED BY <1>2, <2>1 DEF Sockets
<1> HIDE DEF j
<1>4. Sound(j, top)
  <2>1. Ordered(<<>>, top)
    BY DEF Ordered
  <2> QED BY <1>3, <2>1 DEF Sound
<1>5. Counted([s.ws EXCEPT ![c] = j], bt)
  <2>1. Parts(s.ws[c].messages, q, j.messages)
    <3>1. Bufs(<<>>) = {}
      BY DEF Bufs
    <3> QED BY <3>1, <1>3 DEF Parts
  <2>2. Clientwise(s.ws) /\ Counted(s.ws, s.buffers)
    BY DEF WellFormed, Clientwise
  <2>3. Once(q)
    <3>1. \A i, n \in DOMAIN q : q[i].buf \in Nat /\ i \in Int /\ n \in Int /\ (i < n => q[i].buf < q[n].buf)
      BY <1>2 DEF Ordered
    <3> HIDE DEF q
    <3>2. ASSUME NEW i \in DOMAIN q, NEW n \in DOMAIN q, q[i].buf = q[n].buf, i # n
          PROVE  FALSE
      <4>1. i < n \/ n < i
        BY <3>1, <3>2
      <4> QED BY <3>1, <3>2, <4>1
    <3> QED BY <3>2 DEF Once
  <2>4. Without(s.buffers, bt, q)
    BY DEF At, Without
  <2> HIDE DEF bt, q
  <2> QED BY <2>1, <2>2, <2>3, <2>4, Released
<1> HIDE DEF t, bt
<1>6. /\ t.ws = [s.ws EXCEPT ![c] = j] /\ t.order = RemoveFirst(s.order, c) /\ t.buffers = bt
      /\ t = [ws |-> t.ws, order |-> t.order, buffers |-> t.buffers]
  BY <1>1
<1>7. t.ws[c] = j /\ (\A d \in Clients : d # c => t.ws[d] = s.ws[d]) /\ t.ws = [d \in Clients |-> t.ws[d]]
  BY <1>6 DEF WellFormed
<1> QED BY <1>4, <1>5, <1>6, <1>7 DEF Goes, WellFormed, t

LEMMA OnAck ==
  ASSUME NEW s, WellFormed(s), NEW c \in Clients, NEW top \in Nat, Sound(s.ws[c], top),
         s.ws[c].life = "live", NEW len \in Int, NEW fault
  PROVE  \/ Turns(s, onAck(s, c, len, fault), c, top)
         \/ Goes(s, onAck(s, c, len, fault), c, top)
<1> DEFINE k       == s.ws[c]
           control == k.controls # <<>> /\ Head(k.controls).finished
           rest    == IF control THEN len - HeadLen ELSE len
           k1      == IF control THEN [k EXCEPT !.controls = Tail(@)] ELSE k
           m       == Head(k1.messages)
           m1      == [m EXCEPT !.acked = @ + rest,
                                !.status = IF m.sent = MsgLen /\ m.acked + rest = m.ack THEN "sent" ELSE @]
           k2      == IF rest # 0 /\ k1.messages # <<>> THEN [k1 EXCEPT !.messages[1] = m1] ELSE k1
           t       == [s EXCEPT !.ws[c] = k2]
           u       == cleaned(t)
<1>1. CASE control /\ k.status = "disconnecting" /\ Head(k.controls).op = "close"
  <2>1. onAck(s, c, len, fault) = disconnected(s, c)
    BY <1>1 DEF onAck
  <2> QED BY <2>1, Disconnected
<1>2. CASE ~(control /\ k.status = "disconnecting" /\ Head(k.controls).op = "close")
  <2>1. onAck(s, c, len, fault) = runQueue(u, c, fault)
    BY <1>2 DEF onAck
  <2>2. Sound(k1, top) /\ k1.life = "live" /\ k1.messages = k.messages
    <3>1. CASE control
      <4> DEFINE j == [k EXCEPT !.controls = Tail(@)]
      <4>1. k \in Sockets /\ Tail(k.controls) \in Seq(Controls)
        BY <3>1 DEF Sound, Sockets
      <4>2. j \in Sockets /\ j.messages = k.messages /\ j.in = k.in /\ j.life = k.life /\ j.lost = k.lost
        BY <4>1 DEF Sockets
      <4>3. k1 = j
        BY <3>1
      <4> HIDE DEF j, k1
      <4> QED BY <4>2, <4>3, SoundAgain
    <3>2. CASE ~control
      BY <3>2
    <3> QED BY <3>1, <3>2
  <2>3. rest \in Int
    BY DEF HeadLen
  <2> HIDE DEF k1, rest
  <2>4. Sound(k2, top) /\ k2.life = "live" /\ Bufs(k2.messages) = Bufs(k.messages)
    <3>1. CASE rest # 0 /\ k1.messages # <<>>
      <4>1. AcksFront(k1, k2, rest)
        BY <3>1 DEF AcksFront, AckOf
      <4>2. k1.messages # <<>>
        BY <3>1
      <4> HIDE DEF k2
      <4>3. Sound(k2, top) /\ k2.life = k1.life /\ Bufs(k2.messages) = Bufs(k1.messages)
        BY <4>1, <4>2, <2>2, <2>3, Acknowledged
      <4> QED BY <4>3, <2>2
    <3>2. CASE ~(rest # 0 /\ k1.messages # <<>>)
      BY <3>2, <2>2
    <3> QED BY <3>1, <3>2
  <2> HIDE DEF k2
  <2>5. Turns(s, t, c, top) /\ t.ws[c] = k2
    BY <2>4, Turned
  <2> HIDE DEF t
  <2>6. Turns(s, u, c, top) /\ u.ws[c] = k2
    BY <2>5, Cleaned DEF Turns
  <2> HIDE DEF u
  <2>7. Turns(u, runQueue(u, c, fault), c, top)
    BY <2>4, <2>6, RunQueue DEF Turns
  <2> QED BY <2>1, <2>6, <2>7, TurnsTwice
<1> QED BY <1>1, <1>2

LEMMA Whole ==
  ASSUME SocketInv
  PROVE  /\ WellFormed(S) /\ S.ws = ws /\ S.order = order /\ S.buffers = buffers
         /\ made \in Nat
         /\ \A c \in Clients : todo = <<>> => Top(c) = made /\ Sound(ws[c], made)
<1>1. todo = <<>> => \A c \in Clients : Top(c) = made
  BY DEF Top
<1> QED BY <1>1 DEF SocketInv, WellFormed, S

LEMMA TurnStep ==
  ASSUME SocketInv, todo = <<>>, NEW c \in Clients, NEW t, Turns(S, t, c, made), Become(t),
         todo' = todo, made' = made
  PROVE  SocketInv'
<1>1. /\ WellFormed(S) /\ S.ws = ws /\ S.order = order /\ S.buffers = buffers /\ made \in Nat
      /\ \A d \in Clients : Sound(ws[d], made)
  BY Whole
<1>2. ws' = t.ws /\ order' = t.order /\ buffers' = t.buffers
  BY DEF Become
<1>3. /\ WellFormed(t) /\ t.order = order
      /\ \A d \in Clients : d # c => t.ws[d] = ws[d]
      /\ Sound(t.ws[c], made) /\ t.ws[c].life = ws[c].life
  BY <1>1 DEF Turns
<1>4. \A d \in Clients : Sound(ws'[d], made) /\ ws'[d].life = ws[d].life
  BY <1>1, <1>2, <1>3
<1>5. \A d \in Clients : Top(d)' = made
  BY DEF Top
<1>6. Lined(order) /\ Lined(todo) /\ (\A i \in DOMAIN order : order[i] \in Clients /\ ws[order[i]].life = "live")
  <2>1. order \in Seq(Clients)
    BY DEF SocketInv, Lined
  <2>2. \A i \in DOMAIN order : order[i] \in Clients
    BY <2>1
  <2> QED BY <2>2 DEF SocketInv
<1>7. \A d \in Clients : Sound(ws'[d], Top(d)')
  BY <1>4, <1>5
<1>8. ws' = [d \in Clients |-> ws'[d]] /\ Counted(ws', buffers')
  BY <1>2, <1>3 DEF WellFormed
<1>9. order' = order
  BY <1>2, <1>3
<1>10. \A i \in DOMAIN order' : ws'[order'[i]].life = "live"
  BY <1>4, <1>6, <1>9
<1> QED BY <1>1, <1>6, <1>7, <1>8, <1>9, <1>10 DEF SocketInv

LEMMA GoStep ==
  ASSUME SocketInv, todo = <<>>, NEW c \in Clients, NEW t, Goes(S, t, c, made), Become(t),
         todo' = todo, made' = made
  PROVE  SocketInv'
<1>1. /\ WellFormed(S) /\ S.ws = ws /\ S.order = order /\ S.buffers = buffers /\ made \in Nat
      /\ \A d \in Clients : Sound(ws[d], made)
  BY Whole
<1>2. ws' = t.ws /\ order' = t.order /\ buffers' = t.buffers
  BY DEF Become
<1>3. /\ WellFormed(t) /\ t.order = RemoveFirst(order, c)
      /\ \A d \in Clients : d # c => t.ws[d] = ws[d]
      /\ Sound(t.ws[c], made)
  BY <1>1 DEF Goes
<1>4. \A d \in Clients : Sound(ws'[d], made)
  BY <1>1, <1>2, <1>3
<1>5. \A d \in Clients : Top(d)' = made
  BY DEF Top
<1>6. Lined(order) /\ Lined(todo) /\ (\A i \in DOMAIN order : order[i] \in Clients /\ ws[order[i]].life = "live")
  <2>1. order \in Seq(Clients)
    BY DEF SocketInv, Lined
  <2>2. \A i \in DOMAIN order : order[i] \in Clients
    BY <2>1
  <2> QED BY <2>2 DEF SocketInv
<1>7. \A d \in Clients : Sound(ws'[d], Top(d)')
  BY <1>4, <1>5
<1>8. ws' = [d \in Clients |-> ws'[d]] /\ Counted(ws', buffers')
  BY <1>2, <1>3 DEF WellFormed
<1>9. Lined(order') /\ \A i \in DOMAIN order' : order'[i] # c /\ \E j \in DOMAIN order : order'[i] = order[j]
  BY <1>2, <1>3, <1>6, Removed
<1>10. \A i \in DOMAIN order' : ws'[order'[i]].life = "live"
  BY <1>2, <1>3, <1>6, <1>9
<1> QED BY <1>1, <1>6, <1>7, <1>8, <1>9, <1>10 DEF SocketInv

LEMMA InitInv ==
  ASSUME Init
  PROVE  SocketInv
<1>1. NewClient \in Sockets
  <2>1. <<>> \in Seq(Messages) /\ <<>> \in Seq(Controls)
    OBVIOUS
  <2> QED BY <2>1 DEF NewClient, Sockets, Readers
<1>2. Sound(NewClient, 0)
  BY <1>1 DEF Sound, NewClient, Ordered, Reads
<1>3. Counted(ws, buffers)
  <2>1. \A b : Holders(ws, b) = {}
    BY DEF Init, Holders, Bufs, NewClient
  <2> QED BY <2>1 DEF Counted, Init
<1>4. Lined(<<>>)
  BY DEF Lined
<1>5. \A c \in Clients : Top(c) = 0
  BY DEF Top, Init
<1> QED BY <1>2, <1>3, <1>4, <1>5 DEF Init, SocketInv

LEMMA ConnectsInv ==
  ASSUME SocketInv, todo = <<>>, NEW c \in Clients, Connects(c)
  PROVE  SocketInv'
<1> DEFINE j == [ws[c] EXCEPT !.life = "live"]
<1>1. /\ ws = [d \in Clients |-> ws[d]] /\ made \in Nat
      /\ \A d \in Clients : Sound(ws[d], made)
      /\ Counted(ws, buffers) /\ Lined(order) /\ Lined(todo)
      /\ \A i \in DOMAIN order : ws[order[i]].life = "live"
  BY Whole DEF SocketInv
<1>2. ws' = [ws EXCEPT ![c] = j] /\ ws[c].life = "none" /\ order' = Append(order, c) /\ UNCHANGED <<buffers, made, todo>>
  BY DEF Connects
<1>3. j \in Sockets /\ j.messages = ws[c].messages /\ j.in = ws[c].in /\ j.life = "live" /\ j.lost = ws[c].lost
  BY ZenonT(20), <1>1 DEF Sound, Sockets
<1>4. Sound(j, made)
  BY <1>1, <1>2, <1>3 DEF Sound
<1>5. Counted(ws', buffers')
  BY <1>1, <1>2, <1>3, Kept
<1> HIDE DEF j
<1>6. \A d \in Clients : ws'[d] = IF d = c THEN j ELSE ws[d]
  BY <1>1, <1>2
<1>7. \A d \in Clients : Top(d)' = made
  BY <1>2 DEF Top
<1>8. \A d \in Clients : Sound(ws'[d], Top(d)')
  BY <1>1, <1>4, <1>6, <1>7
<1>9. order \in Seq(Clients) /\ (\A i \in DOMAIN order : order[i] \in Clients /\ order[i] # c) /\ \A i, n \in DOMAIN order : order[i] = order[n] => i = n
  <2>1. order \in Seq(Clients) /\ \A i, n \in DOMAIN order : order[i] = order[n] => i = n
    BY <1>1 DEF Lined
  <2>2. \A i \in DOMAIN order : order[i] \in Clients
    BY <2>1
  <2> QED BY <2>1, <2>2, <1>1, <1>2
<1>10. /\ order' \in Seq(Clients) /\ DOMAIN order = 1..Len(order) /\ DOMAIN order' = 1..(Len(order) + 1)
       /\ order'[Len(order) + 1] = c /\ \A i \in 1..Len(order) : order'[i] = order[i]
       /\ Len(order) \in Nat
  BY <1>2, <1>9
<1>11. \A i \in DOMAIN order' : (i = Len(order) + 1 /\ order'[i] = c) \/ (i \in DOMAIN order /\ order'[i] = order[i])
  BY <1>10, LastOrNot
<1>12. Lined(order')
  BY <1>9, <1>10, <1>11 DEF Lined
<1>13. \A i \in DOMAIN order' : ws'[order'[i]].life = "live"
  <2> SUFFICES ASSUME NEW i \in DOMAIN order' PROVE ws'[order'[i]].life = "live"
    OBVIOUS
  <2>1. CASE order'[i] = c
    BY <2>1, <1>3, <1>6
  <2>2. CASE i \in DOMAIN order /\ order'[i] = order[i]
    BY <2>2, <1>1, <1>6, <1>9
  <2> QED BY <1>11, <2>1, <2>2
<1>14. ws' = [d \in Clients |-> ws'[d]]
  BY <1>1, <1>2
<1>15. Lined(todo') /\ made' \in Nat /\ todo' = <<>>
  BY <1>1, <1>2
<1> QED BY <1>5, <1>8, <1>12, <1>13, <1>14, <1>15 DEF SocketInv

LEMMA TextAllInv ==
  ASSUME SocketInv, todo = <<>>, TextAll
  PROVE  SocketInv'
<1>1. /\ ws = [d \in Clients |-> ws[d]] /\ made \in Nat
      /\ \A d \in Clients : Sound(ws[d], made)
      /\ Counted(ws, buffers) /\ Lined(order)
      /\ \A i \in DOMAIN order : ws[order[i]].life = "live"
  BY Whole DEF SocketInv
<1>2. /\ made' = made + 1 /\ todo' = order
      /\ buffers' = [b \in DOMAIN buffers \cup {made + 1} |-> IF b = made + 1 THEN 0 ELSE buffers[b]]
      /\ UNCHANGED <<ws, order>>
  BY DEF TextAll
<1>3. Holders(ws, made + 1) = {}
  <2>1. ASSUME NEW d \in Clients, NEW i \in DOMAIN ws[d].messages
        PROVE  ws[d].messages[i].buf # made + 1
    <3>1. ws[d].messages[i].buf \in 1..made
      BY <1>1 DEF Sound, Ordered
    <3> QED BY <3>1, <1>1
  <2> QED BY <2>1 DEF Holders, Bufs
<1>4. Counted(ws', buffers')
  <2>1. /\ DOMAIN buffers' = DOMAIN buffers \cup {made + 1} /\ buffers' = [b \in DOMAIN buffers' |-> buffers'[b]]
        /\ \A b \in DOMAIN buffers' : buffers'[b] = IF b = made + 1 THEN 0 ELSE buffers[b]
    BY <1>2
  <2>2. \A b \in DOMAIN buffers' : buffers'[b] = Cardinality(Holders(ws, b))
    BY <1>1, <1>3, <2>1, FS_EmptySet DEF Counted
  <2>3. \A b : Holders(ws, b) # {} => b \in DOMAIN buffers'
    BY <1>1, <2>1 DEF Counted
  <2>4. Counted(ws, buffers')
    BY <2>1, <2>2, <2>3 DEF Counted
  <2> QED BY <1>2, <2>4
<1>5. ASSUME NEW d \in Clients
      PROVE  Sound(ws'[d], Top(d)')
  <2>1. Top(d)' = made \/ Top(d)' = made + 1
    BY <1>1, <1>2 DEF Top
  <2>2. Sound(ws[d], made) /\ Sound(ws[d], made + 1)
    BY <1>1, Raised
  <2> QED BY <1>2, <2>1, <2>2
<1>6. made' \in Nat /\ made' > 0 /\ made' \in DOMAIN buffers'
  BY <1>1, <1>2
<1>7. Lined(order') /\ Lined(todo') /\ ws' = [d \in Clients |-> ws'[d]]
  BY <1>1, <1>2
<1>8. (\A i \in DOMAIN order' : ws'[order'[i]].life = "live") /\ \A i \in DOMAIN todo' : ws'[todo'[i]].life = "live"
  BY <1>1, <1>2
<1> QED BY <1>4, <1>5, <1>6, <1>7, <1>8 DEF SocketInv

LEMMA TextInv ==
  ASSUME SocketInv, Text
  PROVE  SocketInv'
<1>1. /\ WellFormed(S) /\ S.ws = ws /\ S.order = order /\ S.buffers = buffers /\ made \in Nat
  BY Whole
<1>2. /\ todo # <<>> /\ todo \in Seq(Clients) /\ (\A i, j \in DOMAIN todo : todo[i] = todo[j] => i = j)
      /\ \A i \in DOMAIN todo : ws[todo[i]].life = "live"
      /\ made \in DOMAIN buffers /\ made > 0
      /\ Lined(order) /\ \A i \in DOMAIN order : order[i] \in Clients /\ ws[order[i]].life = "live"
      /\ \A d \in Clients : Sound(ws[d], Top(d))
  <2>1. /\ todo # <<>> /\ todo \in Seq(Clients) /\ (\A i, j \in DOMAIN todo : todo[i] = todo[j] => i = j)
        /\ order \in Seq(Clients)
    BY DEF SocketInv, Text, Lined
  <2>2. \A i \in DOMAIN order : order[i] \in Clients
    BY <2>1
  <2> QED BY <2>1, <2>2 DEF SocketInv, Text
<1>0. PICK c \in Clients : c = Head(todo)
  BY <1>2
<1>3. 1 \in DOMAIN todo /\ c = todo[1] /\ c \in Clients /\ ws[c].life = "live"
  BY <1>2, <1>0
<1>4. Top(c) = made - 1
  BY <1>3 DEF Top
<1>5. made' = made /\ todo' = Tail(todo)
  BY DEF Text
<1>6. /\ todo' \in Seq(Clients) /\ DOMAIN todo' = 1..(Len(todo) - 1)
      /\ \A i \in DOMAIN todo' : i + 1 \in DOMAIN todo /\ todo'[i] = todo[i + 1]
  BY <1>2, <1>5
<1>7. \A i \in DOMAIN todo : i = 1 \/ (i - 1 \in DOMAIN todo' /\ todo'[i - 1] = todo[i])
  BY <1>2, <1>5
<1>8. \A i \in DOMAIN todo' : todo'[i] # c
  <2> SUFFICES ASSUME NEW i \in DOMAIN todo', todo'[i] = c PROVE FALSE
    OBVIOUS
  <2>1. i + 1 = 1
    BY <1>2, <1>3, <1>6
  <2>2. i \in Nat /\ i >= 1
    BY <1>2, <1>6
  <2> QED BY <2>1, <2>2
<1>9. Top(c)' = made
  BY <1>5, <1>8 DEF Top
<1>10. \A d \in Clients : d # c => Top(d)' = Top(d)
  <2> SUFFICES ASSUME NEW d \in Clients, d # c
               PROVE  (\E i \in DOMAIN todo : todo[i] = d) <=> (\E i \in DOMAIN todo' : todo'[i] = d)
    BY <1>5 DEF Top
  <2>1. ASSUME NEW i \in DOMAIN todo, todo[i] = d
        PROVE  \E n \in DOMAIN todo' : todo'[n] = d
    BY <2>1, <1>3, <1>7
  <2>2. ASSUME NEW i \in DOMAIN todo', todo'[i] = d
        PROVE  \E n \in DOMAIN todo : todo[n] = d
    BY <2>2, <1>6
  <2> QED BY <2>1, <2>2
<1>11. Lined(todo')
  <2> SUFFICES ASSUME NEW i \in DOMAIN todo', NEW j \in DOMAIN todo', todo'[i] = todo'[j] PROVE i = j
    BY <1>6 DEF Lined
  <2>1. i + 1 = j + 1
    BY <1>2, <1>6
  <2>2. i \in Int /\ j \in Int
    BY <1>6
  <2> QED BY <2>1, <2>2
<1>12. PICK fault : \E t \in {LET s == queueMessage(S, c, made, fault)
                              IN  IF Len(todo) = 1 THEN cleaned(s) ELSE s} : Become(t)
  BY <1>0 DEF Text, Step
<1> DEFINE s == queueMessage(S, c, made, fault)
           t == IF Len(todo) = 1 THEN cleaned(s) ELSE s
<1>13. ws' = t.ws /\ order' = t.order /\ buffers' = t.buffers
  BY <1>12 DEF Become
<1>14. Turns(S, s, c, made) /\ DOMAIN s.buffers = DOMAIN buffers
  BY <1>1, <1>2, <1>3, <1>4, QueueMessage
<1> HIDE DEF s
<1>15. Turns(S, t, c, made)
  BY <1>14, Cleaned DEF Turns
<1>16. todo' # <<>> => DOMAIN t.buffers = DOMAIN buffers
  <2>1. Len(todo) = 1 => Tail(todo) = <<>>
    BY <1>2, SingleSeq
  <2> QED BY <2>1, <1>5, <1>14
<1> HIDE DEF t
<1>17. /\ WellFormed(t) /\ t.order = order
       /\ \A d \in Clients : d # c => t.ws[d] = ws[d]
       /\ Sound(t.ws[c], made) /\ t.ws[c].life = ws[c].life
  BY <1>1, <1>15 DEF Turns
<1>18. \A d \in Clients : Sound(ws'[d], Top(d)') /\ ws'[d].life = ws[d].life
  <2> SUFFICES ASSUME NEW d \in Clients PROVE Sound(ws'[d], Top(d)') /\ ws'[d].life = ws[d].life
    OBVIOUS
  <2>1. CASE d = c
    BY <2>1, <1>9, <1>13, <1>17
  <2>2. CASE d # c
    BY <2>2, <1>2, <1>10, <1>13, <1>17
  <2> QED BY <2>1, <2>2
<1>19. ws' = [d \in Clients |-> ws'[d]] /\ Counted(ws', buffers')
  BY <1>13, <1>17 DEF WellFormed
<1>20. order' = order
  BY <1>13, <1>17
<1>21. \A i \in DOMAIN order' : ws'[order'[i]].life = "live"
  BY <1>2, <1>18, <1>20
<1>22. \A i \in DOMAIN todo' : ws'[todo'[i]].life = "live"
  <2> SUFFICES ASSUME NEW i \in DOMAIN todo' PROVE ws'[todo'[i]].life = "live"
    OBVIOUS
  <2>1. i + 1 \in DOMAIN todo /\ todo'[i] = todo[i + 1] /\ todo[i + 1] \in Clients
    BY <1>2, <1>6
  <2> QED BY <2>1, <1>2, <1>18
<1>23. todo' # <<>> => made' \in DOMAIN buffers' /\ made' > 0
  BY <1>2, <1>5, <1>13, <1>16
<1> QED BY <1>1, <1>2, <1>5, <1>11, <1>18, <1>19, <1>20, <1>21, <1>22, <1>23 DEF SocketInv

(* A client with other fields than its queue changed.                      *)
LEMMA Again ==
  ASSUME SocketInv, NEW c \in Clients, todo = <<>>, NEW k \in Sockets,
         k.messages = ws[c].messages, k.in = ws[c].in, k.life = ws[c].life, k.lost = ws[c].lost,
         NEW s, s = [S EXCEPT !.ws[c] = k]
  PROVE  Turns(S, s, c, made) /\ s.ws[c] = k /\ Sound(k, made) /\ WellFormed(s) /\ made \in Nat
<1>1. WellFormed(S) /\ S.ws = ws /\ Sound(ws[c], made) /\ made \in Nat
  BY Whole
<1>2. Sound(k, made)
  BY <1>1, SoundAgain
<1>3. Turns(S, s, c, made) /\ s.ws[c] = k
  BY <1>1, <1>2, Turned
<1> QED BY <1>1, <1>2, <1>3 DEF Turns

LEMMA GoesOn ==
  ASSUME NEW s, NEW t, NEW u, NEW c, NEW top, NEW top2, Turns(s, t, c, top), Goes(t, u, c, top2)
  PROVE  Goes(s, u, c, top2)
BY DEF Turns, Goes

LEMMA ClosesInv ==
  ASSUME SocketInv, todo = <<>>, NEW c \in Clients, ws[c].life = "live",
         Step(LAMBDA fault : close(S, c, fault)), UNCHANGED <<made, todo>>
  PROVE  SocketInv'
<1>1. PICK fault : Become(close(S, c, fault))
  BY DEF Step
<1>2. WellFormed(S) /\ S.ws = ws /\ Sound(ws[c], made) /\ made \in Nat
  BY Whole
<1>3. Turns(S, close(S, c, fault), c, made)
  BY <1>2, Closes
<1> QED BY <1>1, <1>3, TurnStep

LEMMA CleanupInv ==
  ASSUME SocketInv, todo = <<>>, CleanupClients
  PROVE  SocketInv'
<1>1. order # <<>>
  <2>1. count > MaxClients /\ MaxClients \in Nat
    BY SizesAssumption DEF CleanupClients
  <2>2. CASE order = <<>>
    <3>1. {i \in DOMAIN order : ws[order[i]].status = "connected"} = {}
      BY <2>2
    <3>2. count = 0
      BY <3>1, FS_EmptySet DEF count
    <3> QED BY <2>1, <3>2
  <2> QED BY <2>2
<1>2. order \in Seq(Clients) /\ \A i \in DOMAIN order : ws[order[i]].life = "live"
  BY DEF SocketInv, Lined
<1>3. PICK c \in Clients : c = Head(order) /\ ws[c].life = "live"
  BY <1>1, <1>2
<1>4. Step(LAMBDA fault : close(S, c, fault)) /\ UNCHANGED <<made, todo>>
  BY <1>3 DEF CleanupClients
<1> QED BY <1>3, <1>4, ClosesInv

LEMMA PollInv ==
  ASSUME SocketInv, todo = <<>>, NEW c \in Clients, Poll(c)
  PROVE  SocketInv'
<1>1. PICK fault : Become(runQueue(S, c, fault))
  BY DEF Poll, Step
<1>2. WellFormed(S) /\ S.ws = ws /\ Sound(ws[c], made) /\ made \in Nat /\ ws[c].life = "live"
  BY Whole DEF Poll, Live
<1>3. Turns(S, runQueue(S, c, fault), c, made)
  BY <1>2, RunQueue
<1>4. UNCHANGED <<made, todo>>
  BY DEF Poll
<1> QED BY <1>1, <1>3, <1>4, TurnStep

LEMMA AckInv ==
  ASSUME SocketInv, todo = <<>>, NEW c \in Clients, Ack(c)
  PROVE  SocketInv'
<1> DEFINE k == [ws[c] EXCEPT !.flight = 0]
           s == [S EXCEPT !.ws[c] = k]
           len == ws[c].flight
<1>1. PICK fault : Become(onAck([S EXCEPT !.ws[c].flight = 0], c, len, fault))
  BY DEF Ack, Step
<1>2. ws[c] \in Sockets /\ ws[c].life = "live" /\ len \in Int
  BY Whole DEF Ack, Live, Sound, Sockets
<1>3. /\ k \in Sockets /\ k.messages = ws[c].messages /\ k.in = ws[c].in /\ k.life = ws[c].life
      /\ k.lost = ws[c].lost
  BY <1>2 DEF Sockets
<1>4. [S EXCEPT !.ws[c].flight = 0] = s
  BY DEF S
<1> HIDE DEF k
<1>5. Turns(S, s, c, made) /\ s.ws[c] = k /\ Sound(k, made) /\ WellFormed(s) /\ made \in Nat
  BY <1>3, Again
<1> HIDE DEF s, len
<1>6. \/ Turns(s, onAck(s, c, len, fault), c, made)
      \/ Goes(s, onAck(s, c, len, fault), c, made)
  BY <1>2, <1>3, <1>5, OnAck
<1>7. \/ Turns(S, onAck(s, c, len, fault), c, made)
      \/ Goes(S, onAck(s, c, len, fault), c, made)
  BY <1>5, <1>6, TurnsTwice, GoesOn
<1>8. Become(onAck(s, c, len, fault)) /\ UNCHANGED <<made, todo>>
  BY <1>1, <1>4 DEF Ack
<1> QED BY <1>7, <1>8, TurnStep, GoStep

LEMMA PeerClosesInv ==
  ASSUME SocketInv, todo = <<>>, NEW c \in Clients, PeerCloses(c)
  PROVE  SocketInv'
<1> DEFINE s == [S EXCEPT !.ws[c].closing = TRUE]
<1>1. /\ ws[c] \in Sockets /\ ws[c].life = "live" /\ UNCHANGED <<made, todo>>
  BY Whole DEF PeerCloses, Live, Sound
<1>2. CASE ws[c].status = "disconnecting"
  <2> DEFINE k == [ws[c] EXCEPT !.closing = TRUE]
             t == [S EXCEPT !.ws[c] = k]
  <2>1. Become(disconnected(s, c))
    BY <1>2 DEF PeerCloses
  <2>2. /\ k \in Sockets /\ k.messages = ws[c].messages /\ k.in = ws[c].in /\ k.life = ws[c].life
        /\ k.lost = ws[c].lost
    BY <1>1 DEF Sockets
  <2>3. s = t
    BY DEF S
  <2> HIDE DEF k, s
  <2>4. Turns(S, t, c, made) /\ t.ws[c] = k /\ Sound(k, made) /\ WellFormed(t) /\ made \in Nat
    BY <2>2, Again
  <2> HIDE DEF t
  <2>5. Goes(t, disconnected(t, c), c, made)
    BY <2>4, Disconnected
  <2>6. Goes(S, disconnected(t, c), c, made)
    BY <2>4, <2>5, GoesOn
  <2> QED BY <2>1, <2>3, <2>6, <1>1, GoStep
<1>3. CASE ws[c].status # "disconnecting"
  <2> DEFINE k == [ws[c] EXCEPT !.closing = TRUE, !.status = "disconnecting"]
             t == [S EXCEPT !.ws[c] = k]
  <2>1. PICK fault : Become(queueControl([s EXCEPT !.ws[c].status = "disconnecting"], c, "close", fault))
    BY <1>3 DEF PeerCloses, Step
  <2>2. /\ k \in Sockets /\ k.messages = ws[c].messages /\ k.in = ws[c].in /\ k.life = ws[c].life
        /\ k.lost = ws[c].lost
    BY <1>1 DEF Sockets
  <2>3. [s EXCEPT !.ws[c].status = "disconnecting"] = t
    <3> DEFINE v == [ws[c] EXCEPT !.closing = TRUE]
    <3>1. s = [ws |-> [ws EXCEPT ![c] = v], order |-> order, buffers |-> buffers]
      <4>1. s = [S EXCEPT !.ws[c] = v]
        BY DEF S
      <4> HIDE DEF s, v
      <4> QED BY <4>1 DEF S
    <3>2. s.ws[c] = [ws[c] EXCEPT !.closing = TRUE]
      BY <3>1 DEF SocketInv
    <3>b. s = [ws |-> s.ws, order |-> order, buffers |-> buffers]
      BY <3>1
    <3> HIDE DEF s
    <3>3. [s EXCEPT !.ws[c].status = "disconnecting"] =
            [ws |-> [s.ws EXCEPT ![c] = [s.ws[c] EXCEPT !.status = "disconnecting"]], order |-> order, buffers |-> buffers]
      BY <3>b
    <3>4. [s.ws[c] EXCEPT !.status = "disconnecting"] = k
      BY <3>2, <1>1 DEF Sockets
    <3>5. s.ws = [ws EXCEPT ![c] = [ws[c] EXCEPT !.closing = TRUE]]
      BY <3>1
    <3> HIDE DEF k
    <3>6. [s.ws EXCEPT ![c] = k] = [ws EXCEPT ![c] = k]
      BY <3>5 DEF SocketInv
    <3>7. t = [ws |-> [ws EXCEPT ![c] = k], order |-> order, buffers |-> buffers]
      BY DEF S
    <3> QED BY <3>3, <3>4, <3>6, <3>7
  <2> HIDE DEF k, s
  <2>4. Turns(S, t, c, made) /\ t.ws[c] = k /\ Sound(k, made) /\ WellFormed(t) /\ made \in Nat
    BY <2>2, Again
  <2> HIDE DEF t
  <2>5. Turns(t, queueControl(t, c, "close", fault), c, made)
    BY <2>2, <2>4, <1>1, QueueControl
  <2>6. Turns(S, queueControl(t, c, "close", fault), c, made)
    BY <2>4, <2>5, TurnsTwice
  <2> QED BY <2>1, <2>3, <2>6, <1>1, TurnStep
<1> QED BY <1>2, <1>3

LEMMA PeerPingsInv ==
  ASSUME SocketInv, todo = <<>>, NEW c \in Clients, PeerPings(c)
  PROVE  SocketInv'
<1>1. PICK fault : Become(queueControl(S, c, "pong", fault))
  BY DEF PeerPings, Step
<1>2. WellFormed(S) /\ S.ws = ws /\ Sound(ws[c], made) /\ made \in Nat /\ ws[c].life = "live"
  BY Whole DEF PeerPings, Live
<1>3. Turns(S, queueControl(S, c, "pong", fault), c, made)
  BY <1>2, QueueControl
<1>4. UNCHANGED <<made, todo>>
  BY DEF PeerPings
<1> QED BY <1>1, <1>3, <1>4, TurnStep

LEMMA DropsInv ==
  ASSUME SocketInv, todo = <<>>, NEW c \in Clients, Drops(c)
  PROVE  SocketInv'
<1>1. Become(disconnected(S, c)) /\ UNCHANGED <<made, todo>>
  BY DEF Drops
<1>2. WellFormed(S) /\ S.ws = ws /\ Sound(ws[c], made) /\ made \in Nat
  BY Whole
<1>3. Goes(S, disconnected(S, c), c, made)
  BY <1>2, Disconnected
<1> QED BY <1>1, <1>3, GoStep

LEMMA StepInv ==
  ASSUME SocketInv, [Next]_vars
  PROVE  SocketInv'
<1>1. CASE Text
  BY <1>1, TextInv
<1>2. CASE todo = <<>> /\ TextAll
  BY <1>2, TextAllInv
<1>3. CASE todo = <<>> /\ CleanupClients
  BY <1>3, CleanupInv
<1>4. ASSUME NEW c \in Clients, todo = <<>>, Connects(c)
      PROVE  SocketInv'
  BY <1>4, ConnectsInv
<1>5. ASSUME NEW c \in Clients, todo = <<>>, Close(c)
      PROVE  SocketInv'
  BY <1>5, ClosesInv DEF Close, Live
<1>6. ASSUME NEW c \in Clients, todo = <<>>, Poll(c)
      PROVE  SocketInv'
  BY <1>6, PollInv
<1>7. ASSUME NEW c \in Clients, todo = <<>>, Ack(c)
      PROVE  SocketInv'
  BY <1>7, AckInv
<1>8. ASSUME NEW c \in Clients, todo = <<>>, PeerCloses(c)
      PROVE  SocketInv'
  BY <1>8, PeerClosesInv
<1>9. ASSUME NEW c \in Clients, todo = <<>>, PeerPings(c)
      PROVE  SocketInv'
  BY <1>9, PeerPingsInv
<1>10. ASSUME NEW c \in Clients, todo = <<>>, Drops(c)
       PROVE  SocketInv'
  BY <1>10, DropsInv
<1>11. CASE UNCHANGED vars
  BY <1>11 DEF vars, SocketInv, Top
<1> QED BY <1>1, <1>2, <1>3, <1>4, <1>5, <1>6, <1>7, <1>8, <1>9, <1>10, <1>11 DEF Next

THEOREM SocketInvariant == Spec => []SocketInv
<1>1. Init => SocketInv
  BY InitInv
<1>2. SocketInv /\ [Next]_vars => SocketInv'
  BY StepInv
<1> QED BY <1>1, <1>2, PTL DEF Spec

LEMMA SoundQueues ==
  ASSUME SocketInv
  PROVE  MessagesIntact /\ BuffersHeld
<1>1. MessagesIntact
  BY DEF SocketInv, Sound, MessagesIntact
<1>2. ASSUME NEW c \in Clients, NEW i \in DOMAIN ws[c].messages
      PROVE  ws[c].messages[i].buf \in DOMAIN buffers
  <2>1. c \in Holders(ws, ws[c].messages[i].buf)
    BY DEF Holders, Bufs
  <2> QED BY <2>1 DEF SocketInv, Counted
<1> QED BY <1>1, <1>2 DEF BuffersHeld

THEOREM MessagesReassembled == Spec => []MessagesIntact
<1>1. SocketInv => MessagesIntact
  BY SoundQueues
<1> QED BY <1>1, SocketInvariant, PTL

THEOREM BuffersInUse == Spec => []BuffersHeld
<1>1. SocketInv => BuffersHeld
  BY SoundQueues
<1> QED BY <1>1, SocketInvariant, PTL

-------------------------------------------------------------------------------
(* The received frames.                                                    *)

Infos  == [index : Nat, final : BOOLEAN, opcode : Nat, len : Nat, message_opcode : Nat, num : Nat]
Pieces == [info : Infos, from : Nat, n : Nat]

(* The header h is that of f, of which the bytes up to t were taken.       *)
GoesOnWith(h, f, t) ==
  /\ f.at <= t /\ t <= Receiver!End(f)
  /\ h.index = t - f.at
  /\ h.len = f.len /\ h.opcode = f.op /\ h.final = f.fin

(* Between frames the next one begins, within a frame pinfo is its header. *)
InStep ==
  IF pstate = 0
  THEN taken = Receiver!Size(frames) \/ \E i \in DOMAIN frames : frames[i].at = taken + 1
  ELSE \E i \in DOMAIN frames : GoesOnWith(pinfo, frames[i], taken)

InOrder ==
  /\ \A k \in DOMAIN events : events[k].from + events[k].n <= taken + 1
  /\ \A k, l \in DOMAIN events : k < l => events[k].from + events[k].n <= events[l].from

AllGiven ==
  \A i \in DOMAIN frames : frames[i].op \in Receiver!DataOps =>
    \A b \in (frames[i].at + 1)..Receiver!End(frames[i]) :
      b <= taken => \E k \in DOMAIN events : b \in Receiver!Bytes(events[k])

(* What the next piece is announced with goes on from the last one.        *)
Carried ==
  LET last == events[Len(events)] IN
  /\ events # <<>> => /\ pinfo.message_opcode = last.info.message_opcode
                      /\ pinfo.num = last.info.num
  /\ pstate = 1 => events # <<>> /\ pinfo = [last.info EXCEPT !.index = @ + last.n]

ReceiverInv ==
  /\ frames \in Streams
  /\ taken \in Nat /\ arrived \in Nat /\ taken <= arrived /\ arrived <= Receiver!Size(frames)
  /\ pstate \in {0, 1} /\ pinfo \in Infos
  /\ events \in Seq(Pieces)
  /\ InStep
  /\ \A k \in DOMAIN events : \E i \in DOMAIN frames : Receiver!PieceOf(events[k], frames[i])
  /\ InOrder
  /\ AllGiven
  /\ Carried /\ Receiver!Announced

(* What Laid says, for the frames of a stream.                             *)
LEMMA LaidFrames ==
  ASSUME frames \in Streams
  PROVE  /\ frames \in Seq(Receiver!Frames)
         /\ frames # <<>> => frames[1].at = 1
         /\ \A i \in 1..(Len(frames) - 1) : frames[i + 1].at = Receiver!End(frames[i]) + 1
         /\ \A i, j \in DOMAIN frames : i < j => Receiver!End(frames[i]) < frames[j].at
         /\ \A i \in DOMAIN frames : /\ frames[i].at \in Nat /\ frames[i].len \in Nat
                                     /\ frames[i].op \in Nat /\ frames[i].fin \in BOOLEAN
                                     /\ Receiver!End(frames[i]) \in Nat
                                     /\ Receiver!End(frames[i]) = frames[i].at + frames[i].len
         /\ Receiver!Size(frames) \in Nat
<1>1. Receiver!Laid(frames)
  BY FramesAssumption
<1>2. frames \in Seq(Receiver!Frames)
  BY <1>1 DEF Receiver!Laid
<1>3. \A i \in DOMAIN frames : frames[i] \in Receiver!Frames
  BY <1>2
<1>4. Receiver!Frames \subseteq [op : Nat, fin : BOOLEAN, len : Nat, at : Nat]
  BY DEF Receiver!Frames, Receiver!DataOps, Receiver!Text, Receiver!Binary, Receiver!Continuation,
         Receiver!Disconnect, Receiver!Ping, Receiver!Pong
<1>5. \A i \in DOMAIN frames : /\ frames[i].at \in Nat /\ frames[i].len \in Nat
                               /\ frames[i].op \in Nat /\ frames[i].fin \in BOOLEAN
                               /\ Receiver!End(frames[i]) \in Nat
                               /\ Receiver!End(frames[i]) = frames[i].at + frames[i].len
  BY <1>3, <1>4 DEF Receiver!End
<1>6. Receiver!Size(frames) \in Nat
  <2>1. CASE frames = <<>>
    BY <2>1 DEF Receiver!Size
  <2>2. CASE frames # <<>>
    <3>1. Len(frames) \in DOMAIN frames
      BY <2>2, <1>2
    <3> QED BY <3>1, <2>2, <1>5 DEF Receiver!Size
  <2> QED BY <2>1, <2>2
<1> QED BY <1>1, <1>2, <1>5, <1>6 DEF Receiver!Laid

LEMMA ReceiverInit == Receiver!Init => ReceiverInv
<1> SUFFICES ASSUME Receiver!Init PROVE ReceiverInv
  OBVIOUS
<1>1. /\ frames \in Streams /\ arrived = 0 /\ taken = 0 /\ pstate = 0 /\ events = <<>>
      /\ pinfo \in Infos
  BY EventsAssumption, FramesAssumption DEF Receiver!Init, Infos
<1>2. events \in Seq(Pieces) /\ DOMAIN events = {}
  BY <1>1
<1>3. InStep
  <2>1. CASE frames = <<>>
    BY <2>1, <1>1 DEF InStep, Receiver!Size
  <2>2. CASE frames # <<>>
    <3>1. 1 \in DOMAIN frames /\ frames[1].at = 1
      BY <2>2, <1>1, LaidFrames
    <3> QED BY <3>1, <1>1 DEF InStep
  <2> QED BY <2>1, <2>2
<1>4. AllGiven
  BY <1>1, LaidFrames DEF AllGiven
<1>5. 0 <= Receiver!Size(frames)
  BY <1>1, LaidFrames
<1>6. Carried /\ Receiver!Announced
  BY <1>1, <1>2 DEF Carried, Receiver!Announced
<1> QED BY <1>1, <1>2, <1>3, <1>4, <1>5, <1>6 DEF ReceiverInv, InOrder

LEMMA ReceiverSegment == ReceiverInv /\ Receiver!Segment => ReceiverInv'
<1> SUFFICES ASSUME ReceiverInv, Receiver!Segment PROVE ReceiverInv'
  OBVIOUS
<1>1. UNCHANGED <<frames, taken, pstate, pinfo, events>>
  BY DEF Receiver!Segment
<1>2. PICK n \in (arrived + 1)..Receiver!Size(frames) : arrived' = n
  BY DEF Receiver!Segment
<1>3. arrived' \in Nat /\ taken <= arrived' /\ arrived' <= Receiver!Size(frames)
  BY <1>2, LaidFrames DEF ReceiverInv
<1>4. /\ InStep' /\ InOrder' /\ AllGiven'
      /\ \A k \in DOMAIN events : \E i \in DOMAIN frames : Receiver!PieceOf(events[k], frames[i])
  BY <1>1 DEF ReceiverInv, InStep, InOrder, AllGiven, GoesOnWith
<1>5. Carried' /\ Receiver!Announced'
  BY <1>1 DEF ReceiverInv, Carried, Receiver!Announced
<1> QED BY <1>1, <1>3, <1>4, <1>5 DEF ReceiverInv

(* Where a turn of the loop begins: the frame, and what it finds of it.    *)
LEMMA TurnBegins ==
  ASSUME ReceiverInv, taken < arrived
  PROVE  LET p    == Receiver!opened
             from == IF pstate = 1 THEN taken + 1 ELSE taken + 2
         IN /\ p \in Infos
            /\ \E i \in DOMAIN frames :
                 /\ GoesOnWith(p, frames[i], from - 1)
                 /\ taken <= from - 1 /\ from - 1 <= arrived
                 /\ \A b \in (taken + 1)..(from - 1) : b = frames[i].at
<1> DEFINE p == Receiver!opened
           from == IF pstate = 1 THEN taken + 1 ELSE taken + 2
<1>1. CASE pstate = 1
  <2>1. p = pinfo /\ from = taken + 1
    BY <1>1 DEF Receiver!opened
  <2>2. PICK i \in DOMAIN frames : GoesOnWith(pinfo, frames[i], taken)
    BY <1>1 DEF ReceiverInv, InStep
  <2>3. from - 1 = taken /\ (taken + 1)..(from - 1) = {}
    BY <2>1 DEF ReceiverInv
  <2> QED BY <2>1, <2>2, <2>3 DEF ReceiverInv
<1>2. CASE pstate # 1
  <2>1. pstate = 0 /\ from = taken + 2
    BY <1>2 DEF ReceiverInv
  <2>2. taken # Receiver!Size(frames)
    BY LaidFrames DEF ReceiverInv
  <2>3. \E i \in DOMAIN frames : frames[i].at = taken + 1
    BY <2>1, <2>2 DEF ReceiverInv, InStep
  <2> DEFINE i == CHOOSE i \in DOMAIN frames : frames[i].at = taken + 1
  <2>4. i \in DOMAIN frames /\ frames[i].at = taken + 1
    BY <2>3
  <2> DEFINE f == frames[i]
  <2>5. /\ f.at \in Nat /\ f.len \in Nat /\ f.op \in Nat /\ f.fin \in BOOLEAN
        /\ Receiver!End(f) = f.at + f.len
    BY <2>4, LaidFrames DEF ReceiverInv
  <2>6. p = [pinfo EXCEPT !.index = 0, !.final = f.fin, !.opcode = f.op, !.len = f.len]
    BY <1>2 DEF Receiver!opened, Receiver!beginning
  <2> HIDE DEF p
  <2>7. p \in Infos /\ p.index = 0 /\ p.final = f.fin /\ p.opcode = f.op /\ p.len = f.len
    <3>1. pinfo \in Infos
      BY DEF ReceiverInv
    <3> HIDE DEF f
    <3> QED BY <2>5, <2>6, <3>1 DEF Infos
  <2>8. GoesOnWith(p, f, from - 1)
    BY <2>1, <2>4, <2>5, <2>7 DEF GoesOnWith, ReceiverInv
  <2>9. taken \in Nat /\ arrived \in Nat
    BY DEF ReceiverInv
  <2> HIDE DEF f, from
  <2>10. from - 1 = taken + 1
    BY <2>1, <2>9
  <2>11. taken <= from - 1 /\ from - 1 <= arrived
    BY <2>9, <2>10
  <2>12. \A b \in (taken + 1)..(from - 1) : b = f.at
    <3>1. f.at = taken + 1
      BY <2>4 DEF f
    <3>2. \A b \in (taken + 1)..(taken + 1) : b = taken + 1
      BY <2>9
    <3> QED BY <2>10, <3>1, <3>2
  <2> QED BY <2>4, <2>7, <2>8, <2>11, <2>12 DEF f, from, p
<1> QED BY <1>1, <1>2

(* The next n bytes of the frame i are taken, and given to the program     *)
(* unless they are of a control frame.                                     *)
LEMMA TurnTakes ==
  ASSUME ReceiverInv, NEW i \in DOMAIN frames, NEW from \in Nat, NEW n \in Nat, NEW h \in Infos,
         GoesOnWith(h, frames[i], from - 1), from + n - 1 <= Receiver!End(frames[i]),
         taken <= from - 1,
         \A b \in (taken + 1)..(from - 1) : b = frames[i].at,
         taken' = from + n - 1, frames' = frames,
         \/ events' = Append(events, Receiver!Event(h, from, n))
         \/ events' = events /\ frames[i].op \notin Receiver!DataOps
  PROVE  /\ events' \in Seq(Pieces)
         /\ \A k \in DOMAIN events' : \E j \in DOMAIN frames : Receiver!PieceOf(events'[k], frames[j])
         /\ InOrder' /\ AllGiven'
<1> DEFINE e == Receiver!Event(h, from, n)
<1>0. /\ taken \in Nat /\ events \in Seq(Pieces) /\ frames \in Streams
      /\ \A k \in DOMAIN events : \E j \in DOMAIN frames : Receiver!PieceOf(events[k], frames[j])
      /\ InOrder /\ AllGiven
  BY DEF ReceiverInv
<1>1. /\ e \in Pieces /\ e.from = from /\ e.n = n /\ e.info = h
  BY DEF Receiver!Event, Pieces
<1>2. /\ frames[i].at \in Nat /\ frames[i].len \in Nat
      /\ Receiver!End(frames[i]) = frames[i].at + frames[i].len
  BY <1>0, LaidFrames
<1>3. Receiver!PieceOf(e, frames[i])
  BY <1>1, <1>2 DEF Receiver!PieceOf, GoesOnWith
<1> HIDE DEF e
<1>4. \A k \in DOMAIN events : events[k].from \in Nat /\ events[k].n \in Nat
  <2>1. \A k \in DOMAIN events : events[k] \in Pieces
    BY <1>0
  <2> QED BY <2>1 DEF Pieces
<1>5. taken <= taken' /\ taken' \in Nat
  BY <1>0
<1>6. ASSUME NEW j \in DOMAIN frames, frames[j].op \in Receiver!DataOps,
             NEW b \in (frames[j].at + 1)..Receiver!End(frames[j]), b <= taken', ~(b <= taken)
      PROVE  j = i /\ b \in from..(from + n - 1)
  <2>1. /\ frames[j].at \in Nat /\ Receiver!End(frames[j]) \in Nat /\ b \in Nat
    BY <1>0, LaidFrames
  <2>2. /\ i < j => Receiver!End(frames[i]) < frames[j].at
        /\ j < i => Receiver!End(frames[j]) < frames[i].at
    BY <1>0, LaidFrames
  <2>3. i \in Nat /\ j \in Nat
    BY SMTT(20), <1>0, LaidFrames
  <2>4. b = frames[i].at \/ b \in from..(from + n - 1)
    BY <2>1, <1>6, <1>0
  <2>5. frames[i].at <= b /\ b <= Receiver!End(frames[i])
    BY <2>4, <2>1, <1>2 DEF GoesOnWith
  <2>6. j = i
    BY SMTT(20), <2>1, <2>2, <2>3, <2>5, <1>2, <1>6
  <2> QED BY <2>1, <2>4, <2>6, <1>6, <1>2
<1>7. CASE events' = Append(events, e)
  <2>1. /\ events' \in Seq(Pieces) /\ Len(events') = Len(events) + 1
        /\ \A k \in DOMAIN events : k \in DOMAIN events' /\ events'[k] = events[k]
        /\ Len(events) + 1 \in DOMAIN events' /\ events'[Len(events) + 1] = e
        /\ \A k \in DOMAIN events' : k \in DOMAIN events \/ k = Len(events) + 1
    BY <1>7, <1>1, <1>0
  <2>2. \A k \in DOMAIN events' : \E j \in DOMAIN frames : Receiver!PieceOf(events'[k], frames[j])
    BY <2>1, <1>3, <1>0
  <2>3. \A k \in DOMAIN events' : events'[k].from + events'[k].n <= taken' + 1
    BY SMTT(20), <2>1, <1>0, <1>1, <1>4, <1>5 DEF InOrder
  <2>4. ASSUME NEW k \in DOMAIN events', NEW l \in DOMAIN events', k < l
        PROVE  events'[k].from + events'[k].n <= events'[l].from
    <3>1. CASE l \in DOMAIN events
      <4>1. k \in DOMAIN events
        BY <3>1, <2>4, <2>1, <1>0
      <4> QED BY <4>1, <3>1, <2>4, <2>1, <1>0 DEF InOrder
    <3>2. CASE l = Len(events) + 1
      <4>1. k \in DOMAIN events
        BY <3>2, <2>4, <2>1, <1>0
      <4>2. events'[k].from + events'[k].n <= taken + 1
        BY <4>1, <2>1, <1>0 DEF InOrder
      <4> QED BY <4>1, <4>2, <3>2, <2>1, <1>0, <1>1, <1>4
    <3> QED BY <3>1, <3>2, <2>1
  <2>5. AllGiven'
    <3> SUFFICES ASSUME NEW j \in DOMAIN frames, frames[j].op \in Receiver!DataOps,
                        NEW b \in (frames[j].at + 1)..Receiver!End(frames[j]), b <= taken'
                 PROVE  \E k \in DOMAIN events' : b \in Receiver!Bytes(events'[k])
      BY DEF AllGiven
    <3>1. CASE b <= taken
      BY <3>1, <2>1, <1>0 DEF AllGiven
    <3>2. CASE ~(b <= taken)
      <4>1. b \in Receiver!Bytes(e)
        BY <3>2, <1>6, <1>1 DEF Receiver!Bytes
      <4> QED BY <4>1, <2>1
    <3> QED BY <3>1, <3>2
  <2> QED BY <2>1, <2>2, <2>3, <2>4, <2>5 DEF InOrder
<1>8. CASE events' = events /\ frames[i].op \notin Receiver!DataOps
  <2>1. InOrder'
    <3>1. \A k \in DOMAIN events : events[k].from + events[k].n <= taken' + 1
      BY <1>0, <1>4, <1>5 DEF InOrder
    <3> QED BY <3>1, <1>0, <1>8 DEF InOrder
  <2>2. AllGiven'
    <3> SUFFICES ASSUME NEW j \in DOMAIN frames, frames[j].op \in Receiver!DataOps,
                        NEW b \in (frames[j].at + 1)..Receiver!End(frames[j]), b <= taken'
                 PROVE  \E k \in DOMAIN events : b \in Receiver!Bytes(events[k])
      BY <1>8 DEF AllGiven
    <3>1. b <= taken
      BY <1>6, <1>8
    <3> QED BY <3>1, <1>0 DEF AllGiven
  <2> QED BY <2>1, <2>2, <1>0, <1>8
<1> QED BY <1>7, <1>8 DEF e

(* A new piece, with n bytes of the frame whose header is p and announced  *)
(* as h, is announced as Announced says.                                   *)
LEMMA TurnAnnounces ==
  ASSUME ReceiverInv, NEW p \in Infos, NEW h, NEW from, NEW n \in Nat,
         p = Receiver!opened,
         h = IF p.index + n < p.len THEN Receiver!numbered(p) ELSE p,
         p.index + n <= p.len,
         events' = Append(events, Receiver!Event(h, from, n))
  PROVE  Receiver!Announced'
<1> DEFINE e == Receiver!Event(h, from, n)
           m == Len(events)
           last == events[m]
<1>1. /\ events \in Seq(Pieces) /\ pstate \in {0, 1} /\ pinfo \in Infos
      /\ Carried /\ Receiver!Announced
  BY DEF ReceiverInv
<1>2. e.info = h /\ e.n = n
  BY DEF Receiver!Event
<1> HIDE DEF e
<1>3. /\ m \in Nat /\ DOMAIN events = 1..m /\ DOMAIN events' = 1..(m + 1)
      /\ events'[m + 1] = e
      /\ \A k \in 1..m : events'[k] = events[k]
  BY <1>1 DEF e
<1>4. m # 0 => /\ last \in Pieces
               /\ pinfo.message_opcode = last.info.message_opcode /\ pinfo.num = last.info.num
  <2>1. m # 0 => events # <<>> /\ m \in DOMAIN events
    BY <1>1, <1>3
  <2> QED BY <2>1, <1>1 DEF Carried
<1>5. pstate = 1 => m # 0 /\ p = [last.info EXCEPT !.index = @ + last.n]
  BY <1>1 DEF Carried, Receiver!opened
<1>6. pstate = 0 => /\ p.index = 0
                    /\ p.message_opcode = pinfo.message_opcode /\ p.num = pinfo.num
  BY <1>1 DEF Receiver!opened, Infos
<1>7. m # 0 => p.message_opcode = last.info.message_opcode /\ p.num = last.info.num
  BY <1>1, <1>4, <1>5, <1>6 DEF Receiver!opened
<1>8. p.index # 0 => h = p /\ m # 0 /\ p = [last.info EXCEPT !.index = @ + last.n]
  BY <1>1, <1>5, <1>6 DEF Receiver!numbered
<1>9. h.index = p.index /\ h.len = p.len /\ h.opcode = p.opcode
  BY DEF Receiver!numbered, Infos
<1>10. p.index = 0 /\ n < p.len /\ p.opcode # Receiver!Continuation =>
         h.message_opcode = p.opcode /\ h.num = 0
  BY DEF Receiver!numbered, Infos
<1>11. p.index = 0 /\ n < p.len /\ p.opcode = Receiver!Continuation =>
         h.message_opcode = p.message_opcode /\ h.num = p.num + 1
  BY DEF Receiver!numbered, Infos
<1>12. ASSUME NEW k \in DOMAIN events', k = m + 1
       PROVE  LET q      == events'[k].info
                  cut    == events'[k].n < q.len
                  before == events'[k - 1]
              IN /\ q.index # 0 => k > 1 /\ q = [before.info EXCEPT !.index = @ + before.n]
                 /\ q.index = 0 /\ cut /\ q.opcode # Receiver!Continuation =>
                      q.message_opcode = q.opcode /\ q.num = 0
                 /\ q.index = 0 /\ cut /\ q.opcode = Receiver!Continuation /\ k > 1 =>
                      /\ q.message_opcode = before.info.message_opcode
                      /\ q.num = before.info.num + 1
  <2>1. events'[k].info = h /\ events'[k].n = n
    BY <1>2, <1>3, <1>12
  <2>2. m # 0 => k > 1 /\ k - 1 \in 1..m /\ k - 1 = m
    BY <1>3, <1>12
  <2>3. m # 0 => events'[k - 1] = last
    BY <2>2, <1>3
  <2>4. k > 1 => m # 0
    BY <1>3, <1>12
  <2> HIDE DEF last, m
  <2>5. h.index # 0 => k > 1 /\ h = [last.info EXCEPT !.index = @ + last.n]
    BY <2>2, <1>8, <1>9
  <2>6. h.index = 0 /\ n < h.len /\ h.opcode # Receiver!Continuation =>
          h.message_opcode = h.opcode /\ h.num = 0
    BY <1>9, <1>10
  <2>7. h.index = 0 /\ n < h.len /\ h.opcode = Receiver!Continuation /\ k > 1 =>
          h.message_opcode = last.info.message_opcode /\ h.num = last.info.num + 1
    BY <2>4, <1>7, <1>9, <1>11
  <2> QED BY <2>1, <2>2, <2>3, <2>4, <2>5, <2>6, <2>7
<1>13. ASSUME NEW k \in DOMAIN events', k # m + 1
       PROVE  k \in DOMAIN events /\ events'[k] = events[k]
              /\ (k > 1 => events'[k - 1] = events[k - 1])
  <2>1. k \in 1..m /\ (k > 1 => k - 1 \in 1..m)
    BY <1>3, <1>13
  <2> QED BY <2>1, <1>3
<1> HIDE DEF m, last
<1>14. ASSUME NEW k \in DOMAIN events', k # m + 1
       PROVE  LET q      == events'[k].info
                  cut    == events'[k].n < q.len
                  before == events'[k - 1]
              IN /\ q.index # 0 => k > 1 /\ q = [before.info EXCEPT !.index = @ + before.n]
                 /\ q.index = 0 /\ cut /\ q.opcode # Receiver!Continuation =>
                      q.message_opcode = q.opcode /\ q.num = 0
                 /\ q.index = 0 /\ cut /\ q.opcode = Receiver!Continuation /\ k > 1 =>
                      /\ q.message_opcode = before.info.message_opcode
                      /\ q.num = before.info.num + 1
  <2>1. k \in DOMAIN events /\ events'[k] = events[k]
    BY <1>13, <1>14
  <2>2. CASE k > 1
    <3>1. events'[k - 1] = events[k - 1]
      BY <1>13, <1>14, <2>2
    <3> QED BY <1>1, <2>1, <2>2, <3>1 DEF Receiver!Announced
  <2>3. CASE ~(k > 1)
    <3>1. events[k].info.index = 0
      BY <1>1, <2>1, <2>3 DEF Receiver!Announced
    <3>2. /\ events[k].n < events[k].info.len
          /\ events[k].info.opcode # Receiver!Continuation
          => events[k].info.message_opcode = events[k].info.opcode /\ events[k].info.num = 0
      BY <1>1, <2>1, <3>1 DEF Receiver!Announced
    <3> QED BY <2>1, <2>3, <3>1, <3>2
  <2> QED BY <2>2, <2>3
<1> QED BY <1>12, <1>14 DEF Receiver!Announced

LEMMA ReceiverTurn == ReceiverInv /\ Receiver!Turn => ReceiverInv'
<1> SUFFICES ASSUME ReceiverInv, Receiver!Turn PROVE ReceiverInv'
  OBVIOUS
<1> DEFINE p == Receiver!opened
           from == IF pstate = 1 THEN taken + 1 ELSE taken + 2
           plen == arrived - from + 1
           datalen == IF p.len - p.index < plen THEN p.len - p.index ELSE plen
<1>1. /\ taken < arrived /\ taken' = from + datalen - 1
      /\ UNCHANGED <<frames, arrived>>
      /\ IF p.index + datalen < p.len
         THEN /\ pstate' = 1
              /\ events' = Append(events, Receiver!Event(Receiver!numbered(p), from, datalen))
              /\ pinfo' = Receiver!advanced(Receiver!numbered(p), datalen)
         ELSE /\ pstate' = 0
              /\ pinfo' = p
              /\ IF p.opcode \in Receiver!DataOps
                 THEN events' = Append(events, Receiver!Event(p, from, datalen))
                 ELSE events' = events
  BY DEF Receiver!Turn
<1>2. /\ p \in Infos
      /\ \E i \in DOMAIN frames :
           /\ GoesOnWith(p, frames[i], from - 1)
           /\ taken <= from - 1 /\ from - 1 <= arrived
           /\ \A b \in (taken + 1)..(from - 1) : b = frames[i].at
  BY <1>1, TurnBegins
<1>3. from \in Nat /\ arrived \in Nat /\ taken \in Nat /\ frames \in Streams
  BY DEF ReceiverInv
<1> HIDE DEF p, from
<1>4. PICK i \in DOMAIN frames :
           /\ GoesOnWith(p, frames[i], from - 1)
           /\ taken <= from - 1 /\ from - 1 <= arrived
           /\ \A b \in (taken + 1)..(from - 1) : b = frames[i].at
  BY <1>2
<1> DEFINE f == frames[i]
<1>5. /\ f.at \in Nat /\ f.len \in Nat /\ Receiver!End(f) = f.at + f.len
  BY <1>3, LaidFrames
<1>6. /\ p.index \in Nat /\ p.len \in Nat /\ p.index = from - 1 - f.at /\ p.len = f.len
      /\ p.opcode = f.op /\ p.final = f.fin
  BY <1>2, <1>4 DEF GoesOnWith, Infos
<1>7. p.len - p.index \in Nat /\ plen \in Nat /\ plen = arrived - from + 1
  BY <1>3, <1>4, <1>5, <1>6 DEF GoesOnWith
<1> HIDE DEF plen
<1>8. /\ datalen \in Nat /\ datalen <= p.len - p.index /\ datalen <= plen
      /\ p.index + datalen < p.len \/ datalen = p.len - p.index
  BY <1>6, <1>7
<1> HIDE DEF datalen, f
<1>9. from + datalen - 1 <= Receiver!End(frames[i])
  BY <1>3, <1>5, <1>6, <1>8 DEF f
<1>10. /\ taken' \in Nat /\ taken' <= arrived /\ arrived' = arrived
       /\ arrived <= Receiver!Size(frames)
  BY <1>1, <1>3, <1>4, <1>7, <1>8 DEF ReceiverInv
<1> DEFINE h == IF p.index + datalen < p.len THEN Receiver!numbered(p) ELSE p
<1>11. h \in Infos /\ h.index = p.index /\ h.len = p.len /\ h.opcode = p.opcode /\ h.final = p.final
  <2>1. CASE h = p
    BY <2>1, <1>2
  <2>2. CASE h = [p EXCEPT !.message_opcode = p.opcode, !.num = 0]
    <3> DEFINE g == [p EXCEPT !.message_opcode = p.opcode]
    <3>1. g \in Infos /\ g.index = p.index /\ g.len = p.len /\ g.opcode = p.opcode /\ g.final = p.final
      BY <1>2 DEF Infos
    <3>2. h = [g EXCEPT !.num = 0]
      BY <2>2, <1>2 DEF Infos
    <3> HIDE DEF g
    <3> QED BY <3>1, <3>2 DEF Infos
  <2>3. CASE h = [p EXCEPT !.num = @ + 1]
    BY <2>3, <1>2 DEF Infos
  <2> QED BY <2>1, <2>2, <2>3 DEF Receiver!numbered
<1>12. GoesOnWith(h, frames[i], from - 1)
  BY <1>11, <1>4 DEF GoesOnWith
<1>13. \/ events' = Append(events, Receiver!Event(h, from, datalen))
       \/ events' = events /\ frames[i].op \notin Receiver!DataOps
  BY <1>1, <1>6 DEF f
<1> HIDE DEF h
<1>14. /\ events' \in Seq(Pieces)
       /\ \A k \in DOMAIN events' : \E j \in DOMAIN frames : Receiver!PieceOf(events'[k], frames[j])
       /\ InOrder' /\ AllGiven'
  BY <1>1, <1>3, <1>4, <1>8, <1>9, <1>11, <1>12, <1>13, TurnTakes
<1>15. pstate' \in {0, 1} /\ pinfo' \in Infos /\ InStep'
  <2>1. CASE p.index + datalen < p.len
    <3>1. pstate' = 1 /\ pinfo' = Receiver!advanced(h, datalen)
      BY <2>1, <1>1 DEF h
    <3>2. /\ pinfo' \in Infos /\ pinfo'.index = p.index + datalen
          /\ pinfo'.len = p.len /\ pinfo'.opcode = p.opcode /\ pinfo'.final = p.final
      BY <3>1, <1>8, <1>11, <1>6 DEF Receiver!advanced, Infos
    <3>3. GoesOnWith(pinfo', frames[i], taken')
      <4> DEFINE t == from + datalen - 1
                 o == p.index + datalen
      <4>0. taken' = t /\ pinfo'.index = o
        BY <1>1, <3>2
      <4>1. f.at <= t /\ t <= Receiver!End(f)
        BY <1>3, <1>5, <1>6, <1>8, <1>9 DEF f
      <4>2. o = t - f.at
        BY <1>3, <1>5, <1>6, <1>8
      <4>3. pinfo'.len = f.len /\ pinfo'.opcode = f.op /\ pinfo'.final = f.fin
        BY <3>2, <1>6
      <4> QED BY <4>0, <4>1, <4>2, <4>3 DEF GoesOnWith, f
    <3> QED BY <3>1, <3>2, <3>3, <1>1 DEF InStep
  <2>2. CASE ~(p.index + datalen < p.len)
    <3>1. pstate' = 0 /\ pinfo' = p
      BY <2>2, <1>1
    <3>2. taken' = Receiver!End(frames[i])
      <4>1. taken' = from + datalen - 1 /\ datalen = p.len - p.index
        BY <2>2, <1>1, <1>8
      <4>2. taken' = from + (f.len - (from - 1 - f.at)) - 1
        BY <4>1, <1>6
      <4> QED BY <4>2, <1>3, <1>5 DEF f
    <3>3. CASE i = Len(frames)
      BY <3>1, <3>2, <3>3, <1>1, <1>2 DEF InStep, Receiver!Size
    <3>4. CASE i # Len(frames)
      <4>1. i \in 1..(Len(frames) - 1) /\ i + 1 \in DOMAIN frames
        BY <3>4, <1>3, LaidFrames
      <4>2. frames[i + 1].at = taken' + 1
        BY <4>1, <3>2, <1>3, LaidFrames
      <4> QED BY <4>1, <4>2, <3>1, <1>1, <1>2 DEF InStep
    <3> QED BY <3>3, <3>4
  <2> QED BY <2>1, <2>2
<1>16. Receiver!Announced'
  <2>1. CASE events' = Append(events, Receiver!Event(h, from, datalen))
    <3>1. p = Receiver!opened /\ p.index + datalen <= p.len
      BY <1>6, <1>7, <1>8 DEF p
    <3> QED BY <2>1, <3>1, <1>2, <1>8, TurnAnnounces DEF h
  <2>2. CASE events' = events
    BY <2>2 DEF ReceiverInv, Receiver!Announced
  <2> QED BY <1>13, <2>1, <2>2
<1>17. Carried'
  <2>1. CASE events' = Append(events, Receiver!Event(h, from, datalen))
    <3> DEFINE e == Receiver!Event(h, from, datalen)
    <3>1. e.info = h /\ e.n = datalen
      BY DEF Receiver!Event
    <3> HIDE DEF e
    <3>2. events' # <<>> /\ events'[Len(events')] = e
      <4>1. events \in Seq(Pieces)
        BY DEF ReceiverInv
      <4> QED BY <2>1, <4>1 DEF e
    <3>3. CASE p.index + datalen < p.len
      <4>1. pinfo' = [h EXCEPT !.index = @ + datalen]
        BY <3>3, <1>1 DEF h, Receiver!advanced
      <4>2. pinfo'.message_opcode = h.message_opcode /\ pinfo'.num = h.num
        BY <4>1, <1>11 DEF Infos
      <4> QED BY <3>1, <3>2, <4>1, <4>2 DEF Carried
    <3>4. CASE ~(p.index + datalen < p.len)
      <4>1. pstate' = 0 /\ pinfo' = h
        BY <3>4, <1>1 DEF h
      <4> QED BY <3>1, <3>2, <4>1 DEF Carried
    <3> QED BY <3>3, <3>4
  <2>2. CASE events' = events /\ frames[i].op \notin Receiver!DataOps
    <3>1. ~(p.index + datalen < p.len)
      <4>1. events \in Seq(Pieces)
        BY DEF ReceiverInv
      <4>2. ASSUME NEW x PROVE Append(events, x) # events
        BY <4>1
      <4> QED BY <2>2, <4>2, <1>1
    <3>2. pstate' = 0 /\ pinfo' = p
      BY <3>1, <1>1
    <3>3. events # <<>> => /\ p.message_opcode = events[Len(events)].info.message_opcode
                          /\ p.num = events[Len(events)].info.num
      <4>1. p.message_opcode = pinfo.message_opcode /\ p.num = pinfo.num
        BY DEF p, Receiver!opened, ReceiverInv, Infos
      <4> QED BY <4>1 DEF ReceiverInv, Carried
    <3> QED BY <2>2, <3>2, <3>3 DEF Carried
  <2> QED BY <1>13, <2>1, <2>2
<1> QED BY <1>1, <1>3, <1>10, <1>14, <1>15, <1>16, <1>17 DEF ReceiverInv

LEMMA ReceiverStep == ReceiverInv /\ [Receiver!Next]_receiverVars => ReceiverInv'
<1>1. ASSUME ReceiverInv, UNCHANGED receiverVars PROVE ReceiverInv'
  <2>1. UNCHANGED <<frames, arrived, taken, pstate, pinfo, events>>
    BY <1>1 DEF receiverVars
  <2>2. InStep' /\ InOrder' /\ AllGiven'
    BY <2>1, <1>1 DEF ReceiverInv, InStep, InOrder, AllGiven, GoesOnWith
  <2>3. Carried' /\ Receiver!Announced'
    BY <2>1, <1>1 DEF ReceiverInv, Carried, Receiver!Announced
  <2> QED BY <2>1, <2>2, <2>3, <1>1 DEF ReceiverInv
<1> QED BY <1>1, ReceiverSegment, ReceiverTurn DEF Receiver!Next

LEMMA MCReceiver == ReceiverInv /\ [MCNext]_MCvars => ReceiverInv'
<1> USE DEF OfSocket, OfReceiver, OfSource, OfTemplate, MCvars
<1>1. ASSUME [MCNext]_MCvars PROVE [Receiver!Next]_receiverVars
  BY <1>1 DEF MCNext
<1> QED BY <1>1, ReceiverStep

(* However the stream of a peer is cut into segments, the program gets     *)
(* every byte of the data frames once and in order, in pieces announced as *)
(* what they are.                                                          *)
THEOREM FramesReassembled == MCSpec => []DataWhole
<1>1. MCInit => ReceiverInv
  BY ReceiverInit DEF MCInit
<1>2. ReceiverInv /\ [MCNext]_MCvars => ReceiverInv'
  BY MCReceiver
<1>3. ReceiverInv => DataWhole
  BY DEF ReceiverInv, InOrder, AllGiven, DataWhole, Receiver!DataWhole
<1> QED BY <1>1, <1>2, <1>3, PTL DEF MCSpec

-------------------------------------------------------------------------------
(* Induction, for a set of naturals: were n the least to be missing, the   *)
(* successor would be an injection of those up to n into one fewer.        *)
LEMMA SetInduction ==
  ASSUME NEW T, 0 \in T, \A n \in Nat : n \in T => n + 1 \in T
  PROVE  Nat \subseteq T
<1> SUFFICES ASSUME NEW n \in Nat, n \notin T PROVE FALSE
  OBVIOUS
<1> DEFINE A == 0..n \cap T
           f == [x \in A |-> x + 1]
<1>1. IsFiniteSet(A) /\ 0 \in A
  <2>1. IsFiniteSet(0..n)
    BY FS_Interval
  <2>2. A \subseteq 0..n
    OBVIOUS
  <2> QED BY <2>1, <2>2, FS_Subset
<1>2. /\ IsFiniteSet(A \ {0}) /\ Cardinality(A) \in Nat
      /\ Cardinality(A \ {0}) = Cardinality(A) - 1
  BY <1>1, FS_RemoveElement, FS_CardinalityType
<1>3. f \in [A -> A \ {0}]
  <2> SUFFICES ASSUME NEW x \in A PROVE x + 1 \in A \ {0}
    OBVIOUS
  <2>1. x # n /\ x \in Nat /\ x + 1 \in T
    OBVIOUS
  <2> QED BY <2>1
<1>4. \E x, y \in A : x # y /\ f[x] = f[y]
  <2> HIDE DEF A, f
  <2>1. Cardinality(A \ {0}) < Cardinality(A)
    BY <1>2
  <2> QED BY <1>1, <1>2, <1>3, <2>1, FS_PigeonHole
<1> QED BY <1>4
-------------------------------------------------------------------------------
(* The events.                                                             *)

Owed    == [id : Nat, len : Nat]
Waiting == [id : Nat, len : Nat, sent : Nat, acked : Nat]
Streamed == [life : {"none", "head", "live", "gone"}, queue : Seq(Waiting), flight : Seq(Nat),
             got : Seq(Nat), busy : BOOLEAN, unacked : Int, unsent : Int, ackedLen : Nat,
             closing : BOOLEAN, owed : SUBSET Owed]

(* Every event of the queue is owed, and sent as a whole or not at all; of *)
(* one that is not sent the stream s has nothing.                          *)
QueueFits(q, s, owed) ==
  /\ \A i \in DOMAIN q : /\ \E e \in owed : q[i].id = e.id /\ q[i].len = e.len
                         /\ q[i].sent = q[i].len \/ q[i].sent = 0
                         /\ q[i].sent # q[i].len => \A j \in DOMAIN s : s[j] # q[i].id
  /\ \A i, j \in DOMAIN q : i # j => q[i].id # q[j].id

(* What was made is at most m; events have different numbers.              *)
Numbered(s, owed, m) ==
  /\ \A j \in DOMAIN s : s[j] \in 0..m
  /\ \A e \in owed : e.id \in 1..m
  /\ \A e, f \in owed : e.id = f.id => e = f

Places(s, id) == {i \in DOMAIN s : s[i] = id}
Piece(s, e) == Places(s, e.id) = {} \/ \E b \in DOMAIN s : Places(s, e.id) = b..(b + e.len - 1)

Fits(k, m) ==
  /\ k \in Streamed
  /\ Len(k.flight) <= Room
  /\ QueueFits(k.queue, Source!Stream(k), k.owed)
  /\ Numbered(Source!Stream(k), k.owed, m)
  /\ \A e \in k.owed : Piece(Source!Stream(k), e)

SourceInv ==
  /\ sent \in Nat
  /\ es = [c \in Browsers |-> es[c]]
  /\ \A c \in Browsers : Fits(es[c], sent)

-------------------------------------------------------------------------------
Copies(id, n) == [i \in 1..n |-> id]

LEMMA Joined ==
  ASSUME NEW s \in Seq(Nat), NEW t \in Seq(Nat), NEW u \in Seq(Nat)
  PROVE  s \o (t \o u) = (s \o t) \o u
<1>1. (s \o t) \o u = s \o (t \o u)
  BY SMTT(20), ConcatAssociative
<1> QED BY <1>1

(* t is s with n places more, for the event id.                            *)
Extended(s, t, id, n) ==
  /\ t \in Seq(Nat) /\ Len(t) = Len(s) + n
  /\ \A j \in DOMAIN s : j \in DOMAIN t /\ t[j] = s[j]
  /\ \A j \in DOMAIN t : j \in DOMAIN s \/ t[j] = id
  /\ \A e \in Owed : e.id # id /\ Piece(s, e) => Piece(t, e)
  /\ \A e \in Owed : e.id = id /\ e.len = n /\ Places(s, id) = {} => Piece(t, e)

LEMMA PieceAdded ==
  ASSUME NEW s \in Seq(Nat), NEW id \in Nat, NEW n \in Nat,
         NEW t, t = s \o Copies(id, n)
  PROVE  Extended(s, t, id, n)
<1> DEFINE u == Copies(id, n)
<1>1. u \in Seq(Nat) /\ Len(u) = n /\ \A j \in 1..n : u[j] = id
  BY DEF Copies
<1>2. /\ t \in Seq(Nat) /\ Len(t) = Len(s) + n
      /\ \A j \in 1..(Len(s) + n) : t[j] = IF j <= Len(s) THEN s[j] ELSE u[j - Len(s)]
  <2>1. t = s \o u
    OBVIOUS
  <2> HIDE DEF u
  <2>2. /\ s \o u \in Seq(Nat) /\ Len(s \o u) = Len(s) + Len(u)
        /\ \A j \in 1..(Len(s) + Len(u)) :
             (s \o u)[j] = IF j <= Len(s) THEN s[j] ELSE u[j - Len(s)]
    BY <1>1, ConcatProperties
  <2> QED BY <1>1, <2>1, <2>2
<1>3. /\ DOMAIN s = 1..Len(s) /\ DOMAIN t = 1..(Len(s) + n) /\ Len(s) \in Nat
  BY <1>2
<1>4. \A j \in DOMAIN s : j \in DOMAIN t /\ t[j] = s[j]
  BY <1>2, <1>3
<1>5. \A j \in DOMAIN t : j \in DOMAIN s \/ t[j] = id
  <2> HIDE DEF u
  <2>1. ASSUME NEW j \in DOMAIN t, j \notin DOMAIN s PROVE t[j] = id
    <3>1. j \in 1..(Len(s) + n) /\ ~(j <= Len(s)) /\ j - Len(s) \in 1..n
      BY <2>1, <1>3
    <3> QED BY <3>1, <1>1, <1>2
  <2> QED BY <2>1
<1>6. ASSUME NEW e \in Owed, e.id # id, Piece(s, e)
      PROVE  Piece(t, e)
  <2>1. Places(t, e.id) = Places(s, e.id)
    BY <1>4, <1>5, <1>6 DEF Places
  <2> QED BY <2>1, <1>4, <1>6 DEF Piece
<1>7. ASSUME NEW e \in Owed, e.id = id, e.len = n, Places(s, id) = {}
      PROVE  Piece(t, e)
  <2>1. Places(t, id) = (Len(s) + 1)..(Len(s) + n)
    <3>1. \A j \in DOMAIN s : t[j] # id
      BY <1>4, <1>7 DEF Places
    <3>2. \A j \in (Len(s) + 1)..(Len(s) + n) : j \in DOMAIN t /\ j \notin DOMAIN s
      BY <1>3
    <3>3. \A j \in DOMAIN t : j \notin DOMAIN s => j \in (Len(s) + 1)..(Len(s) + n)
      BY <1>3
    <3> QED BY <3>1, <3>2, <3>3, <1>5 DEF Places
  <2>2. CASE n = 0
    <3>1. \A l \in Nat : \A x \in (l + 1)..(l + 0) : FALSE
      OBVIOUS
    <3> QED BY <2>1, <2>2, <3>1, <1>3, <1>7 DEF Piece
  <2>3. CASE n # 0
    <3>1. Len(s) + 1 \in DOMAIN t
      BY <2>3, <1>3
    <3>2. Len(s) + n = (Len(s) + 1) + e.len - 1
      BY <1>3, <1>7
    <3> QED BY <2>1, <3>1, <3>2, <1>7 DEF Piece
  <2> QED BY <2>2, <2>3
<1> QED BY <1>2, <1>4, <1>5, <1>6, <1>7 DEF Extended

LEMMA RoomLeft ==
  ASSUME NEW k \in Streamed, Len(k.flight) <= Room, NEW n \in Nat
  PROVE  /\ Source!space(k) \in Nat
         /\ Source!added(k, n) \in Nat /\ Source!added(k, n) <= Source!space(k)
         /\ n <= Source!space(k) => Source!added(k, n) = n
<1>1. Source!space(k) \in Nat
  BY EventsAssumption DEF Source!space, Streamed
<1>2. \E x \in {n, Source!space(k)} : \A y \in {n, Source!space(k)} : x <= y
  BY <1>1
<1>3. /\ Source!added(k, n) \in {n, Source!space(k)}
      /\ \A y \in {n, Source!space(k)} : Source!added(k, n) <= y
  BY <1>2 DEF Source!added, Source!Min
<1> QED BY <1>1, <1>3

(* t is k with n places more behind its stream, for the event id.          *)
Grown(k, t, id, n) ==
  /\ t \in Streamed /\ Len(t.flight) <= Room
  /\ t.queue = k.queue /\ t.owed = k.owed /\ t.life = k.life
  /\ Source!Stream(t) = Source!Stream(k) \o Copies(id, n)
  /\ Source!Stream(k) \in Seq(Nat)

(* add() of an event's bytes puts as many behind the stream as have room.  *)
LEMMA Adds ==
  ASSUME NEW k \in Streamed, Len(k.flight) <= Room, NEW id \in Nat, NEW n \in Nat
  PROVE  Grown(k, Source!add(k, id, n), id, Source!added(k, n))
<1> DEFINE t == Source!add(k, id, n)
<1> DEFINE u == Copies(id, Source!added(k, n))
<1>1. Source!added(k, n) \in Nat /\ Source!added(k, n) <= Source!space(k)
  BY RoomLeft
<1>2. u \in Seq(Nat) /\ Len(u) = Source!added(k, n)
  BY <1>1 DEF Copies
<1>3. k.flight \in Seq(Nat) /\ k.got \in Seq(Nat) /\ k.unsent \in Int
  BY DEF Streamed
<1>4. (k.unsent + Source!added(k, n)) % Wrap \in Int
  BY <1>1, <1>3, EventsAssumption
<1>5. /\ t.flight = k.flight \o u /\ t.got = k.got /\ t.queue = k.queue /\ t.owed = k.owed
      /\ t.life = k.life
  BY DEF Source!add, Streamed, Copies
<1> HIDE DEF u
<1>6. k.flight \o u \in Seq(Nat) /\ Len(k.flight \o u) = Len(k.flight) + Len(u)
  BY <1>2, <1>3, ConcatProperties
<1>7. t \in Streamed
  <2> DEFINE f == k.flight \o u
             l == (k.unsent + Source!added(k, n)) % Wrap
             w == [k EXCEPT !.flight = f]
  <2>1. t = [w EXCEPT !.unsent = l]
    BY DEF Source!add, Streamed, Copies, u
  <2>2. f \in Seq(Nat) /\ l \in Int
    BY <1>4, <1>6
  <2> HIDE DEF f, l
  <2>3. w \in Streamed
    BY <2>2 DEF Streamed
  <2> HIDE DEF w
  <2> QED BY <2>1, <2>2, <2>3 DEF Streamed
<1>8. Len(t.flight) <= Room
  BY <1>1, <1>2, <1>3, <1>5, <1>6, EventsAssumption DEF Source!space
<1>9. Source!Stream(t) = Source!Stream(k) \o u
  <2>1. k.got \o (k.flight \o u) = (k.got \o k.flight) \o u
    BY <1>2, <1>3, Joined
  <2> QED BY <2>1, <1>5 DEF Source!Stream
<1>10. Source!Stream(k) \in Seq(Nat)
  BY <1>3, ConcatProperties DEF Source!Stream
<1> QED BY <1>5, <1>7, <1>8, <1>9, <1>10 DEF u, Grown

(* Fields that no property of the stream is about.                         *)
LEMMA Flushes ==
  ASSUME NEW k, NEW m, Fits(k, m)
  PROVE  Fits(Source!flush(k), m) /\ Source!flush(k).queue = k.queue /\ Source!flush(k).owed = k.owed
         /\ Source!flush(k).life = k.life
<1> DEFINE f == Source!flush(k)
           u == (k.unacked + k.unsent) % Wrap
<1>1. u \in Int
  BY EventsAssumption DEF Fits, Streamed
<1>2. f = [k EXCEPT !.busy = TRUE, !.unacked = u, !.unsent = 0]
  BY DEF Source!flush, Fits, Streamed
<1> HIDE DEF u, f
<1>3. /\ f.queue = k.queue /\ f.owed = k.owed /\ f.flight = k.flight /\ f.got = k.got /\ f.life = k.life
  BY <1>2 DEF Fits, Streamed
<1>4. f \in Streamed
  <2>1. \A g \in Streamed : [g EXCEPT !.busy = TRUE] \in Streamed
    BY DEF Streamed
  <2>2. \A g \in Streamed : [g EXCEPT !.unacked = u] \in Streamed
    BY <1>1 DEF Streamed
  <2>3. \A g \in Streamed, x \in Int : [g EXCEPT !.unsent = x] \in Streamed
    BY DEF Streamed
  <2> DEFINE g == [k EXCEPT !.busy = TRUE]
             h == [g EXCEPT !.unacked = u]
  <2>4. f = [h EXCEPT !.unsent = 0]
    BY <1>2 DEF Fits, Streamed
  <2>5. g \in Streamed
    BY <2>1 DEF Fits
  <2> HIDE DEF g
  <2>6. h \in Streamed
    BY <2>2, <2>5
  <2> HIDE DEF h
  <2> QED BY <2>3, <2>4, <2>6
<1>5. Fits(f, m)
  BY <1>3, <1>4 DEF Fits, Source!Stream
<1> QED BY <1>3, <1>5 DEF f

(* An event is sent whole, behind the stream, or not at all.               *)
LEMMA SendsWhole ==
  ASSUME NEW m, NEW k, Fits(k, m), NEW i \in DOMAIN k.queue, ~Source!isSent(k.queue[i])
  PROVE  Fits(Source!send(k, i), m) /\ Len(Source!send(k, i).queue) = Len(k.queue)
<1> DEFINE e == k.queue[i]
           n == e.len - e.sent
           a == Source!added(k, n)
           t == [Source!add(k, e.id, n) EXCEPT !.queue[i].sent = @ + a]
<1>1. /\ e \in Waiting /\ k.queue \in Seq(Waiting) /\ k \in Streamed /\ Len(k.flight) <= Room
      /\ e.sent = 0 /\ e.sent # e.len
  BY DEF Fits, Streamed, QueueFits, Source!isSent
<1>2. n = e.len /\ n \in Nat /\ e.id \in Nat
  BY SMTT(20), <1>1 DEF Waiting
<1>3. CASE Source!space(k) < n
  BY <1>3 DEF Source!send
<1>4. CASE ~(Source!space(k) < n)
  <2>1. Source!space(k) \in Nat /\ a = n
    BY <1>1, <1>2, <1>4, RoomLeft
  <2> DEFINE w == Source!add(k, e.id, n)
             s == Source!Stream(k)
  <2> HIDE DEF e, n
  <2>2. /\ w \in Streamed /\ Len(w.flight) <= Room
        /\ w.queue = k.queue /\ w.owed = k.owed
        /\ Source!Stream(w) = s \o Copies(e.id, n)
        /\ s \in Seq(Nat)
    <3>1. Grown(k, Source!add(k, e.id, n), e.id, Source!added(k, n))
      BY <1>1, <1>2, Adds
    <3> HIDE DEF t
    <3>2. Source!added(k, n) = n
      BY <2>1
    <3> QED BY <3>1, <3>2 DEF Grown
  <2> DEFINE q == [k.queue EXCEPT ![i].sent = n]
  <2>3. t = [w EXCEPT !.queue = q]
    <3> HIDE DEF w
    <3>1. t = [w EXCEPT !.queue = [w.queue EXCEPT ![i] = [w.queue[i] EXCEPT !.sent = w.queue[i].sent + a]]]
      BY DEF w
    <3>2. w.queue[i] = e /\ e.sent + a = n
      BY <1>1, <1>2, <2>1, <2>2 DEF e
    <3>3. q = [k.queue EXCEPT ![i] = [k.queue[i] EXCEPT !.sent = n]]
      OBVIOUS
    <3> HIDE DEF q, t, a
    <3> QED BY <2>2, <3>1, <3>2, <3>3 DEF e
  <2>4. q \in Seq(Waiting) /\ DOMAIN q = DOMAIN k.queue /\ Len(q) = Len(k.queue)
        /\ \A j \in DOMAIN q : /\ q[j].id = k.queue[j].id /\ q[j].len = k.queue[j].len
                               /\ q[j].sent = IF j = i THEN n ELSE k.queue[j].sent
    <3>1. [e EXCEPT !.sent = n] \in Waiting
      BY <1>1, <1>2 DEF Waiting
    <3>2. q = [k.queue EXCEPT ![i] = [e EXCEPT !.sent = n]]
      BY DEF e
    <3>3. \A j \in DOMAIN k.queue : k.queue[j] \in Waiting
      BY <1>1
    <3> HIDE DEF e, n
    <3>4. q \in Seq(Waiting) /\ DOMAIN q = DOMAIN k.queue /\ Len(q) = Len(k.queue)
      BY <1>1, <3>1, <3>2
    <3>5. \A j \in DOMAIN q : q[j] = IF j = i THEN [e EXCEPT !.sent = n] ELSE k.queue[j]
      BY <3>2, <3>4
    <3> HIDE DEF q
    <3>6. ASSUME NEW j \in DOMAIN q
          PROVE  /\ q[j].id = k.queue[j].id /\ q[j].len = k.queue[j].len
                 /\ q[j].sent = IF j = i THEN n ELSE k.queue[j].sent
      BY <3>3, <3>4, <3>5, <1>1 DEF e, Waiting
    <3> QED BY <3>4, <3>6
  <2> HIDE DEF w, q, n, a, t, e, s
  <2>5. /\ t \in Streamed /\ t.queue = q /\ t.flight = w.flight /\ t.got = w.got /\ t.owed = k.owed
    BY <2>2, <2>3, <2>4 DEF Streamed
  <2> DEFINE r == Source!Stream(t)
  <2>6. r = s \o Copies(e.id, n)
    BY <2>2, <2>5 DEF Source!Stream
  <2> HIDE DEF r
  <2>7. /\ r \in Seq(Nat) /\ Len(r) = Len(s) + n
        /\ \A j \in DOMAIN s : j \in DOMAIN r /\ r[j] = s[j]
        /\ \A j \in DOMAIN r : j \in DOMAIN s \/ r[j] = e.id
        /\ \A g \in Owed : g.id # e.id /\ Piece(s, g) => Piece(r, g)
        /\ \A g \in Owed : g.id = e.id /\ g.len = n /\ Places(s, e.id) = {} => Piece(r, g)
    <3>1. Extended(s, r, e.id, n)
      BY <2>2, <2>6, <1>2, PieceAdded
    <3> QED BY <3>1 DEF Extended
  <2>8. QueueFits(k.queue, s, k.owed) /\ Numbered(s, k.owed, m) /\ \A g \in k.owed : Piece(s, g)
    BY DEF Fits, s
  <2>9. k.owed \subseteq Owed
    BY <1>1 DEF Streamed
  <2>10. PICK x \in k.owed : e.id = x.id /\ e.len = x.len
    BY <2>8 DEF QueueFits, e
  <2>11. Places(s, e.id) = {}
    BY <2>8, <1>1 DEF QueueFits, Places, e
  <2>12. Numbered(r, k.owed, m)
    <3>1. e.id \in 0..m
      BY <2>8, <2>10 DEF Numbered
    <3> QED BY <3>1, <2>7, <2>8 DEF Numbered
  <2>13. \A g \in k.owed : Piece(r, g)
    <3> SUFFICES ASSUME NEW g \in k.owed PROVE Piece(r, g)
      OBVIOUS
    <3>1. CASE g.id = e.id
      <4>1. g = x
        BY <3>1, <2>8, <2>10 DEF Numbered
      <4> QED BY <4>1, <2>7, <2>9, <2>10, <2>11, <1>2
    <3>2. CASE g.id # e.id
      BY <3>2, <2>7, <2>8, <2>9
    <3> QED BY <3>1, <3>2
  <2>14. QueueFits(q, r, k.owed)
    <3>1. ASSUME NEW j \in DOMAIN q
          PROVE  /\ \E g \in k.owed : q[j].id = g.id /\ q[j].len = g.len
                 /\ q[j].sent = q[j].len \/ q[j].sent = 0
                 /\ q[j].sent # q[j].len => \A l \in DOMAIN r : r[l] # q[j].id
      <4>1. CASE j = i
        BY <4>1, <2>4, <2>10, <1>2 DEF e
      <4>2. CASE j # i
        <5>1. q[j].id # e.id
          BY <4>2, <2>4, <2>8 DEF QueueFits, e
        <5> QED BY SMTT(20), <5>1, <4>2, <2>4, <2>7, <2>8 DEF QueueFits
      <4> QED BY <4>1, <4>2
    <3>2. \A j, l \in DOMAIN q : j # l => q[j].id # q[l].id
      BY <2>4, <2>8 DEF QueueFits
    <3> QED BY <3>1, <3>2 DEF QueueFits
  <2>15. Fits(t, m) /\ Len(t.queue) = Len(k.queue)
    BY <2>2, <2>4, <2>5, <2>12, <2>13, <2>14 DEF Fits, r
  <2>16. Source!send(k, i) \in {t, Source!flush(t)}
    BY <1>4 DEF Source!send, t, a, n, e
  <2> QED BY <2>15, <2>16, Flushes
<1> QED BY <1>3, <1>4

-------------------------------------------------------------------------------
(* The end of a queue, of whose events only what is acknowledged changed.  *)
LEMMA QueueKept ==
  ASSUME NEW s, NEW owed, NEW q \in Seq(Waiting), QueueFits(q, s, owed),
         NEW r \in Seq(Waiting), NEW d \in Nat,
         \A i \in DOMAIN r : /\ i + d \in DOMAIN q
                             /\ r[i].id = q[i + d].id /\ r[i].len = q[i + d].len
                             /\ r[i].sent = q[i + d].sent
  PROVE  QueueFits(r, s, owed)
<1>1. ASSUME NEW i \in DOMAIN r
      PROVE  /\ \E e \in owed : r[i].id = e.id /\ r[i].len = e.len
             /\ r[i].sent = r[i].len \/ r[i].sent = 0
             /\ r[i].sent # r[i].len => \A j \in DOMAIN s : s[j] # r[i].id
  BY DEF QueueFits
<1>2. ASSUME NEW i \in DOMAIN r, NEW j \in DOMAIN r, i # j
      PROVE  r[i].id # r[j].id
  <2>1. i + d # j + d
    BY <1>2
  <2> QED BY <2>1 DEF QueueFits
<1> QED BY <1>1, <1>2 DEF QueueFits

LEMMA Unfinished ==
  ASSUME NEW s, NEW owed, NEW q \in Seq(Waiting), QueueFits(q, s, owed)
  PROVE  Source!unfinished(q) \in Seq(Waiting) /\ QueueFits(Source!unfinished(q), s, owed)
<1> DEFINE I    == {i \in 1..Len(q) : ~Source!finished(q[i])}
           keep == IF I # {} THEN Source!Min(I) ELSE 0
           r    == Source!unfinished(q)
<1>1. r = IF keep = 0 THEN <<>> ELSE SubSeq(q, keep, Len(q))
  BY DEF Source!unfinished, Source!SelectInSeq
<1>2. CASE keep = 0
  <2>1. r = <<>>
    BY <1>1, <1>2
  <2> QED BY <2>1 DEF QueueFits
<1>3. CASE keep # 0
  <2>1. I # {} /\ keep = Source!Min(I)
    BY <1>3
  <2>2. \E x \in I : \A y \in I : x <= y
    <3> DEFINE T == {n \in Nat : \A i \in I : n <= i}
    <3>1. PICK x \in I : TRUE
      BY <2>1
    <3>2. 0 \in T /\ x + 1 \notin T
      BY <3>1
    <3>3. PICK n \in Nat : n \in T /\ n + 1 \notin T
      <4>1. (\A n \in Nat : n \in T => n + 1 \in T) => Nat \subseteq T
        <5> HIDE DEF T
        <5> QED BY <3>2, SetInduction
      <4>2. x + 1 \in Nat
        BY <3>1
      <4> HIDE DEF T, I
      <4> QED BY <3>2, <4>1, <4>2
    <3>4. PICK i \in I : ~(n + 1 <= i)
      BY <3>3
    <3>5. i = n
      BY <3>3, <3>4
    <3> QED BY <3>3, <3>4, <3>5
  <2>3. keep \in 1..Len(q)
    BY <2>1, <2>2 DEF Source!Min
  <2> HIDE DEF keep
  <2>4. r = SubSeq(q, keep, Len(q))
    BY <1>1, <1>3
  <2> HIDE DEF r
  <2>5. \A i \in keep..Len(q) : q[i] \in Waiting
    BY <2>3
  <2>6. /\ r \in Seq(Waiting) /\ Len(r) = Len(q) - keep + 1
        /\ \A i \in 1..(Len(q) - keep + 1) : r[i] = q[keep + i - 1]
    BY <2>3, <2>4, <2>5, SubSeqProperties
  <2>7. keep - 1 \in Nat
    BY <2>3
  <2>8. ASSUME NEW i \in DOMAIN r
        PROVE  i + (keep - 1) \in DOMAIN q /\ r[i] = q[i + (keep - 1)]
    <3>1. i \in 1..(Len(q) - keep + 1) /\ keep + i - 1 = i + (keep - 1)
      BY <2>3, <2>6
    <3> QED BY SMTT(20), <2>3, <2>6, <3>1
  <2> QED BY <2>6, <2>7, <2>8, QueueKept DEF r
<1> QED BY <1>2, <1>3

-------------------------------------------------------------------------------
(* The loop of _runQueue: its turns, each a function of the one before.    *)
RunTurn(t, i) == IF Source!isSent(t.queue[i]) THEN t ELSE Source!send(t, i)
IsRun(k, q, n, turn) ==
  turn = [i \in 0..n |-> IF i = 0 THEN [k EXCEPT !.queue = q]
                         ELSE IF Source!isSent(turn[i - 1].queue[i]) THEN turn[i - 1]
                         ELSE Source!send(turn[i - 1], i)]
Run(k, q) == CHOOSE turn : IsRun(k, q, Len(q), turn)

LEMMA RunIsDefined ==
  ASSUME NEW k, NEW q, NEW n \in Nat
  PROVE  \E turn : IsRun(k, q, n, turn)
<1> DEFINE T == {l \in Nat : \E turn : IsRun(k, q, l, turn)}
<1>1. 0 \in T
  <2> DEFINE t == [i \in 0..0 |-> [k EXCEPT !.queue = q]]
  <2>1. IsRun(k, q, 0, t)
    BY DEF IsRun
  <2> QED BY <2>1
<1>2. ASSUME NEW l \in Nat, l \in T PROVE l + 1 \in T
  <2>1. PICK t : IsRun(k, q, l, t)
    BY <1>2
  <2> DEFINE u == [i \in 0..(l + 1) |-> IF i = l + 1 THEN RunTurn(t[l], l + 1) ELSE t[i]]
             v == [i \in 0..(l + 1) |-> IF i = 0 THEN [k EXCEPT !.queue = q] ELSE RunTurn(u[i - 1], i)]
  <2>2. ASSUME NEW i \in 0..(l + 1) PROVE u[i] = v[i]
    <3>1. CASE i = l + 1
      <4>1. i # 0 /\ i - 1 = l /\ l \in 0..(l + 1) /\ l # l + 1
        BY <3>1
      <4> QED BY <3>1, <4>1
    <3>2. CASE i # l + 1
      <4>1. i \in 0..l
        BY <3>2
      <4>2. t[i] = IF i = 0 THEN [k EXCEPT !.queue = q] ELSE RunTurn(t[i - 1], i)
        BY <2>1, <4>1 DEF IsRun, RunTurn
      <4>3. i # 0 => i - 1 \in 0..(l + 1) /\ i - 1 # l + 1
        BY <4>1
      <4> QED BY <3>2, <4>2, <4>3
    <3> QED BY <3>1, <3>2
  <2>3. u = v
    BY <2>2
  <2>4. IsRun(k, q, l + 1, u)
    BY <2>3 DEF IsRun, RunTurn
  <2> QED BY <2>4
<1>3. n \in T
  <2> HIDE DEF T
  <2> QED BY <1>1, <1>2, SetInduction
<1> QED BY <1>3

(* _runQueue sends whole events: the stream stays in pieces.               *)
LEMMA RunQueueFits ==
  ASSUME NEW m, NEW k, Fits(k, m)
  PROVE  Fits(Source!runQueue(k), m)
<1> DEFINE q == Source!unfinished(k.queue)
           n == Len(q)
           t == Run(k, q)
<1>1. Source!runQueue(k) = t[n]
  BY DEF Source!runQueue, Run, IsRun
<1>2. q \in Seq(Waiting) /\ QueueFits(q, Source!Stream(k), k.owed) /\ n \in Nat
  BY Unfinished DEF Fits, Streamed
<1> HIDE DEF q
<1>3. IsRun(k, q, n, t)
  BY <1>2, RunIsDefined DEF Run
<1> HIDE DEF t
<1>4. /\ t[0] = [k EXCEPT !.queue = q]
      /\ \A i \in 1..n : t[i] = RunTurn(t[i - 1], i)
  <2>1. 0 \in 0..n /\ \A i \in 1..n : i \in 0..n /\ i # 0
    BY <1>2
  <2> QED BY <1>3, <2>1 DEF IsRun, RunTurn
<1> DEFINE T == {i \in Nat : i <= n => Fits(t[i], m) /\ Len(t[i].queue) = n}
<1>5. 0 \in T
  <2> DEFINE u == [k EXCEPT !.queue = q]
  <2>1. /\ u \in Streamed /\ u.queue = q /\ u.flight = k.flight /\ u.got = k.got /\ u.owed = k.owed
    BY <1>2 DEF Fits, Streamed
  <2> HIDE DEF u
  <2>2. Fits(u, m)
    BY <1>2, <2>1 DEF Fits, Source!Stream
  <2> QED BY <1>4, <2>1, <2>2 DEF u
<1>6. ASSUME NEW i \in Nat, i \in T PROVE i + 1 \in T
  <2> SUFFICES ASSUME i + 1 <= n
               PROVE  Fits(t[i + 1], m) /\ Len(t[i + 1].queue) = n
    OBVIOUS
  <2>1. i <= n /\ i + 1 \in 1..n /\ (i + 1) - 1 = i
    BY <1>2
  <2>2. Fits(t[i], m) /\ Len(t[i].queue) = n
    BY <1>6, <2>1
  <2>3. t[i + 1] = RunTurn(t[i], i + 1)
    BY <1>4, <2>1
  <2>4. i + 1 \in DOMAIN t[i].queue
    BY SMTT(20), <2>1, <2>2 DEF Fits, Streamed
  <2> HIDE DEF n
  <2> QED BY <2>2, <2>3, <2>4, SendsWhole DEF RunTurn
<1>7. n \in T
  <2> HIDE DEF T
  <2> QED BY <1>2, <1>5, <1>6, SetInduction
<1> QED BY <1>1, <1>2, <1>7

-------------------------------------------------------------------------------
(* The loop of _onAck, likewise.                                           *)
IsAck(q, len, n, turn) ==
  turn = [i \in 0..n |-> IF i = 0 THEN [queue |-> q, len |-> len] ELSE Source!ack(turn[i - 1])]
AckRun(q, len) == CHOOSE turn : IsAck(q, len, Len(q), turn)

LEMMA AckIsDefined ==
  ASSUME NEW q, NEW len, NEW n \in Nat
  PROVE  \E turn : IsAck(q, len, n, turn)
<1> DEFINE T == {l \in Nat : \E turn : IsAck(q, len, l, turn)}
<1>1. 0 \in T
  <2> DEFINE t == [i \in 0..0 |-> [queue |-> q, len |-> len]]
  <2>1. IsAck(q, len, 0, t)
    BY DEF IsAck
  <2> QED BY <2>1
<1>2. ASSUME NEW l \in Nat, l \in T PROVE l + 1 \in T
  <2>1. PICK t : IsAck(q, len, l, t)
    BY <1>2
  <2> DEFINE u == [i \in 0..(l + 1) |-> IF i = l + 1 THEN Source!ack(t[l]) ELSE t[i]]
             v == [i \in 0..(l + 1) |-> IF i = 0 THEN [queue |-> q, len |-> len] ELSE Source!ack(u[i - 1])]
  <2>2. ASSUME NEW i \in 0..(l + 1) PROVE u[i] = v[i]
    <3>1. CASE i = l + 1
      <4>1. i # 0 /\ i - 1 = l /\ l \in 0..(l + 1) /\ l # l + 1
        BY <3>1
      <4> QED BY <3>1, <4>1
    <3>2. CASE i # l + 1
      <4>1. i \in 0..l
        BY <3>2
      <4>2. t[i] = IF i = 0 THEN [queue |-> q, len |-> len] ELSE Source!ack(t[i - 1])
        BY <2>1, <4>1 DEF IsAck
      <4>3. i # 0 => i - 1 \in 0..(l + 1) /\ i - 1 # l + 1
        BY <4>1
      <4> QED BY <3>2, <4>2, <4>3
    <3> QED BY <3>1, <3>2
  <2>3. u = v
    BY <2>2
  <2>4. IsAck(q, len, l + 1, u)
    BY <2>3 DEF IsAck
  <2> QED BY <2>4
<1>3. n \in T
  <2> HIDE DEF T
  <2> QED BY <1>1, <1>2, SetInduction
<1> QED BY <1>3

Acking(t, s, owed) ==
  /\ t.queue \in Seq(Waiting) /\ t.len \in Nat
  /\ QueueFits(t.queue, s, owed)

LEMMA AckTurn ==
  ASSUME NEW t, NEW s, NEW owed, Acking(t, s, owed)
  PROVE  Acking(Source!ack(t), s, owed)
<1> DEFINE q     == t.queue
           acked == Head(q).acked + t.len
           r     == Source!ack(t)
<1>1. q \in Seq(Waiting) /\ t.len \in Nat /\ QueueFits(q, s, owed)
  BY DEF Acking
<1>2. CASE t.len = 0 \/ q = <<>>
  BY <1>2 DEF Source!ack
<1>3. CASE ~(t.len = 0 \/ q = <<>>)
  <2>1. 1 \in DOMAIN q /\ Head(q) = q[1] /\ q[1] \in Waiting
    BY <1>1, <1>3
  <2>2. acked \in Nat /\ Head(q).len \in Nat
    BY SMTT(20), <1>1, <2>1 DEF Waiting
  <2>3. CASE acked >= Head(q).len
    <3>1. r = [queue |-> Tail(q), len |-> acked - Head(q).len]
      BY <1>3, <2>3 DEF Source!ack
    <3>2. acked - Head(q).len \in Nat
      BY <2>2, <2>3
    <3>3. /\ Tail(q) \in Seq(Waiting)
          /\ \A i \in DOMAIN Tail(q) : i + 1 \in DOMAIN q /\ Tail(q)[i] = q[i + 1]
      BY <1>1, <1>3
    <3>4. QueueFits(Tail(q), s, owed)
      BY <1>1, <3>3, QueueKept
    <3> QED BY <3>1, <3>2, <3>3, <3>4 DEF Acking
  <2>4. CASE ~(acked >= Head(q).len)
    <3> DEFINE p == [q EXCEPT ![1].acked = acked]
    <3>1. r = [queue |-> p, len |-> 0]
      BY <1>3, <2>4 DEF Source!ack
    <3>2. [q[1] EXCEPT !.acked = acked] \in Waiting
      BY <2>1, <2>2 DEF Waiting
    <3>3. p = [q EXCEPT ![1] = [q[1] EXCEPT !.acked = acked]]
      OBVIOUS
    <3>4. p \in Seq(Waiting) /\ DOMAIN p = DOMAIN q
      <4> HIDE DEF q, p
      <4> QED BY <1>1, <2>1, <3>2, <3>3
    <3>5. \A i \in DOMAIN p : p[i] = IF i = 1 THEN [q[1] EXCEPT !.acked = acked] ELSE q[i]
      BY <3>3, <3>4
    <3> HIDE DEF p
    <3>6. ASSUME NEW i \in DOMAIN p
          PROVE  /\ i + 0 \in DOMAIN q
                 /\ p[i].id = q[i + 0].id /\ p[i].len = q[i + 0].len /\ p[i].sent = q[i + 0].sent
      <4>1. i + 0 = i /\ i \in DOMAIN q
        BY <1>1, <3>4
      <4>2. CASE i = 1
        BY <4>1, <4>2, <3>5, <2>1 DEF Waiting
      <4>3. CASE i # 1
        BY <4>1, <4>3, <3>5
      <4> QED BY <4>2, <4>3
    <3>7. QueueFits(p, s, owed)
      BY <1>1, <3>4, <3>6, QueueKept
    <3> QED BY <3>1, <3>4, <3>7 DEF Acking
  <2> QED BY <2>3, <2>4
<1> QED BY <1>2, <1>3

LEMMA OnAckKeeps ==
  ASSUME NEW q, NEW len, NEW s, NEW owed, q \in Seq(Waiting), len \in Nat, QueueFits(q, s, owed)
  PROVE  Source!onAck(q, len) \in Seq(Waiting) /\ QueueFits(Source!onAck(q, len), s, owed)
<1> DEFINE n == Len(q)
           t == AckRun(q, len)
<1>1. Source!onAck(q, len) = t[n].queue
  BY DEF Source!onAck, AckRun, IsAck
<1>2. n \in Nat
  OBVIOUS
<1>3. IsAck(q, len, n, t)
  BY <1>2, AckIsDefined DEF AckRun
<1> HIDE DEF t, n
<1>4. /\ t[0] = [queue |-> q, len |-> len]
      /\ \A i \in 1..n : t[i] = Source!ack(t[i - 1])
  <2>1. 0 \in 0..n /\ \A i \in 1..n : i \in 0..n /\ i # 0
    BY <1>2
  <2> QED BY <1>3, <2>1 DEF IsAck
<1> DEFINE T == {i \in Nat : i <= n => Acking(t[i], s, owed)}
<1>5. 0 \in T
  BY <1>4 DEF Acking
<1>6. ASSUME NEW i \in Nat, i \in T PROVE i + 1 \in T
  <2> SUFFICES ASSUME i + 1 <= n PROVE Acking(t[i + 1], s, owed)
    OBVIOUS
  <2>1. i <= n /\ i + 1 \in 1..n /\ (i + 1) - 1 = i
    BY <1>2
  <2>2. Acking(t[i], s, owed)
    BY <1>6, <2>1
  <2>3. t[i + 1] = Source!ack(t[i])
    BY <1>4, <2>1
  <2> QED BY <2>2, <2>3, AckTurn
<1>7. n \in T
  <2> HIDE DEF T
  <2> QED BY <1>2, <1>5, <1>6, SetInduction
<1> QED BY <1>1, <1>2, <1>7 DEF Acking

-------------------------------------------------------------------------------
(* Fields of a connection no property of its stream is about.              *)
Looks(k, j) ==
  /\ j \in Streamed
  /\ j.queue = k.queue /\ j.flight = k.flight /\ j.got = k.got /\ j.owed = k.owed

LEMMA LooksFit ==
  ASSUME NEW m, NEW k, NEW j, Fits(k, m), Looks(k, j)
  PROVE  Fits(j, m)
BY DEF Fits, Looks, Source!Stream

LEMMA NewFits == ASSUME NEW m, NEW l \in {"none", "head", "live", "gone"}
                 PROVE  Fits([Source!NewClient EXCEPT !.life = l], m)
<1> DEFINE k == [Source!NewClient EXCEPT !.life = l]
<1>1. /\ k.queue = <<>> /\ k.flight = <<>> /\ k.got = <<>> /\ k.owed = {} /\ k \in Streamed
  <2>1. <<>> \in Seq(Waiting) /\ <<>> \in Seq(Nat) /\ {} \in SUBSET Owed
    OBVIOUS
  <2>2. Source!NewClient \in Streamed
    BY <2>1 DEF Source!NewClient, Streamed
  <2>3. k \in Streamed /\ k.queue = Source!NewClient.queue /\ k.flight = Source!NewClient.flight
        /\ k.got = Source!NewClient.got /\ k.owed = Source!NewClient.owed
    BY <2>2 DEF Streamed
  <2> QED BY <2>3 DEF Source!NewClient
<1> HIDE DEF k
<1>2. Source!Stream(k) = <<>>
  BY <1>1 DEF Source!Stream
<1>3. Len(k.flight) <= Room
  BY <1>1, EventsAssumption
<1>4. QueueFits(k.queue, <<>>, k.owed) /\ Numbered(<<>>, k.owed, m)
  BY <1>1 DEF QueueFits, Numbered
<1> QED BY <1>1, <1>2, <1>3, <1>4 DEF Fits, k

(* The head of a response, which is no event.                              *)
LEMMA HeadFits ==
  ASSUME NEW m \in Nat, NEW k, Fits(k, m)
  PROVE  Fits(Source!flush(Source!add([k EXCEPT !.life = "head"], 0, 1)), m)
<1> DEFINE j == [k EXCEPT !.life = "head"]
           a == Source!added(j, 1)
           t == Source!add(j, 0, 1)
<1>1. Looks(k, j)
  BY DEF Fits, Looks, Streamed
<1>2. Fits(j, m)
  BY <1>1, LooksFit
<1> HIDE DEF j
<1>3. Grown(j, t, 0, a) /\ a \in Nat
  BY <1>2, Adds, RoomLeft DEF Fits
<1> DEFINE s == Source!Stream(j)
           r == Source!Stream(t)
<1> HIDE DEF a, t
<1>4. r = s \o Copies(0, a) /\ s \in Seq(Nat)
  BY <1>3 DEF Grown
<1>5. Extended(s, r, 0, a)
  <2> HIDE DEF s, r
  <2> QED BY <1>3, <1>4, PieceAdded
<1>6. QueueFits(j.queue, s, j.owed) /\ Numbered(s, j.owed, m) /\ \A g \in j.owed : Piece(s, g)
  BY <1>2 DEF Fits
<1>7. t.queue = j.queue /\ t.owed = j.owed /\ t \in Streamed /\ Len(t.flight) <= Room
  BY <1>3 DEF Grown
<1>8. j.owed \subseteq Owed /\ j.queue \in Seq(Waiting)
  BY <1>2 DEF Fits, Streamed
<1> HIDE DEF s, r
<1>9. Numbered(r, j.owed, m)
  BY <1>5, <1>6 DEF Extended, Numbered
<1>10. \A g \in j.owed : g.id # 0
  BY <1>6 DEF Numbered
<1>11. \A g \in j.owed : Piece(r, g)
  BY <1>5, <1>6, <1>8, <1>10 DEF Extended
<1>12. QueueFits(j.queue, r, j.owed)
  <2>1. \A i \in DOMAIN j.queue : j.queue[i].id # 0
    BY <1>6, <1>10 DEF QueueFits
  <2>2. ASSUME NEW i \in DOMAIN j.queue, j.queue[i].sent # j.queue[i].len
        PROVE  \A l \in DOMAIN r : r[l] # j.queue[i].id
    BY <2>1, <2>2, <1>5, <1>6 DEF Extended, QueueFits
  <2> QED BY <2>2, <1>6 DEF QueueFits
<1>13. Fits(t, m)
  BY <1>7, <1>9, <1>11, <1>12 DEF Fits, r
<1> QED BY <1>13, Flushes DEF t, j

(* An event that is new fits behind the others.                            *)
LEMMA QueueMessageFits ==
  ASSUME NEW m \in Nat, NEW k, Fits(k, m), NEW n \in Lens
  PROVE  Fits(Source!queueMessage(k, [id |-> m + 1, len |-> n]), m + 1)
<1> DEFINE e == [id |-> m + 1, len |-> n]
           s == Source!Stream(k)
           x == Source!Message(e)
           q == Append(k.queue, x)
           o == k.owed \cup {e}
           j == [k EXCEPT !.queue = q, !.owed = o]
<1>1. n \in Nat /\ e \in Owed /\ e.id = m + 1 /\ e.len = n
  BY EventsAssumption DEF Owed
<1>2. x \in Waiting /\ x.id = m + 1 /\ x.len = n /\ x.sent = 0
  BY <1>1 DEF Source!Message, Waiting
<1>3. /\ k \in Streamed /\ k.queue \in Seq(Waiting) /\ k.owed \subseteq Owed
      /\ QueueFits(k.queue, s, k.owed) /\ Numbered(s, k.owed, m) /\ \A g \in k.owed : Piece(s, g)
      /\ Len(k.flight) <= Room
  BY DEF Fits, Streamed
<1> HIDE DEF e, x, s
<1>4. Numbered(s, k.owed, m + 1) /\ Numbered(s, o, m + 1)
  BY <1>1, <1>3 DEF Numbered
<1>5. Fits(k, m + 1)
  BY <1>3, <1>4 DEF Fits, s
<1>6. Places(s, m + 1) = {}
  BY <1>3 DEF Numbered, Places
<1>7. \A g \in o : Piece(s, g)
  BY <1>1, <1>3, <1>6 DEF Piece
<1>8. /\ q \in Seq(Waiting) /\ DOMAIN q = 1..(Len(k.queue) + 1)
      /\ \A i \in DOMAIN q : \/ i \in DOMAIN k.queue /\ q[i] = k.queue[i]
                             \/ i = Len(k.queue) + 1 /\ q[i] = x
  BY <1>2, <1>3
<1> HIDE DEF q
<1>9. QueueFits(q, s, o)
  <2>1. ASSUME NEW i \in DOMAIN q
        PROVE  /\ \E g \in o : q[i].id = g.id /\ q[i].len = g.len
               /\ q[i].sent = q[i].len \/ q[i].sent = 0
               /\ q[i].sent # q[i].len => \A l \in DOMAIN s : s[l] # q[i].id
    <3>1. CASE i \in DOMAIN k.queue /\ q[i] = k.queue[i]
      BY <3>1, <1>3 DEF QueueFits
    <3>2. CASE q[i] = x
      BY <3>2, <1>1, <1>2, <1>6 DEF Places
    <3> QED BY <3>1, <3>2, <1>8
  <2>2. \A i \in DOMAIN k.queue : k.queue[i].id # m + 1
    BY <1>3 DEF QueueFits, Numbered
  <2>3. ASSUME NEW i \in DOMAIN q, NEW l \in DOMAIN q, i # l
        PROVE  q[i].id # q[l].id
    BY <2>2, <2>3, <1>2, <1>3, <1>8 DEF QueueFits
  <2> QED BY <2>1, <2>3 DEF QueueFits
<1>10. /\ j \in Streamed /\ j.queue = q /\ j.owed = o /\ j.flight = k.flight /\ j.got = k.got
  <2> DEFINE i == [k EXCEPT !.queue = q]
  <2>1. o \subseteq Owed
    BY <1>1, <1>3
  <2> HIDE DEF o
  <2>2. j = [i EXCEPT !.owed = o]
    BY <1>3 DEF Streamed
  <2>3. i \in Streamed /\ i.queue = q /\ i.flight = k.flight /\ i.got = k.got
    BY <1>3, <1>8 DEF Streamed
  <2> HIDE DEF i, j
  <2> QED BY <2>1, <2>2, <2>3 DEF Streamed
<1> HIDE DEF j, o
<1>11. Fits(j, m + 1)
  BY <1>3, <1>4, <1>7, <1>9, <1>10 DEF Fits, Source!Stream, s
<1>12. Fits(Source!runQueue(j), m + 1)
  BY <1>11, RunQueueFits
<1>13. Source!queueMessage(k, e) \in {k, Source!runQueue(j)}
  BY DEF Source!queueMessage, j, q, o, x
<1> QED BY <1>5, <1>12, <1>13 DEF e

(* What is acknowledged has only moved to the other end of the stream.     *)
LEMMA Acknowledges ==
  ASSUME NEW m \in Nat, NEW k, Fits(k, m), NEW n \in 1..Len(k.flight)
  PROVE  Fits([k EXCEPT !.got = @ \o SubSeq(k.flight, 1, n),
                        !.flight = SubSeq(@, n + 1, Len(@)),
                        !.unacked = (@ - n) % Wrap, !.ackedLen = @ + n], m)
<1> DEFINE f == k.flight
           a == SubSeq(f, 1, n)
           b == SubSeq(f, n + 1, Len(f))
           g == k.got \o a
           u == (k.unacked - n) % Wrap
           l == k.ackedLen + n
           j == [k EXCEPT !.got = g, !.flight = b, !.unacked = u, !.ackedLen = l]
<1>1. /\ k \in Streamed /\ f \in Seq(Nat) /\ k.got \in Seq(Nat) /\ Len(f) <= Room
      /\ Len(f) \in Nat
  BY DEF Fits, Streamed
<1>2. u \in Int /\ l \in Nat
  BY SMTT(20), <1>1, EventsAssumption DEF Streamed
<1> HIDE DEF f
<1>3. /\ n \in Int /\ n + 1 \in Int /\ Len(f) \in Int
      /\ \A i \in 1..n : f[i] \in Nat
      /\ \A i \in (n + 1)..Len(f) : f[i] \in Nat
  BY SMTT(20), <1>1 DEF f
<1>4. a \in Seq(Nat)
  BY <1>3, SubSeqProperties
<1>5. b \in Seq(Nat) /\ Len(b) = IF n + 1 <= Len(f) THEN Len(f) - (n + 1) + 1 ELSE 0
  BY <1>3, SubSeqProperties
<1>6. Len(b) <= Room
  BY <1>1, <1>3, <1>5, EventsAssumption DEF f
<1>7. a \o b = f
  <2>1. /\ 1 \in 1..(Len(f) + 1) /\ n \in (1 - 1)..Len(f) /\ Len(f) \in n..Len(f)
    BY <1>1 DEF f
  <2>2. a \o b = SubSeq(f, 1, Len(f))
    BY <1>1, <2>1, ConcatAdjacentSubSeq
  <2> QED BY <1>1, <2>2, SubSeqFull
<1> HIDE DEF a, b, u, l
<1>8. g \in Seq(Nat) /\ g \o b = k.got \o f
  <2>1. k.got \o (a \o b) = (k.got \o a) \o b
    BY <1>1, <1>4, <1>5, Joined
  <2>2. k.got \o a \in Seq(Nat)
    BY <1>1, <1>4, ConcatProperties
  <2> QED BY <2>1, <2>2, <1>7
<1> HIDE DEF g
<1>9. j \in Streamed /\ j.queue = k.queue /\ j.owed = k.owed /\ j.flight = b /\ j.got = g
  <2> DEFINE j1 == [k EXCEPT !.got = g]
             j2 == [j1 EXCEPT !.flight = b]
             j3 == [j2 EXCEPT !.unacked = u]
  <2>1. j = [j3 EXCEPT !.ackedLen = l]
    BY <1>1 DEF Streamed
  <2>2. j1 \in Streamed /\ j1.queue = k.queue /\ j1.owed = k.owed /\ j1.got = g
    BY <1>1, <1>8 DEF Streamed
  <2> HIDE DEF j, j1
  <2>3. j2 \in Streamed /\ j2.queue = k.queue /\ j2.owed = k.owed /\ j2.flight = b /\ j2.got = g
    BY <1>5, <2>2 DEF Streamed
  <2> HIDE DEF j2
  <2>4. j3 \in Streamed /\ j3.queue = k.queue /\ j3.owed = k.owed /\ j3.flight = b /\ j3.got = g
    BY <1>2, <2>3 DEF Streamed
  <2> HIDE DEF j3
  <2> QED BY <1>2, <2>1, <2>4 DEF Streamed
<1> HIDE DEF j
<1>10. Source!Stream(j) = Source!Stream(k)
  BY <1>8, <1>9 DEF Source!Stream, f
<1>11. Fits(j, m)
  BY <1>6, <1>9, <1>10 DEF Fits
<1> QED BY <1>11 DEF j, g, b, u, l, a, f

-------------------------------------------------------------------------------
LEMMA SourceInit == Source!Init => SourceInv
<1> SUFFICES ASSUME Source!Init PROVE SourceInv
  OBVIOUS
<1>1. es = [c \in Browsers |-> Source!NewClient] /\ sent = 0
  BY DEF Source!Init
<1>2. [Source!NewClient EXCEPT !.life = "none"] = Source!NewClient
  BY DEF Source!NewClient
<1>3. Fits(Source!NewClient, 0)
  BY <1>2, NewFits
<1> QED BY <1>1, <1>3 DEF SourceInv

(* One connection changes.                                                 *)
LEMMA OneChanges ==
  ASSUME SourceInv, NEW c \in Browsers, NEW k, Fits(k, sent),
         es' = [es EXCEPT ![c] = k], sent' = sent
  PROVE  SourceInv'
BY DEF SourceInv

LEMMA SourceRequest ==
  ASSUME SourceInv, NEW c \in Browsers, Source!Request(c)
  PROVE  SourceInv'
<1> DEFINE k == Source!flush(Source!add([es[c] EXCEPT !.life = "head"], 0, 1))
<1>1. es' = [es EXCEPT ![c] = k] /\ sent' = sent
  BY DEF Source!Request
<1>2. Fits(k, sent)
  BY HeadFits DEF SourceInv
<1> HIDE DEF k
<1> QED BY <1>1, <1>2, OneChanges

LEMMA SourceSend ==
  ASSUME SourceInv, Source!Send
  PROVE  SourceInv'
<1>1. PICK n \in Lens :
        es' = [c \in Browsers |-> Source!queueMessage(es[c], [id |-> sent + 1, len |-> n])]
  BY DEF Source!Send
<1>2. sent' = sent + 1 /\ sent \in Nat
  BY DEF Source!Send, SourceInv
<1>3. \A c \in Browsers : Fits(es'[c], sent + 1)
  BY <1>1, <1>2, QueueMessageFits DEF SourceInv
<1> QED BY <1>1, <1>2, <1>3 DEF SourceInv

LEMMA SourceAck ==
  ASSUME SourceInv, NEW c \in Browsers, NEW n \in 1..Len(es[c].flight), Source!Ack(c, n)
  PROVE  SourceInv'
<1> DEFINE k == [es[c] EXCEPT !.got = @ \o SubSeq(es[c].flight, 1, n),
                              !.flight = SubSeq(@, n + 1, Len(@)),
                              !.unacked = (@ - n) % Wrap, !.ackedLen = @ + n]
           heard == [k EXCEPT !.busy = FALSE, !.ackedLen = 0]
           headed == [heard EXCEPT !.life = "live"]
           q == Source!onAck(k.queue, k.ackedLen)
           acked == [k EXCEPT !.busy = FALSE, !.queue = q]
           ran == Source!runQueue(acked)
           told == [ran EXCEPT !.ackedLen = 0]
<1>1. Fits(k, sent)
  BY Acknowledges DEF SourceInv
<1>2. /\ sent' = sent
      /\ es' = [es EXCEPT ![c] = IF k.unacked # 0 THEN k ELSE IF k.life = "head" THEN headed ELSE told]
  BY DEF Source!Ack
<1> HIDE DEF k
<1>3. Fits(headed, sent)
  <2> DEFINE b == [k EXCEPT !.busy = FALSE]
  <2>1. headed = [[b EXCEPT !.ackedLen = 0] EXCEPT !.life = "live"]
    BY <1>1 DEF Fits, Streamed
  <2>2. Looks(k, b)
    BY <1>1 DEF Fits, Looks, Streamed
  <2> HIDE DEF headed, heard, b
  <2>3. Looks(b, [b EXCEPT !.ackedLen = 0])
    BY <2>2 DEF Looks, Streamed
  <2>4. ASSUME NEW x, x \in Streamed PROVE Looks(x, [x EXCEPT !.life = "live"])
    BY <2>4 DEF Looks, Streamed
  <2>5. Fits([b EXCEPT !.ackedLen = 0], sent)
    BY <1>1, <2>2, <2>3, LooksFit
  <2> DEFINE x == [b EXCEPT !.ackedLen = 0]
  <2>6. x \in Streamed
    BY <2>3 DEF Looks
  <2> HIDE DEF x
  <2>7. Looks(x, [x EXCEPT !.life = "live"])
    BY <2>4, <2>6
  <2> QED BY <2>1, <2>5, <2>7, LooksFit DEF x
<1>4. Fits(told, sent)
  <2>1. k \in Streamed /\ k.queue \in Seq(Waiting) /\ k.ackedLen \in Nat
        /\ QueueFits(k.queue, Source!Stream(k), k.owed)
    BY <1>1 DEF Fits, Streamed
  <2>2. q \in Seq(Waiting) /\ QueueFits(q, Source!Stream(k), k.owed)
    BY <2>1, OnAckKeeps
  <2> HIDE DEF q
  <2>3. /\ acked \in Streamed /\ acked.queue = q /\ acked.owed = k.owed
        /\ acked.flight = k.flight /\ acked.got = k.got
    <3> DEFINE b == [k EXCEPT !.busy = FALSE]
    <3>1. acked = [b EXCEPT !.queue = q]
      BY <2>1 DEF Streamed
    <3>2. b \in Streamed /\ b.owed = k.owed /\ b.flight = k.flight /\ b.got = k.got
      BY <2>1 DEF Streamed
    <3> HIDE DEF b, acked
    <3> QED BY <2>2, <3>1, <3>2 DEF Streamed
  <2> HIDE DEF acked
  <2>4. Fits(acked, sent)
    BY <1>1, <2>2, <2>3 DEF Fits, Source!Stream
  <2>5. Fits(ran, sent)
    BY <2>4, RunQueueFits
  <2> HIDE DEF ran
  <2>6. Looks(ran, told)
    BY <2>5 DEF Looks, Fits, Streamed
  <2> HIDE DEF told
  <2> QED BY <2>5, <2>6, LooksFit
<1> HIDE DEF told, headed
<1> QED BY <1>1, <1>2, <1>3, <1>4, OneChanges

LEMMA SourcePoll ==
  ASSUME SourceInv, NEW c \in Browsers, Source!Poll(c)
  PROVE  SourceInv'
<1> DEFINE k == es[c]
           closed == [Source!NewClient EXCEPT !.life = "gone"]
           ran == Source!runQueue(k)
<1>1. /\ sent' = sent
      /\ es' = [es EXCEPT ![c] = IF k.closing THEN closed ELSE IF k.queue # <<>> THEN ran ELSE k]
  BY DEF Source!Poll
<1>2. Fits(k, sent)
  BY DEF SourceInv
<1>3. Fits(closed, sent)
  BY NewFits
<1> HIDE DEF k, closed
<1>4. Fits(ran, sent)
  BY <1>2, RunQueueFits
<1> HIDE DEF ran
<1> QED BY <1>1, <1>2, <1>3, <1>4, OneChanges

LEMMA SourceClose ==
  ASSUME SourceInv, NEW c \in Browsers, Source!Close(c)
  PROVE  SourceInv'
<1> DEFINE k == [es[c] EXCEPT !.closing = TRUE]
<1>1. es' = [es EXCEPT ![c] = k] /\ sent' = sent
  BY DEF Source!Close
<1>2. Fits(es[c], sent)
  BY DEF SourceInv
<1>3. Looks(es[c], k)
  BY <1>2 DEF Looks, Fits, Streamed
<1> HIDE DEF k
<1> QED BY <1>1, <1>2, <1>3, LooksFit, OneChanges

LEMMA SourceDisconnect ==
  ASSUME SourceInv, NEW c \in Browsers, Source!Disconnect(c)
  PROVE  SourceInv'
<1> DEFINE k == [Source!NewClient EXCEPT !.life = "gone"]
<1>1. es' = [es EXCEPT ![c] = k] /\ sent' = sent
  BY DEF Source!Disconnect
<1>2. Fits(k, sent)
  BY NewFits
<1> HIDE DEF k
<1> QED BY <1>1, <1>2, OneChanges

LEMMA SourceStep == SourceInv /\ [Source!Next]_sourceVars => SourceInv'
<1>1. ASSUME SourceInv, UNCHANGED sourceVars PROVE SourceInv'
  BY <1>1 DEF sourceVars, SourceInv
<1>2. ASSUME SourceInv, Source!Next PROVE SourceInv'
  BY <1>2, SourceSend, SourceRequest, SourceAck, SourcePoll, SourceClose, SourceDisconnect
     DEF Source!Next
<1> QED BY <1>1, <1>2

LEMMA MCSource == SourceInv /\ [MCNext]_MCvars => SourceInv'
<1> USE DEF OfSocket, OfReceiver, OfSource, OfTemplate, MCvars
<1>1. ASSUME [MCNext]_MCvars PROVE [Source!Next]_sourceVars
  BY <1>1 DEF MCNext
<1> QED BY <1>1, SourceStep

(* An event that was sent is one piece of a browser's stream, however long *)
(* it waited for room and whatever overtook it.                            *)
THEOREM EventsStayWhole == MCSpec => []EventsWhole
<1>1. MCInit => SourceInv
  BY SourceInit DEF MCInit
<1>2. SourceInv /\ [MCNext]_MCvars => SourceInv'
  BY MCSource
<1>3. SourceInv => EventsWhole
  BY DEF SourceInv, Fits, Piece, Places, EventsWhole, Source!EventsWhole
<1> QED BY <1>1, <1>2, <1>3, PTL DEF MCSpec

-------------------------------------------------------------------------------
(* FlattenSeq, element by element of the sequence of sequences.            *)
IsFlat(ss, f) ==
  f = [i \in 1..Len(ss) |-> IF i = 1 THEN ss[i] ELSE f[i - 1] \o ss[i]]
FlatOf(ss) == CHOOSE f : IsFlat(ss, f)

IsFlatUpTo(ss, n, f) ==
  f = [i \in 1..n |-> IF i = 1 THEN ss[i] ELSE f[i - 1] \o ss[i]]

LEMMA FlatsAreDefined ==
  ASSUME NEW ss, NEW n \in Nat
  PROVE  \E f : IsFlatUpTo(ss, n, f)
<1> DEFINE T == {k \in Nat : \E f : IsFlatUpTo(ss, k, f)}
<1>1. 0 \in T
  <2> DEFINE f == [i \in 1..0 |-> <<>>]
  <2>1. IsFlatUpTo(ss, 0, f)
    BY DEF IsFlatUpTo
  <2> QED BY <2>1
<1>2. ASSUME NEW l \in Nat, l \in T PROVE l + 1 \in T
  <2>1. PICK t : IsFlatUpTo(ss, l, t)
    BY <1>2
  <2> DEFINE u == [i \in 1..(l + 1) |->
                     IF i = l + 1 THEN IF i = 1 THEN ss[i] ELSE t[l] \o ss[i] ELSE t[i]]
             v == [i \in 1..(l + 1) |-> IF i = 1 THEN ss[i] ELSE u[i - 1] \o ss[i]]
  <2>2. ASSUME NEW i \in 1..(l + 1) PROVE u[i] = v[i]
    <3>1. CASE i = l + 1
      <4>1. CASE i = 1
        BY <3>1, <4>1
      <4>2. CASE i # 1
        <5>1. i - 1 = l /\ l \in 1..(l + 1) /\ l # l + 1
          BY <3>1, <4>2
        <5>2. u[l] = t[l]
          BY <5>1
        <5> QED BY <3>1, <4>2, <5>1, <5>2
      <4> QED BY <4>1, <4>2
    <3>2. CASE i # l + 1
      <4>1. i \in 1..l
        BY <3>2
      <4>2. t[i] = IF i = 1 THEN ss[i] ELSE t[i - 1] \o ss[i]
        BY <2>1, <4>1 DEF IsFlatUpTo
      <4>3. i # 1 => i - 1 \in 1..(l + 1) /\ i - 1 # l + 1
        BY <4>1
      <4> QED BY <3>2, <4>2, <4>3
    <3> QED BY <3>1, <3>2
  <2>3. u = v
    BY <2>2
  <2>4. IsFlatUpTo(ss, l + 1, u)
    BY <2>3 DEF IsFlatUpTo
  <2> QED BY <2>4
<1>3. n \in T
  <2> HIDE DEF T
  <2> QED BY <1>1, <1>2, SetInduction
<1> QED BY <1>3

LEMMA FlattenIs ==
  ASSUME NEW T, NEW ss \in Seq(T)
  PROVE  /\ Len(ss) = 0 => FlattenSeq(ss) = ss
         /\ Len(ss) # 0 => FlattenSeq(ss) = FlatOf(ss)[Len(ss)]
         /\ IsFlat(ss, FlatOf(ss))
<1>1. PICK f : IsFlatUpTo(ss, Len(ss), f)
  <2>1. Len(ss) \in Nat
    OBVIOUS
  <2> QED BY <2>1, FlatsAreDefined
<1>2. IsFlat(ss, FlatOf(ss))
  <2>1. IsFlat(ss, f)
    BY <1>1 DEF IsFlat, IsFlatUpTo
  <2> QED BY <2>1 DEF FlatOf
<1>3. Len(ss) = 0 => FlattenSeq(ss) = ss
  BY DEF FlattenSeq
<1>4. Len(ss) # 0 => FlattenSeq(ss) = FlatOf(ss)[Len(ss)]
  BY DEF FlattenSeq, FlatOf, IsFlat
<1> QED BY <1>2, <1>3, <1>4

LEMMA FlatStep ==
  ASSUME NEW T, NEW ss \in Seq(T), NEW i \in 1..Len(ss)
  PROVE  FlatOf(ss)[i] = IF i = 1 THEN ss[i] ELSE FlatOf(ss)[i - 1] \o ss[i]
<1> DEFINE f == FlatOf(ss)
<1>1. IsFlat(ss, f)
  BY FlattenIs
<1> HIDE DEF f
<1>2. f[i] = IF i = 1 THEN ss[i] ELSE f[i - 1] \o ss[i]
  BY <1>1 DEF IsFlat
<1> QED BY <1>2 DEF f

(* What is flattened is a sequence, and one more sequence is put behind it.*)
LEMMA FlattenType ==
  ASSUME NEW T, NEW ss \in Seq(Seq(T))
  PROVE  FlattenSeq(ss) \in Seq(T) /\ \A n \in 1..Len(ss) : FlatOf(ss)[n] \in Seq(T)
<1> DEFINE f == FlatOf(ss)
           A == {n \in Nat : n + 1 <= Len(ss) => f[n + 1] \in Seq(T)}
<1>0. Len(ss) \in Nat
  OBVIOUS
<1>1. ASSUME NEW i \in 1..Len(ss)
      PROVE  f[i] = (IF i = 1 THEN ss[i] ELSE f[i - 1] \o ss[i]) /\ ss[i] \in Seq(T)
  <2>1. ss[i] \in Seq(T)
    OBVIOUS
  <2>2. FlatOf(ss)[i] = IF i = 1 THEN ss[i] ELSE FlatOf(ss)[i - 1] \o ss[i]
    BY FlatStep
  <2> QED BY <2>1, <2>2
<1> HIDE DEF f
<1>2. 0 \in A
  BY <1>1
<1>3. ASSUME NEW n \in Nat, n \in A PROVE n + 1 \in A
  <2> SUFFICES ASSUME n + 1 + 1 <= Len(ss) PROVE f[n + 1 + 1] \in Seq(T)
    OBVIOUS
  <2>1. n + 1 + 1 \in 1..Len(ss) /\ n + 1 + 1 # 1 /\ (n + 1 + 1) - 1 = n + 1 /\ n + 1 <= Len(ss)
    BY <1>0
  <2>2. f[n + 1] \in Seq(T)
    BY <1>3, <2>1
  <2> HIDE DEF A
  <2>3. f[n + 1 + 1] = f[n + 1] \o ss[n + 1 + 1] /\ ss[n + 1 + 1] \in Seq(T)
    BY <1>1, <2>1
  <2> QED BY <2>2, <2>3, ConcatProperties
<1>4. ASSUME NEW n \in 1..Len(ss) PROVE f[n] \in Seq(T)
  <2>1. n - 1 \in Nat /\ (n - 1) + 1 = n
    OBVIOUS
  <2>2. n - 1 \in A
    <3> HIDE DEF A
    <3> QED BY <1>2, <1>3, <2>1, SetInduction
  <2> QED BY <2>1, <2>2
<1>5. FlattenSeq(ss) \in Seq(T)
  <2>1. CASE Len(ss) = 0
    <3>1. FlattenSeq(ss) = ss /\ ss = <<>>
      BY <2>1, FlattenIs, EmptySeq
    <3> QED BY <3>1
  <2>2. CASE Len(ss) # 0
    BY <1>0, <1>4, <2>2, FlattenIs DEF f
  <2> QED BY <2>1, <2>2
<1> QED BY <1>4, <1>5 DEF f

(* A property of three sequences, to be used by name.                      *)
Joins(a, b, c) == (a \o b) \o c = a \o (b \o c)

-------------------------------------------------------------------------------
(* The bytes of texts with placeholders.                                   *)
Glyph == {Percent} \cup (UNION {Range(t) : t \in Texts \cup Names})
                   \cup (UNION {Range(Value(p)) : p \in Names})
Plain(s) == s \in Seq(Glyph) /\ \A i \in 1..Len(s) : s[i] # Percent

(* The names whose value has room.                                         *)
Short == {p \in Names : ~Template!Long(p)}

LEMMA PlainAre ==
  /\ \A t \in Texts : Plain(t)
  /\ \A p \in Names : Plain(p) /\ Plain(Value(p)) /\ Len(p) \in 1..NameLength
  /\ NameLength \in Nat
<1>1. ASSUME NEW s, s \in Seq(Range(s)), Percent \notin Range(s), Range(s) \subseteq Glyph
      PROVE  Plain(s)
  <2>1. s \in Seq(Glyph)
    BY <1>1
  <2>2. ASSUME NEW i \in 1..Len(s) PROVE s[i] # Percent
    BY <1>1, <2>2 DEF Range
  <2> QED BY <2>1, <2>2 DEF Plain
<1>2. ASSUME NEW t \in Texts PROVE Plain(t)
  <2>1. t \in Seq(Range(t)) /\ Percent \notin Range(t)
    BY TextAssumption
  <2>2. Range(t) \subseteq Glyph
    BY DEF Glyph
  <2> QED BY <1>1, <2>1, <2>2
<1>3. ASSUME NEW p \in Names PROVE Plain(p) /\ Plain(Value(p)) /\ Len(p) \in 1..NameLength
  <2>1. /\ p \in Seq(Range(p)) /\ Percent \notin Range(p) /\ Len(p) \in 1..NameLength
        /\ Value(p) \in Seq(Range(Value(p))) /\ Percent \notin Range(Value(p))
    BY TextAssumption
  <2>2. Range(p) \subseteq Glyph /\ Range(Value(p)) \subseteq Glyph
    <3> DEFINE A == {Range(Value(k)) : k \in Names}
               B == {Range(t) : t \in Texts \cup Names}
    <3>1. Range(Value(p)) \in A /\ Range(p) \in B
      OBVIOUS
    <3>2. Glyph = {Percent} \cup (UNION B) \cup (UNION A)
      BY DEF Glyph
    <3>3. UNION A \subseteq Glyph /\ UNION B \subseteq Glyph
      <4> HIDE DEF A, B
      <4> QED BY <3>2
    <3>4. Range(Value(p)) \subseteq UNION A /\ Range(p) \subseteq UNION B
      <4> HIDE DEF A, B
      <4> QED BY <3>1
    <3> HIDE DEF A, B
    <3> QED BY <3>3, <3>4
  <2> QED BY <1>1, <2>1, <2>2
<1>4. NameLength \in Nat
  BY TextAssumption
<1> QED BY <1>2, <1>3, <1>4

LEMMA GlyphsJoined ==
  ASSUME NEW a \in Seq(Glyph), NEW b \in Seq(Glyph)
  PROVE  /\ a \o b \in Seq(Glyph) /\ Len(a \o b) = Len(a) + Len(b)
         /\ Len(a) \in Nat /\ Len(b) \in Nat
         /\ \A i \in 1..Len(a) : (a \o b)[i] = a[i]
         /\ \A i \in 1..Len(b) : (a \o b)[Len(a) + i] = b[i]
<1>1. Len(a) \in Nat /\ Len(b) \in Nat
  OBVIOUS
<1>2. /\ a \o b \in Seq(Glyph) /\ Len(a \o b) = Len(a) + Len(b)
      /\ \A i \in 1..(Len(a) + Len(b)) : (a \o b)[i] = IF i <= Len(a) THEN a[i] ELSE b[i - Len(a)]
  BY ConcatProperties
<1> DEFINE y == a \o b
           m == Len(a)
           l == Len(b)
<1> HIDE DEF y, m, l
<1>3. ASSUME NEW i \in 1..m PROVE y[i] = a[i]
  <2>1. i \in 1..(m + l) /\ i <= m
    BY <1>1 DEF m, l
  <2> QED BY <1>2, <2>1 DEF y, m, l
<1>4. ASSUME NEW i \in 1..l PROVE y[m + i] = b[i]
  <2>1. m + i \in 1..(m + l) /\ ~(m + i <= m) /\ (m + i) - m = i
    BY <1>1 DEF m, l
  <2> QED BY <1>2, <2>1 DEF y, m, l
<1> QED BY <1>1, <1>2, <1>3, <1>4 DEF y, m, l

LEMMA GlyphsJoin ==
  ASSUME NEW a \in Seq(Glyph), NEW b \in Seq(Glyph), NEW c \in Seq(Glyph)
  PROVE  Joins(a, b, c)
BY ConcatAssociative DEF Joins

LEMMA NothingJoins ==
  ASSUME NEW a \in Seq(Glyph)
  PROVE  <<>> \o a = a /\ a \o <<>> = a
BY ConcatEmptySeq

LEMMA PlainJoined ==
  ASSUME NEW a, NEW b, Plain(a), Plain(b)
  PROVE  Plain(a \o b)
<1>1. /\ a \o b \in Seq(Glyph) /\ Len(a \o b) = Len(a) + Len(b)
      /\ Len(a) \in Nat /\ Len(b) \in Nat
      /\ \A i \in 1..Len(a) : (a \o b)[i] = a[i]
      /\ \A i \in 1..Len(b) : (a \o b)[Len(a) + i] = b[i]
  BY GlyphsJoined DEF Plain
<1> DEFINE y == a \o b
           m == Len(a)
           l == Len(b)
<1> HIDE DEF y, m, l
<1>2. ASSUME NEW i \in 1..Len(y) PROVE y[i] # Percent
  <2>1. i \in 1..m \/ (i - m \in 1..l /\ m + (i - m) = i)
    BY <1>1 DEF y, m, l
  <2>2. CASE i \in 1..m
    BY <1>1, <2>2 DEF y, m, Plain
  <2>3. CASE i - m \in 1..l /\ m + (i - m) = i
    <3> DEFINE j == i - m
    <3>1. j \in 1..l /\ i = m + j
      BY <2>3
    <3> HIDE DEF j
    <3> QED BY <1>1, <3>1 DEF y, m, l, Plain
  <2> QED BY <2>1, <2>2, <2>3
<1> QED BY <1>1, <1>2 DEF y, Plain

(* Two ways to cut a sequence in two.                                      *)
CutAt(a, y, x, u) ==
  /\ a \in Seq(Glyph) /\ y \in Seq(Glyph) /\ x \in Seq(Glyph) /\ u \in Seq(Glyph)
  /\ a \o y = x \o u /\ Len(x) <= Len(a)
Between2(a, y, x, u, b) ==
  b \in Seq(Glyph) /\ a = x \o b /\ u = b \o y /\ Len(a) = Len(x) + Len(b)

LEMMA CutTwice ==
  ASSUME NEW a, NEW y, NEW x, NEW u, CutAt(a, y, x, u)
  PROVE  \E b : Between2(a, y, x, u, b)
<1>0. /\ a \in Seq(Glyph) /\ y \in Seq(Glyph) /\ x \in Seq(Glyph) /\ u \in Seq(Glyph)
      /\ a \o y = x \o u /\ Len(x) <= Len(a)
  BY DEF CutAt
<1> DEFINE w == a \o y
           n == Len(a)
           m == Len(x)
           l == Len(y)
           h == Len(u)
           b == SubSeq(a, m + 1, n)
<1>1. /\ w \in Seq(Glyph) /\ Len(w) = n + l /\ n \in Nat /\ l \in Nat
      /\ \A i \in 1..n : w[i] = a[i]
      /\ \A i \in 1..l : w[n + i] = y[i]
  BY <1>0, GlyphsJoined
<1>2. /\ Len(w) = m + h /\ m \in Nat /\ h \in Nat
      /\ \A i \in 1..m : w[i] = x[i]
      /\ \A i \in 1..h : w[m + i] = u[i]
  <2> DEFINE v == x \o u
  <2>1. /\ Len(v) = m + h /\ m \in Nat /\ h \in Nat
        /\ \A i \in 1..m : v[i] = x[i]
        /\ \A i \in 1..h : v[m + i] = u[i]
    BY <1>0, GlyphsJoined
  <2>2. v = w
    BY <1>0
  <2> HIDE DEF v, w
  <2> QED BY <2>1, <2>2
<1>2a. m <= n
  BY <1>0
<1>3. b \in Seq(Glyph) /\ Len(b) = n - m /\ \A i \in 1..(n - m) : b[i] = a[m + i]
  <2>1. m + 1 \in 1..(n + 1) /\ n \in 0..n
    <3> HIDE DEF n, m
    <3> QED BY <1>1, <1>2, <1>2a
  <2>2. /\ b \in Seq(Glyph) /\ Len(b) = (IF m + 1 <= n THEN n - (m + 1) + 1 ELSE 0)
        /\ \A i \in 1..(n - (m + 1) + 1) : b[i] = a[(m + 1) + i - 1]
    <3> DEFINE k == m + 1
    <3> HIDE DEF k
    <3>1. k \in 1..(Len(a) + 1) /\ n \in 0..Len(a)
      BY <2>1 DEF k
    <3>2. /\ SubSeq(a, k, n) \in Seq(Glyph)
          /\ Len(SubSeq(a, k, n)) = (IF k <= n THEN n - k + 1 ELSE 0)
          /\ \A i \in 1..(n - k + 1) : SubSeq(a, k, n)[i] = a[k + i - 1]
      BY <1>0, <3>1, SubSeqProperties, SMTT(20)
    <3> QED BY <3>2 DEF k
  <2>3. (IF m + 1 <= n THEN n - (m + 1) + 1 ELSE 0) = n - m /\ n - (m + 1) + 1 = n - m
        /\ \A i \in 1..(n - m) : (m + 1) + i - 1 = m + i
    <3> HIDE DEF n, m
    <3> QED BY <1>1, <1>2, <1>2a
  <2> HIDE DEF b, n, m
  <2> QED BY <2>2, <2>3
<1>4. /\ x \o b \in Seq(Glyph) /\ Len(x \o b) = m + Len(b)
      /\ \A i \in 1..m : (x \o b)[i] = x[i]
      /\ \A i \in 1..Len(b) : (x \o b)[m + i] = b[i]
  BY <1>0, <1>3, GlyphsJoined
<1>5. /\ b \o y \in Seq(Glyph) /\ Len(b \o y) = Len(b) + l
      /\ \A i \in 1..Len(b) : (b \o y)[i] = b[i]
      /\ \A i \in 1..l : (b \o y)[Len(b) + i] = y[i]
  BY <1>0, <1>3, GlyphsJoined
<1> DEFINE c == x \o b
           d == b \o y
<1>6. Len(a) = n /\ Len(u) = h /\ m <= n
  BY <1>0
<1> HIDE DEF b, w, n, m, l, h, c, d
<1>7. a = c
  <2>1. Len(c) = n
    BY <1>1, <1>2, <1>3, <1>4 DEF c
  <2>2. ASSUME NEW i \in 1..n PROVE a[i] = c[i]
    <3>1. i \in 1..m \/ (i - m \in 1..(n - m) /\ m + (i - m) = i)
      BY <1>1, <1>2
    <3>2. CASE i \in 1..m
      BY <1>1, <1>2, <1>4, <3>2 DEF c
    <3>3. CASE i - m \in 1..(n - m) /\ m + (i - m) = i
      <4> DEFINE j == i - m
      <4>1. j \in 1..(n - m) /\ i = m + j
        BY <3>3
      <4> HIDE DEF j
      <4> QED BY <1>3, <1>4, <4>1 DEF c
    <3> QED BY <3>1, <3>2, <3>3
  <2> QED BY <1>0, <1>4, <1>6, <2>1, <2>2, SeqEqual DEF c
<1>8. u = d
  <2>1. Len(d) = h
    BY <1>1, <1>2, <1>3, <1>5 DEF d
  <2>2. ASSUME NEW i \in 1..h PROVE u[i] = d[i]
    <3>1. u[i] = w[m + i]
      BY <1>2
    <3>2. i \in 1..(n - m) \/ (i - (n - m) \in 1..l /\ (n - m) + (i - (n - m)) = i)
      BY <1>1, <1>2
    <3>3. CASE i \in 1..(n - m)
      <4>1. m + i \in 1..n
        BY <1>1, <1>2, <3>3
      <4> QED BY <1>1, <1>3, <1>5, <3>1, <3>3, <4>1 DEF d
    <3>4. CASE i - (n - m) \in 1..l /\ (n - m) + (i - (n - m)) = i
      <4> DEFINE j == i - (n - m)
      <4>1. j \in 1..l /\ i = (n - m) + j /\ m + i = n + j
        BY <1>1, <1>2, <3>4
      <4> HIDE DEF j
      <4> QED BY <1>1, <1>3, <1>5, <3>1, <4>1 DEF d
    <3> QED BY <3>2, <3>3, <3>4
  <2> QED BY <1>0, <1>5, <1>6, <2>1, <2>2, SeqEqual DEF d
<1>9. Len(a) = m + Len(b)
  BY <1>1, <1>2, <1>3, <1>6
<1>10. Between2(a, y, x, u, b)
  BY <1>3, <1>7, <1>8, <1>9 DEF Between2, c, d, m
<1> QED BY <1>10

LEMMA Cancelled ==
  ASSUME NEW x \in Seq(Glyph), NEW y \in Seq(Glyph), NEW u \in Seq(Glyph), x \o y = x \o u
  PROVE  y = u
<1>1. CutAt(x, y, x, u)
  BY DEF CutAt
<1>2. PICK b : Between2(x, y, x, u, b)
  BY <1>1, CutTwice
<1>3. Len(b) = 0
  <2>1. Len(x) \in Nat /\ Len(b) \in Nat /\ Len(x) = Len(x) + Len(b)
    BY <1>2 DEF Between2
  <2> QED BY <2>1
<1>4. b = <<>> /\ u = b \o y
  BY <1>2, <1>3, EmptySeq DEF Between2
<1> QED BY <1>4, NothingJoins

(* A placeholder and what follows it, behind some text.                    *)
Sign == <<Percent>>
Behind(a, p, u) == a \o (Sign \o (p \o (Sign \o u)))

Link(w, m, u, l, a, p) ==
  /\ Plain(a) /\ p \in Short /\ u \in Seq(Glyph) /\ l \in Seq(Glyph)
  /\ w = Behind(a, p, u) /\ m = a \o (Value(p) \o l)

(* The text w with k placeholders, in which m is what is to be shown.      *)
IsChain(W, M, k) ==
  /\ Plain(W[0]) /\ M[0] = W[0]
  /\ \A j \in 1..k : \E a, p : Link(W[j], M[j], W[j - 1], M[j - 1], a, p)
Means(w, m, k) == k \in Nat /\ \E W, M : IsChain(W, M, k) /\ w = W[k] /\ m = M[k]

LEMMA SignIs == Sign \in Seq(Glyph) /\ Len(Sign) = 1 /\ Sign[1] = Percent
BY DEF Sign, Glyph

LEMMA BehindIs ==
  ASSUME NEW a, Plain(a), NEW p \in Names, NEW u \in Seq(Glyph)
  PROVE  /\ Behind(a, p, u) \in Seq(Glyph) /\ a \in Seq(Glyph) /\ p \in Seq(Glyph)
         /\ Sign \o (p \o (Sign \o u)) \in Seq(Glyph) /\ p \o (Sign \o u) \in Seq(Glyph)
         /\ Sign \o u \in Seq(Glyph)
         /\ Len(a) \in Nat /\ Len(u) \in Nat /\ Len(p) \in 1..NameLength
         /\ Len(Behind(a, p, u)) = Len(a) + 1 + Len(p) + 1 + Len(u)
         /\ \A i \in 1..Len(a) : Behind(a, p, u)[i] # Percent
         /\ Behind(a, p, u)[Len(a) + 1] = Percent
<1> DEFINE x == Sign \o u
           y == p \o x
           z == Sign \o y
           w == a \o z
<1>0. Behind(a, p, u) = w
  BY DEF Behind
<1>1. /\ a \in Seq(Glyph) /\ p \in Seq(Glyph) /\ Len(p) \in 1..NameLength
      /\ \A i \in 1..Len(a) : a[i] # Percent
  BY PlainAre DEF Plain
<1>2. x \in Seq(Glyph) /\ Len(x) = 1 + Len(u) /\ Len(u) \in Nat
  <2>1. Len(x) = Len(Sign) + Len(u) /\ x \in Seq(Glyph) /\ Len(u) \in Nat
    BY SignIs, GlyphsJoined
  <2> HIDE DEF x
  <2> QED BY <2>1, SignIs
<1> HIDE DEF x
<1>3. y \in Seq(Glyph) /\ Len(y) = Len(p) + Len(x)
  BY <1>1, <1>2, GlyphsJoined
<1> HIDE DEF y
<1>4. z \in Seq(Glyph) /\ Len(z) = 1 + Len(y) /\ z[1] = Percent
  <2>1. /\ z \in Seq(Glyph) /\ Len(z) = Len(Sign) + Len(y)
        /\ \A i \in 1..Len(Sign) : z[i] = Sign[i]
    BY <1>3, SignIs, GlyphsJoined
  <2>2. 1 \in 1..Len(Sign)
    BY SignIs
  <2> QED BY <2>1, <2>2, SignIs
<1> HIDE DEF z
<1>5. /\ w \in Seq(Glyph) /\ Len(w) = Len(a) + Len(z) /\ Len(a) \in Nat /\ Len(z) \in Nat
      /\ \A i \in 1..Len(a) : w[i] = a[i]
      /\ \A i \in 1..Len(z) : w[Len(a) + i] = z[i]
  BY <1>1, <1>4, GlyphsJoined
<1> HIDE DEF w
<1>6. Len(w) = Len(a) + 1 + Len(p) + 1 + Len(u)
  <2>1. Len(p) \in Nat
    BY <1>1
  <2> QED BY <1>2, <1>3, <1>4, <1>5, <2>1
<1>7. w[Len(a) + 1] = Percent
  <2>1. 1 \in 1..Len(z)
    BY <1>1, <1>2, <1>3, <1>4
  <2> QED BY <1>4, <1>5, <2>1
<1>8. \A i \in 1..Len(a) : w[i] # Percent
  BY <1>1, <1>5
<1> QED BY <1>0, <1>1, <1>2, <1>3, <1>4, <1>5, <1>6, <1>7, <1>8 DEF x, y, z

LEMMA LinkIs ==
  ASSUME NEW w, NEW m, NEW u, NEW l, NEW a, NEW p, Link(w, m, u, l, a, p)
  PROVE  /\ w \in Seq(Glyph) /\ m \in Seq(Glyph) /\ u \in Seq(Glyph) /\ l \in Seq(Glyph)
         /\ a \in Seq(Glyph) /\ p \in Names /\ Plain(a) /\ Value(p) \in Seq(Glyph)
         /\ Value(p) \o l \in Seq(Glyph)
<1>1. /\ Plain(a) /\ p \in Names /\ u \in Seq(Glyph) /\ l \in Seq(Glyph)
      /\ w = Behind(a, p, u) /\ m = a \o (Value(p) \o l)
  BY DEF Link, Short
<1>2. Value(p) \in Seq(Glyph) /\ a \in Seq(Glyph)
  BY <1>1, PlainAre DEF Plain
<1>3. Value(p) \o l \in Seq(Glyph)
  BY <1>1, <1>2, GlyphsJoined
<1>4. m \in Seq(Glyph)
  BY <1>1, <1>2, <1>3, GlyphsJoined
<1> QED BY <1>1, <1>2, <1>3, <1>4, BehindIs

LEMMA MeansNone ==
  ASSUME NEW s, Plain(s)
  PROVE  Means(s, s, 0)
<1> DEFINE W == [j \in {0} |-> s]
<1>1. W[0] = s
  OBVIOUS
<1> HIDE DEF W
<1>2. IsChain(W, W, 0)
  BY <1>1 DEF IsChain
<1> QED BY <1>1, <1>2 DEF Means

LEMMA MeansMore ==
  ASSUME NEW w, NEW m, NEW u, NEW l, NEW a, NEW p, NEW k, Means(u, l, k), Link(w, m, u, l, a, p)
  PROVE  Means(w, m, k + 1)
<1>1. PICK W, M : IsChain(W, M, k) /\ u = W[k] /\ l = M[k]
  BY DEF Means
<1>2. k \in Nat
  BY DEF Means
<1> DEFINE U == [j \in 0..(k + 1) |-> IF j = k + 1 THEN w ELSE W[j]]
           L == [j \in 0..(k + 1) |-> IF j = k + 1 THEN m ELSE M[j]]
<1>3. /\ U[k + 1] = w /\ L[k + 1] = m /\ k + 1 \in Nat
      /\ \A j \in 0..k : U[j] = W[j] /\ L[j] = M[j]
  BY <1>2
<1> HIDE DEF U, L
<1>4. IsChain(U, L, k + 1)
  <2>1. Plain(U[0]) /\ L[0] = U[0]
    <3>1. 0 \in 0..k
      BY <1>2
    <3> QED BY <1>1, <1>3, <3>1 DEF IsChain
  <2>2. ASSUME NEW j \in 1..(k + 1)
        PROVE  \E b, f : Link(U[j], L[j], U[j - 1], L[j - 1], b, f)
    <3>1. CASE j = k + 1
      <4>1. j - 1 = k /\ k \in 0..k
        BY <1>2, <3>1
      <4>2. U[j] = w /\ L[j] = m /\ U[j - 1] = u /\ L[j - 1] = l
        BY <1>1, <1>3, <3>1, <4>1
      <4> QED BY <4>2
    <3>2. CASE j # k + 1
      <4>1. j \in 1..k /\ j \in 0..k /\ j - 1 \in 0..k
        BY <1>2, <3>2
      <4>2. \E b, f : Link(W[j], M[j], W[j - 1], M[j - 1], b, f)
        BY <1>1, <4>1 DEF IsChain
      <4>3. U[j] = W[j] /\ L[j] = M[j] /\ U[j - 1] = W[j - 1] /\ L[j - 1] = M[j - 1]
        BY <1>3, <4>1
      <4> QED BY <4>2, <4>3
    <3> QED BY <3>1, <3>2
  <2> QED BY <2>1, <2>2 DEF IsChain
<1> QED BY <1>3, <1>4 DEF Means

LEMMA MeansLess ==
  ASSUME NEW w, NEW m, NEW k, Means(w, m, k)
  PROVE  /\ k \in Nat /\ w \in Seq(Glyph) /\ m \in Seq(Glyph)
         /\ k = 0 => Plain(w) /\ m = w
         /\ k # 0 => \E u, l, a, p : Link(w, m, u, l, a, p) /\ Means(u, l, k - 1)
<1>1. PICK W, M : IsChain(W, M, k) /\ w = W[k] /\ m = M[k]
  BY DEF Means
<1>2. k \in Nat
  BY DEF Means
<1>3. k = 0 => Plain(w) /\ m = w
  BY <1>1 DEF IsChain
<1>4. k # 0 => \E u, l, a, p : Link(w, m, u, l, a, p) /\ Means(u, l, k - 1)
  <2> SUFFICES ASSUME k # 0 PROVE \E u, l, a, p : Link(w, m, u, l, a, p) /\ Means(u, l, k - 1)
    OBVIOUS
  <2>1. k \in 1..k /\ k - 1 \in Nat /\ \A j \in 1..(k - 1) : j \in 1..k
    BY <1>2
  <2>2. PICK a, p : Link(W[k], M[k], W[k - 1], M[k - 1], a, p)
    BY <1>1, <2>1 DEF IsChain
  <2>3. IsChain(W, M, k - 1)
    BY <1>1, <2>1 DEF IsChain
  <2>4. Means(W[k - 1], M[k - 1], k - 1)
    BY <2>1, <2>3 DEF Means
  <2> QED BY <1>1, <2>2, <2>4
<1>5. w \in Seq(Glyph) /\ m \in Seq(Glyph)
  <2>1. CASE k = 0
    BY <1>3, <2>1 DEF Plain
  <2>2. CASE k # 0
    BY <1>4, <2>2, LinkIs
  <2> QED BY <2>1, <2>2
<1> QED BY <1>2, <1>3, <1>4, <1>5

LEMMA MeansEnough ==
  ASSUME NEW w, NEW m, NEW k, Means(w, m, k)
  PROVE  k <= Len(w)
<1> DEFINE T == {n \in Nat : \A v, h : Means(v, h, n) => n <= Len(v)}
<1>1. 0 \in T
  <2>1. ASSUME NEW v, NEW h, Means(v, h, 0) PROVE 0 <= Len(v)
    <3>1. v \in Seq(Glyph)
      BY <2>1, MeansLess
    <3> QED BY <3>1
  <2> QED BY <2>1
<1>2. ASSUME NEW n \in Nat, n \in T PROVE n + 1 \in T
  <2>1. ASSUME NEW v, NEW h, Means(v, h, n + 1) PROVE n + 1 <= Len(v)
    <3>1. n + 1 # 0 /\ (n + 1) - 1 = n
      OBVIOUS
    <3>2. PICK u, l, a, p : Link(v, h, u, l, a, p) /\ Means(u, l, n)
      BY <2>1, <3>1, MeansLess
    <3>3. n <= Len(u)
      BY <1>2, <3>2
    <3>4. /\ Plain(a) /\ p \in Names /\ u \in Seq(Glyph) /\ v = Behind(a, p, u)
      BY <3>2, LinkIs DEF Link
    <3>5. Len(v) = Len(a) + 1 + Len(p) + 1 + Len(u) /\ Len(a) \in Nat /\ Len(u) \in Nat
          /\ Len(p) \in Nat
      BY <3>4, BehindIs
    <3> HIDE DEF T
    <3> QED BY <3>3, <3>5
  <2> QED BY <2>1
<1>3. k \in T
  <2>1. k \in Nat
    BY DEF Means
  <2> HIDE DEF T
  <2> QED BY <1>1, <1>2, <2>1, SetInduction
<1> QED BY <1>3

LEMMA PlainParts ==
  ASSUME NEW a \in Seq(Glyph), NEW b \in Seq(Glyph), Plain(a \o b)
  PROVE  Plain(a) /\ Plain(b)
<1> DEFINE w == a \o b
           m == Len(a)
           l == Len(b)
<1>1. /\ Len(w) = m + l /\ m \in Nat /\ l \in Nat
      /\ \A i \in 1..m : w[i] = a[i]
      /\ \A i \in 1..l : w[m + i] = b[i]
  BY GlyphsJoined
<1>2. \A i \in 1..Len(w) : w[i] # Percent
  BY DEF Plain
<1> HIDE DEF w, m, l
<1>3. ASSUME NEW i \in 1..m PROVE a[i] # Percent
  <2>1. i \in 1..Len(w)
    BY <1>1
  <2> QED BY <1>1, <1>2, <2>1
<1>4. ASSUME NEW i \in 1..l PROVE b[i] # Percent
  <2>1. m + i \in 1..Len(w)
    BY <1>1
  <2> QED BY <1>1, <1>2, <2>1
<1> QED BY <1>3, <1>4 DEF Plain, m, l

(* Text may be put before a text, and taken from it.                       *)
LEMMA TextBefore ==
  ASSUME NEW u, NEW l, NEW k, Means(u, l, k), NEW x, Plain(x)
  PROVE  Means(x \o u, x \o l, k)
<1>1. /\ k \in Nat
      /\ k = 0 => Plain(u) /\ l = u
      /\ k # 0 => \E v, h, a, p : Link(u, l, v, h, a, p) /\ Means(v, h, k - 1)
  BY MeansLess
<1>2. CASE k = 0
  BY <1>1, <1>2, PlainJoined, MeansNone
<1>3. CASE k # 0
  <2>1. PICK v, h, a, p : Link(u, l, v, h, a, p) /\ Means(v, h, k - 1)
    BY <1>1, <1>3
  <2> DEFINE z == Sign \o (p \o (Sign \o v))
             y == Value(p) \o h
  <2>2. /\ u = a \o z /\ l = a \o y /\ Plain(a) /\ a \in Seq(Glyph) /\ p \in Names
        /\ p \in Short /\ v \in Seq(Glyph) /\ h \in Seq(Glyph) /\ y \in Seq(Glyph)
    <3>1. u = a \o z /\ l = a \o y /\ p \in Short
      BY <2>1 DEF Link, Behind
    <3>2. /\ Plain(a) /\ a \in Seq(Glyph) /\ p \in Names /\ v \in Seq(Glyph)
          /\ h \in Seq(Glyph) /\ y \in Seq(Glyph)
      BY <2>1, LinkIs
    <3> QED BY <3>1, <3>2
  <2>3. z \in Seq(Glyph)
    BY <2>2, BehindIs
  <2>4. x \in Seq(Glyph) /\ Plain(x \o a)
    BY <2>2, PlainJoined DEF Plain
  <2>5. x \o u = (x \o a) \o z /\ x \o l = (x \o a) \o y
    <3> HIDE DEF z, y
    <3>1. Joins(x, a, z) /\ Joins(x, a, y)
      BY <2>2, <2>3, <2>4, GlyphsJoin
    <3> QED BY <2>2, <3>1 DEF Joins
  <2>6. Link(x \o u, x \o l, v, h, x \o a, p)
    BY <2>2, <2>4, <2>5 DEF Link, Behind
  <2>7. Means(x \o u, x \o l, (k - 1) + 1)
    BY <2>1, <2>6, MeansMore
  <2>8. (k - 1) + 1 = k
    BY <1>1
  <2> QED BY <2>7, <2>8
<1> QED BY <1>2, <1>3

(* The text before the first placeholder is as long as there is none.      *)
LEMMA NotBefore ==
  ASSUME NEW a, Plain(a), NEW p \in Names, NEW v \in Seq(Glyph), NEW x, Plain(x),
         NEW u \in Seq(Glyph), Behind(a, p, v) = x \o u
  PROVE  Len(x) <= Len(a)
<1> DEFINE w == x \o u
           i == Len(a) + 1
<1>1. Len(a) \in Nat /\ w[i] = Percent
  <2>1. Len(a) \in Nat /\ Behind(a, p, v)[Len(a) + 1] = Percent
    BY BehindIs
  <2> QED BY <2>1
<1>2. Len(x) \in Nat /\ x \in Seq(Glyph) /\ \A j \in 1..Len(x) : x[j] # Percent /\ w[j] = x[j]
  BY GlyphsJoined DEF Plain
<1> HIDE DEF w
<1> SUFFICES ASSUME Len(x) > Len(a) PROVE FALSE
  BY <1>1, <1>2
<1>3. i \in 1..Len(x)
  BY <1>1, <1>2
<1> QED BY <1>1, <1>2, <1>3

Leads(x, w, u) == Plain(x) /\ u \in Seq(Glyph) /\ w = x \o u

LEMMA TextOff ==
  ASSUME NEW w, NEW m, NEW k, Means(w, m, k), NEW x, NEW u, Leads(x, w, u)
  PROVE  \E l : m = x \o l /\ Means(u, l, k)
<1>9. Plain(x) /\ u \in Seq(Glyph) /\ w = x \o u
  BY DEF Leads
<1>1. /\ k \in Nat
      /\ k = 0 => Plain(w) /\ m = w
      /\ k # 0 => \E v, h, a, p : Link(w, m, v, h, a, p) /\ Means(v, h, k - 1)
  <2> DEFINE y == x \o u
  <2>1. Means(y, m, k) /\ w = y
    BY <1>9
  <2> HIDE DEF y
  <2>2. /\ k \in Nat
        /\ k = 0 => Plain(y) /\ m = y
        /\ k # 0 => \E v, h, a, p : Link(y, m, v, h, a, p) /\ Means(v, h, k - 1)
    BY <2>1, MeansLess
  <2> QED BY <2>1, <2>2
<1>0. x \in Seq(Glyph)
  BY <1>9 DEF Plain
<1>2. CASE k = 0
  <2>1. Plain(u) /\ m = x \o u
    BY <1>0, <1>1, <1>2, <1>9, PlainParts
  <2> QED BY <1>2, <2>1, MeansNone
<1>3. CASE k # 0
  <2>1. PICK v, h, a, p : Link(w, m, v, h, a, p) /\ Means(v, h, k - 1)
    BY <1>1, <1>3
  <2> DEFINE z == Sign \o (p \o (Sign \o v))
             y == Value(p) \o h
  <2>2. /\ w = a \o z /\ w = Behind(a, p, v) /\ m = a \o y /\ Plain(a) /\ a \in Seq(Glyph)
        /\ p \in Names /\ p \in Short /\ v \in Seq(Glyph) /\ h \in Seq(Glyph) /\ y \in Seq(Glyph)
    <3>1. w = a \o z /\ m = a \o y /\ p \in Short /\ w = Behind(a, p, v)
      BY <2>1 DEF Link, Behind
    <3>2. /\ Plain(a) /\ a \in Seq(Glyph) /\ p \in Names /\ v \in Seq(Glyph)
          /\ h \in Seq(Glyph) /\ y \in Seq(Glyph)
      BY <2>1, LinkIs
    <3> QED BY <3>1, <3>2
  <2>3. z \in Seq(Glyph)
    BY <2>2, BehindIs
  <2>4. Len(x) <= Len(a)
    BY <1>9, <2>2, NotBefore
  <2> HIDE DEF z, y
  <2>5. CutAt(a, z, x, u)
    BY <1>0, <1>9, <2>2, <2>3, <2>4 DEF CutAt
  <2>6. PICK b : Between2(a, z, x, u, b)
    BY <2>5, CutTwice
  <2>7. b \in Seq(Glyph) /\ a = x \o b /\ u = b \o z
    BY <2>6 DEF Between2
  <2>8. Plain(b)
    BY <1>0, <2>2, <2>7, PlainParts
  <2>9. m = x \o (b \o y)
    <3>1. Joins(x, b, y)
      BY <1>0, <2>2, <2>7, GlyphsJoin
    <3> QED BY <2>2, <2>7, <3>1 DEF Joins
  <2>10. Link(u, b \o y, v, h, b, p)
    BY <1>9, <2>2, <2>7, <2>8 DEF Link, Behind, z, y
  <2>11. Means(u, b \o y, (k - 1) + 1)
    BY <2>1, <2>10, MeansMore
  <2>12. (k - 1) + 1 = k
    BY <1>1
  <2> QED BY <2>9, <2>11, <2>12
<1> QED BY <1>2, <1>3

(* The content, piece by piece.                                            *)
Fragment(p) == p \in Texts \/ (p \in Short /\ p # Template!Escape)

LEMMA FragmentMeans ==
  ASSUME NEW p, Fragment(p)
  PROVE  /\ Template!Written(p) \in Seq(Glyph) /\ Template!Shown(p) \in Seq(Glyph)
         /\ \A u, l, k : Means(u, l, k) =>
              \E j : Means(Template!Written(p) \o u, Template!Shown(p) \o l, j)
<1>1. CASE p \in Texts
  <2>1. Template!Written(p) = p /\ Template!Shown(p) = p
    BY <1>1 DEF Template!Written, Template!Shown
  <2>2. Plain(p)
    BY <1>1, PlainAre
  <2>3. \A u, l, k : Means(u, l, k) => Means(p \o u, p \o l, k)
    BY <2>2, TextBefore
  <2> QED BY <2>1, <2>2, <2>3 DEF Plain
<1>2. CASE p \notin Texts /\ p \in Short /\ p # Template!Escape
  <2>1. p \in Names /\ p \in Seq(Glyph) /\ Value(p) \in Seq(Glyph)
    BY <1>2, PlainAre DEF Short, Plain
  <2>2. Template!Written(p) = (Sign \o p) \o Sign /\ Template!Shown(p) = Value(p)
    BY <1>2 DEF Template!Written, Template!Shown, Sign
  <2>3. Sign \o p \in Seq(Glyph) /\ (Sign \o p) \o Sign \in Seq(Glyph)
    BY <2>1, SignIs, GlyphsJoined
  <2>4. ASSUME NEW u, NEW l, NEW k, Means(u, l, k)
        PROVE  Means(((Sign \o p) \o Sign) \o u, Value(p) \o l, k + 1)
    <3>1. u \in Seq(Glyph) /\ l \in Seq(Glyph)
      BY <2>4, MeansLess
    <3>2. Sign \o u \in Seq(Glyph) /\ Value(p) \o l \in Seq(Glyph)
      BY <2>1, <3>1, SignIs, GlyphsJoined
    <3>3. p \o (Sign \o u) \in Seq(Glyph)
      BY <2>1, <3>2, GlyphsJoined
    <3>4. Sign \o (p \o (Sign \o u)) \in Seq(Glyph)
      BY <3>3, SignIs, GlyphsJoined
    <3>5. ((Sign \o p) \o Sign) \o u = Sign \o (p \o (Sign \o u))
      <4>1. ((Sign \o p) \o Sign) \o u = (Sign \o p) \o (Sign \o u)
        BY <2>3, <3>1, SignIs, GlyphsJoin, SMTT(20) DEF Joins
      <4>2. (Sign \o p) \o (Sign \o u) = Sign \o (p \o (Sign \o u))
        BY <2>1, <3>2, SignIs, GlyphsJoin DEF Joins
      <4> QED BY <4>1, <4>2
    <3>6. ((Sign \o p) \o Sign) \o u = Behind(<<>>, p, u)
      <4> DEFINE z == Sign \o (p \o (Sign \o u))
      <4>1. z \in Seq(Glyph)
        BY <3>4
      <4> HIDE DEF z
      <4>2. <<>> \o z = z
        BY <4>1, NothingJoins
      <4> QED BY <3>5, <4>2 DEF z, Behind
    <3>7. Value(p) \o l = <<>> \o (Value(p) \o l)
      <4> DEFINE z == Value(p) \o l
      <4>1. z \in Seq(Glyph)
        BY <3>2
      <4> HIDE DEF z
      <4>2. <<>> \o z = z
        BY <4>1, NothingJoins
      <4> QED BY <4>2 DEF z
    <3>8. Plain(<<>>)
      BY DEF Plain
    <3>9. Link(((Sign \o p) \o Sign) \o u, Value(p) \o l, u, l, <<>>, p)
      BY <1>2, <3>1, <3>6, <3>7, <3>8 DEF Link
    <3> QED BY <2>4, <3>9, MeansMore
  <2>5. \A u, l, k : Means(u, l, k) =>
          \E j : Means(Template!Written(p) \o u, Template!Shown(p) \o l, j)
    BY <2>2, <2>4
  <2> QED BY <2>1, <2>2, <2>3, <2>5
<1> QED BY <1>1, <1>2 DEF Fragment

LEMMA TextsMatch == ASSUME NEW ss PROVE Template!FlattenSeq(ss) = FlattenSeq(ss)
BY DEF Template!FlattenSeq, FlattenSeq

FlatUpTo(ss, n) == IF n = 0 THEN <<>> ELSE FlatOf(ss)[n]

LEMMA FlatUpToIs ==
  ASSUME NEW ss \in Seq(Seq(Glyph))
  PROVE  /\ Len(ss) \in Nat /\ FlatUpTo(ss, 0) = <<>> /\ FlattenSeq(ss) = FlatUpTo(ss, Len(ss))
         /\ \A n \in 0..Len(ss) : FlatUpTo(ss, n) \in Seq(Glyph)
         /\ \A n \in Nat : n + 1 <= Len(ss) => FlatUpTo(ss, n + 1) = FlatUpTo(ss, n) \o ss[n + 1]
<1> DEFINE f == FlatOf(ss)
           N == Len(ss)
<1>1. N \in Nat
  OBVIOUS
<1>2. /\ N = 0 => FlattenSeq(ss) = ss
      /\ N # 0 => FlattenSeq(ss) = f[N]
  BY FlattenIs
<1>3. \A n \in 1..N : f[n] \in Seq(Glyph)
  BY FlattenType
<1>4. \A n \in 1..N : f[n] = IF n = 1 THEN ss[n] ELSE f[n - 1] \o ss[n]
  BY FlatStep
<1>5. N = 0 => ss = <<>>
  BY EmptySeq
<1>6. \A n \in 1..N : ss[n] \in Seq(Glyph)
  OBVIOUS
<1> HIDE DEF f, N
<1>7. ASSUME NEW n \in 0..N PROVE FlatUpTo(ss, n) \in Seq(Glyph)
  <2>1. CASE n = 0
    BY <2>1 DEF FlatUpTo
  <2>2. CASE n # 0
    <3>1. n \in 1..N
      BY <1>1, <2>2
    <3> QED BY <1>3, <2>2, <3>1 DEF FlatUpTo, f
  <2> QED BY <2>1, <2>2
<1>8. ASSUME NEW n \in Nat, n + 1 <= N PROVE FlatUpTo(ss, n + 1) = FlatUpTo(ss, n) \o ss[n + 1]
  <2>1. n + 1 \in 1..N /\ n + 1 # 0 /\ (n + 1) - 1 = n
    BY <1>1, <1>8
  <2>2. FlatUpTo(ss, n + 1) = f[n + 1]
    BY <2>1 DEF FlatUpTo, f
  <2>3. CASE n = 0
    <3>1. f[n + 1] = ss[n + 1] /\ FlatUpTo(ss, n) = <<>>
      BY <1>4, <2>1, <2>3 DEF FlatUpTo
    <3>2. <<>> \o ss[n + 1] = ss[n + 1]
      BY <1>6, <2>1, NothingJoins
    <3> QED BY <2>2, <3>1, <3>2
  <2>4. CASE n # 0
    <3>1. FlatUpTo(ss, n) = f[n] /\ n + 1 # 1
      BY <2>4 DEF FlatUpTo, f
    <3>2. f[n + 1] = f[(n + 1) - 1] \o ss[n + 1]
      BY <1>4, <2>1, <3>1
    <3> QED BY <2>1, <2>2, <3>1, <3>2
  <2> QED BY <2>3, <2>4
<1>9. FlattenSeq(ss) = FlatUpTo(ss, N)
  BY <1>2, <1>5 DEF FlatUpTo, f
<1>10. FlatUpTo(ss, 0) = <<>>
  BY DEF FlatUpTo
<1> QED BY <1>1, <1>7, <1>8, <1>9, <1>10 DEF N

LEMMA ContentMeans ==
  ASSUME NEW n \in Nat, NEW c \in [1..n -> Template!Pieces], \A i \in 1..n : Fragment(c[i])
  PROVE  \E k : Means(FlattenSeq([i \in DOMAIN c |-> Template!Written(c[i])]),
                      FlattenSeq([i \in DOMAIN c |-> Template!Shown(c[i])]), k)
<1> DEFINE wr == [i \in DOMAIN c |-> Template!Written(c[i])]
           sh == [i \in DOMAIN c |-> Template!Shown(c[i])]
<1>1. DOMAIN c = 1..n
  OBVIOUS
<1>2. \A i \in 1..n : /\ Template!Written(c[i]) \in Seq(Glyph) /\ Template!Shown(c[i]) \in Seq(Glyph)
                      /\ \A u, l, k : Means(u, l, k) =>
                           \E j : Means(Template!Written(c[i]) \o u, Template!Shown(c[i]) \o l, j)
  BY FragmentMeans
<1>3. /\ wr \in Seq(Seq(Glyph)) /\ Len(wr) = n /\ sh \in Seq(Seq(Glyph)) /\ Len(sh) = n
      /\ \A i \in 1..n : wr[i] = Template!Written(c[i]) /\ sh[i] = Template!Shown(c[i])
  <2>1. /\ \A i \in 1..n : wr[i] = Template!Written(c[i]) /\ sh[i] = Template!Shown(c[i])
        /\ DOMAIN wr = 1..n /\ DOMAIN sh = 1..n
    BY <1>1
  <2>2. wr \in [1..n -> Seq(Glyph)] /\ sh \in [1..n -> Seq(Glyph)]
    BY <1>1, <1>2
  <2> HIDE DEF wr, sh
  <2> QED BY <2>1, <2>2
<1> DEFINE A == {m \in Nat : m <= n => \A u, l, k : Means(u, l, k) =>
                   \E j : Means(FlatUpTo(wr, m) \o u, FlatUpTo(sh, m) \o l, j)}
<1> HIDE DEF wr, sh
<1>4. /\ FlatUpTo(wr, 0) = <<>> /\ FlatUpTo(sh, 0) = <<>>
      /\ FlattenSeq(wr) = FlatUpTo(wr, n) /\ FlattenSeq(sh) = FlatUpTo(sh, n)
      /\ \A m \in 0..n : FlatUpTo(wr, m) \in Seq(Glyph) /\ FlatUpTo(sh, m) \in Seq(Glyph)
      /\ \A m \in Nat : m + 1 <= n => /\ FlatUpTo(wr, m + 1) = FlatUpTo(wr, m) \o wr[m + 1]
                                      /\ FlatUpTo(sh, m + 1) = FlatUpTo(sh, m) \o sh[m + 1]
  BY <1>3, FlatUpToIs
<1>5. 0 \in A
  <2>1. ASSUME NEW u, NEW l, NEW k, Means(u, l, k)
        PROVE  Means(FlatUpTo(wr, 0) \o u, FlatUpTo(sh, 0) \o l, k)
    <3>1. u \in Seq(Glyph) /\ l \in Seq(Glyph)
      BY <2>1, MeansLess
    <3>2. <<>> \o u = u /\ <<>> \o l = l
      BY <3>1, NothingJoins
    <3> QED BY <1>4, <2>1, <3>2
  <2> QED BY <2>1
<1>6. ASSUME NEW m \in Nat, m \in A PROVE m + 1 \in A
  <2>1. ASSUME NEW u, NEW l, NEW k, Means(u, l, k), m + 1 <= n
        PROVE  \E j : Means(FlatUpTo(wr, m + 1) \o u, FlatUpTo(sh, m + 1) \o l, j)
    <3>1. m + 1 \in 1..n /\ m <= n /\ m \in 0..n
      BY <2>1
    <3> DEFINE x == wr[m + 1]
               y == sh[m + 1]
               p == FlatUpTo(wr, m)
               q == FlatUpTo(sh, m)
    <3>2. /\ x \in Seq(Glyph) /\ y \in Seq(Glyph) /\ p \in Seq(Glyph) /\ q \in Seq(Glyph)
          /\ FlatUpTo(wr, m + 1) = p \o x /\ FlatUpTo(sh, m + 1) = q \o y
      BY <1>2, <1>3, <1>4, <2>1, <3>1
    <3>3. \E j : Means(x \o u, y \o l, j)
      BY <1>2, <1>3, <2>1, <3>1
    <3>4. \E j : Means(p \o (x \o u), q \o (y \o l), j)
      BY <1>6, <3>1, <3>3
    <3>5. u \in Seq(Glyph) /\ l \in Seq(Glyph)
      BY <2>1, MeansLess
    <3> HIDE DEF x, y, p, q
    <3>6. Joins(p, x, u) /\ Joins(q, y, l)
      BY <3>2, <3>5, GlyphsJoin
    <3> QED BY <3>2, <3>4, <3>6 DEF Joins
  <2> QED BY <2>1
<1>7. n \in A
  <2> HIDE DEF A
  <2> QED BY <1>5, <1>6, SetInduction
<1>8. Means(<<>>, <<>>, 0)
  <2>1. Plain(<<>>)
    BY DEF Plain
  <2> QED BY <2>1, MeansNone
<1>9. \E j : Means(FlatUpTo(wr, n) \o <<>>, FlatUpTo(sh, n) \o <<>>, j)
  <2>1. \A u, l, k : Means(u, l, k) => \E j : Means(FlatUpTo(wr, n) \o u, FlatUpTo(sh, n) \o l, j)
    <3>1. n <= n
      OBVIOUS
    <3> QED BY <1>7, <3>1
  <2> HIDE DEF A
  <2> QED BY <1>8, <2>1
<1>10. FlatUpTo(wr, n) \o <<>> = FlatUpTo(wr, n) /\ FlatUpTo(sh, n) \o <<>> = FlatUpTo(sh, n)
  <2>1. n \in 0..n
    OBVIOUS
  <2> QED BY <1>4, <2>1, NothingJoins
<1> QED BY <1>4, <1>9, <1>10 DEF wr, sh

-------------------------------------------------------------------------------
(* Where a sequence is cut.                                                *)
LEMMA LesserIs ==
  ASSUME NEW n \in Nat, NEW l \in Nat
  PROVE  Template!Min({n, l}) = IF n <= l THEN n ELSE l
<1> DEFINE k == IF n <= l THEN n ELSE l
<1>1. k \in {n, l} /\ \A y \in {n, l} : k <= y
  OBVIOUS
<1>2. \A j \in {n, l} : (\A y \in {n, l} : j <= y) => j = k
  OBVIOUS
<1> HIDE DEF k
<1> QED BY <1>1, <1>2 DEF Template!Min, k

LEMMA MiddleLength ==
  ASSUME NEW s \in Seq(Glyph), NEW m \in 1..(Len(s) + 1), NEW e \in 0..Len(s)
  PROVE  /\ SubSeq(s, m, e) \in Seq(Glyph)
         /\ Len(SubSeq(s, m, e)) = (IF m <= e THEN e - m + 1 ELSE 0)
         /\ \A i \in 1..(e - m + 1) : SubSeq(s, m, e)[i] = s[m + i - 1]
BY SubSeqProperties

LEMMA MiddleIs ==
  ASSUME NEW a \in Seq(Glyph), NEW b \in Seq(Glyph), NEW c \in Seq(Glyph), NEW s,
         s = a \o (b \o c), NEW m, m = Len(a) + 1, NEW e, e = Len(a) + Len(b)
  PROVE  SubSeq(s, m, e) = b
<1> DEFINE z == b \o c
           n == Len(s)
           v == SubSeq(s, m, e)
<1>1. /\ z \in Seq(Glyph) /\ Len(z) = Len(b) + Len(c) /\ Len(b) \in Nat /\ Len(c) \in Nat
      /\ \A i \in 1..Len(b) : z[i] = b[i]
  BY GlyphsJoined
<1> HIDE DEF z
<1>2. /\ s \in Seq(Glyph) /\ n = Len(a) + Len(z) /\ Len(a) \in Nat
      /\ \A i \in 1..Len(z) : s[Len(a) + i] = z[i]
  BY <1>1, GlyphsJoined DEF z
<1> HIDE DEF n
<1>3. /\ m \in 1..(n + 1) /\ e \in 0..n /\ (m <= e => e - m + 1 = Len(b))
      /\ (~(m <= e) => Len(b) = 0) /\ e - m + 1 = Len(b)
  BY <1>1, <1>2
<1>4. /\ v \in Seq(Glyph) /\ Len(v) = (IF m <= e THEN e - m + 1 ELSE 0)
      /\ \A i \in 1..(e - m + 1) : v[i] = s[m + i - 1]
  <2>1. m \in 1..(Len(s) + 1) /\ e \in 0..Len(s)
    BY <1>3 DEF n
  <2> QED BY <1>2, <2>1, MiddleLength
<1> HIDE DEF v
<1>5. Len(v) = Len(b)
  BY <1>3, <1>4
<1>6. ASSUME NEW i \in 1..Len(v) PROVE v[i] = b[i]
  <2>1. i \in 1..Len(b) /\ i \in 1..(e - m + 1) /\ m + i - 1 = Len(a) + i /\ i \in 1..Len(z)
    BY <1>1, <1>2, <1>3, <1>5
  <2> QED BY <1>1, <1>2, <1>4, <2>1
<1>7. v = b
  BY <1>4, <1>5, <1>6, SeqEqual
<1> QED BY <1>7 DEF v

LEMMA SplitAt ==
  ASSUME NEW s \in Seq(Glyph), NEW n \in 0..Len(s)
  PROVE  \E a \in Seq(Glyph), b \in Seq(Glyph) : s = a \o b /\ Len(a) = n
<1> DEFINE l == Len(s)
           a == SubSeq(s, 1, n)
           b == SubSeq(s, n + 1, l)
           w == a \o b
<1>1. l \in Nat /\ n \in Nat /\ n <= l
  OBVIOUS
<1>2. a \in Seq(Glyph) /\ Len(a) = n /\ \A i \in 1..n : a[i] = s[i]
  <2>1. /\ a \in Seq(Glyph) /\ Len(a) = (IF 1 <= n THEN n - 1 + 1 ELSE 0)
        /\ \A i \in 1..(n - 1 + 1) : a[i] = s[1 + i - 1]
    <3>1. 1 \in 1..(Len(s) + 1)
      BY <1>1
    <3> QED BY <3>1, SubSeqProperties
  <2> HIDE DEF a
  <2> QED BY <1>1, <2>1
<1>3. b \in Seq(Glyph) /\ Len(b) = l - n /\ \A i \in 1..(l - n) : b[i] = s[n + i]
  <2> DEFINE k == n + 1
  <2>1. k \in 1..(Len(s) + 1) /\ l \in 0..Len(s)
    BY <1>1
  <2> HIDE DEF k
  <2>2. /\ SubSeq(s, k, l) \in Seq(Glyph)
        /\ Len(SubSeq(s, k, l)) = (IF k <= l THEN l - k + 1 ELSE 0)
        /\ \A i \in 1..(l - k + 1) : SubSeq(s, k, l)[i] = s[k + i - 1]
    BY <2>1, SubSeqProperties
  <2>3. b = SubSeq(s, k, l)
    BY DEF k
  <2> HIDE DEF b, l
  <2>4. (IF k <= l THEN l - k + 1 ELSE 0) = l - n /\ l - k + 1 = l - n
        /\ \A i \in 1..(l - n) : k + i - 1 = n + i
    BY <1>1 DEF k
  <2> QED BY <2>2, <2>3, <2>4
<1> HIDE DEF a, b
<1>4. /\ w \in Seq(Glyph) /\ Len(w) = Len(a) + Len(b)
      /\ \A i \in 1..Len(a) : w[i] = a[i]
      /\ \A i \in 1..Len(b) : w[Len(a) + i] = b[i]
  BY <1>2, <1>3, GlyphsJoined
<1> HIDE DEF w, l
<1>5. Len(w) = l
  BY <1>1, <1>2, <1>3, <1>4
<1>6. ASSUME NEW i \in 1..l PROVE w[i] = s[i]
  <2>1. i \in 1..n \/ (i - n \in 1..(l - n) /\ n + (i - n) = i)
    BY <1>1
  <2>2. CASE i \in 1..n
    BY <1>2, <1>4, <2>2
  <2>3. CASE i - n \in 1..(l - n) /\ n + (i - n) = i
    <3> DEFINE j == i - n
    <3>1. j \in 1..(l - n) /\ i = n + j
      BY <2>3
    <3> HIDE DEF j
    <3> QED BY <1>2, <1>3, <1>4, <3>1
  <2> QED BY <2>1, <2>2, <2>3
<1>7. w = s
  <2>1. Len(s) = l
    BY DEF l
  <2> QED BY <1>4, <1>5, <1>6, <2>1, SeqEqual
<1> QED BY <1>2, <1>3, <1>7 DEF w

LEMMA SameCut ==
  ASSUME NEW a \in Seq(Glyph), NEW y \in Seq(Glyph), NEW x \in Seq(Glyph), NEW u \in Seq(Glyph),
         a \o y = x \o u, Len(x) = Len(a)
  PROVE  a = x /\ y = u
<1>1. CutAt(a, y, x, u)
  <2>1. Len(x) <= Len(a)
    OBVIOUS
  <2> QED BY <2>1 DEF CutAt
<1>2. PICK b : Between2(a, y, x, u, b)
  BY <1>1, CutTwice
<1>3. Len(b) = 0
  <2>1. Len(a) \in Nat /\ Len(x) \in Nat /\ Len(b) \in Nat /\ Len(a) = Len(x) + Len(b)
    BY <1>2 DEF Between2
  <2> QED BY <2>1
<1>4. b = <<>> /\ u = b \o y /\ a = x \o b
  BY <1>2, <1>3, EmptySeq DEF Between2
<1> QED BY <1>4, NothingJoins

(* First and Beyond of a sequence of two parts, and beyond its end.        *)
Halves(s, n, a, b) == a \in Seq(Glyph) /\ b \in Seq(Glyph) /\ s = a \o b /\ n = Len(a)

LEMMA FirstIs ==
  ASSUME NEW a, NEW b, NEW s, NEW n, Halves(s, n, a, b)
  PROVE  Template!First(s, n) = a /\ Template!Beyond(s, n) = b
<1>0. a \in Seq(Glyph) /\ b \in Seq(Glyph) /\ s = a \o b /\ n = Len(a)
  BY DEF Halves
<1>1. /\ s \in Seq(Glyph) /\ Len(s) = Len(a) + Len(b) /\ Len(a) \in Nat /\ Len(b) \in Nat
  BY <1>0, GlyphsJoined
<1>2. Template!Min({n, Len(s)}) = n
  <2>1. n \in Nat /\ Len(s) \in Nat /\ n <= Len(s)
    BY <1>0, <1>1
  <2> DEFINE l == Len(s)
  <2> HIDE DEF l
  <2>2. Template!Min({n, l}) = IF n <= l THEN n ELSE l
    BY <2>1, LesserIs DEF l
  <2> QED BY <2>1, <2>2 DEF l
<1>3. SubSeq(s, 1, n) = a
  <2>1. <<>> \in Seq(Glyph) /\ Len(<<>>) = 0 /\ 1 = 0 + 1
    OBVIOUS
  <2>2. s = <<>> \o (a \o b)
    BY <1>0, <1>1, NothingJoins
  <2>3. n = Len(<<>>) + Len(a) /\ 1 = Len(<<>>) + 1
    BY <1>0, <1>1, <2>1
  <2> QED BY <1>0, <2>1, <2>2, <2>3, MiddleIs
<1>4. SubSeq(s, n + 1, Len(s)) = b
  <2>1. b \o <<>> = b /\ <<>> \in Seq(Glyph)
    BY <1>0, NothingJoins
  <2>2. s = a \o (b \o <<>>)
    BY <1>0, <2>1
  <2>3. n + 1 = Len(a) + 1 /\ Len(s) = Len(a) + Len(b)
    BY <1>0, <1>1
  <2> QED BY <1>0, <2>1, <2>2, <2>3, MiddleIs
<1> QED BY <1>2, <1>3, <1>4 DEF Template!First, Template!Beyond

LEMMA FirstAll ==
  ASSUME NEW s \in Seq(Glyph), NEW n \in Nat, n >= Len(s)
  PROVE  Template!First(s, n) = s /\ Template!Beyond(s, n) = <<>>
<1> DEFINE l == Len(s)
<1>1. l \in Nat /\ n >= l
  OBVIOUS
<1>2. s = s \o <<>> /\ <<>> \in Seq(Glyph)
  BY NothingJoins
<1>3. Template!First(s, l) = s /\ Template!Beyond(s, l) = <<>>
  <2> DEFINE z == <<>>
  <2>1. z \in Seq(Glyph) /\ s = s \o z /\ l = Len(s)
    BY <1>2
  <2> HIDE DEF z, l
  <2>2. Template!First(s, l) = s /\ Template!Beyond(s, l) = z
    <3>1. Halves(s, l, s, z)
      BY <2>1 DEF Halves, l
    <3> QED BY <3>1, FirstIs
  <2> QED BY <2>2 DEF z, l
<1>4. Template!Min({n, l}) = Template!Min({l, l})
  <2> HIDE DEF l
  <2>1. Template!Min({n, l}) = (IF n <= l THEN n ELSE l) /\ Template!Min({l, l}) = l
    BY <1>1, LesserIs
  <2> QED BY <1>1, <2>1
<1> QED BY <1>3, <1>4 DEF Template!First, Template!Beyond

Chopped(s, n, a, b) ==
  /\ a \in Seq(Glyph) /\ b \in Seq(Glyph) /\ s = a \o b
  /\ Len(a) <= n /\ (Len(a) < n => b = <<>>) /\ (n <= Len(s) => Len(a) = n)

LEMMA CutIs ==
  ASSUME NEW s, s \in Seq(Glyph), NEW n, n \in Nat
  PROVE  Chopped(s, n, Template!First(s, n), Template!Beyond(s, n))
<1>0. Len(s) \in Nat
  OBVIOUS
<1>1. CASE n <= Len(s)
  <2>1. n \in 0..Len(s)
    BY <1>0, <1>1
  <2>2. PICK a \in Seq(Glyph), b \in Seq(Glyph) : s = a \o b /\ Len(a) = n
    BY <2>1, SplitAt
  <2>3. Template!First(s, n) = a /\ Template!Beyond(s, n) = b
    <3>1. Halves(s, n, a, b)
      BY <2>2 DEF Halves
    <3> QED BY <3>1, FirstIs
  <2>4. Len(a) <= n /\ ~(Len(a) < n)
    BY <2>2
  <2> QED BY <2>2, <2>3, <2>4 DEF Chopped
<1>2. CASE n > Len(s)
  <2>1. Template!First(s, n) = s /\ Template!Beyond(s, n) = <<>>
    <3>1. n >= Len(s)
      BY <1>0, <1>2
    <3> QED BY <3>1, FirstAll
  <2>2. s = s \o <<>> /\ <<>> \in Seq(Glyph)
    BY NothingJoins
  <2>3. Len(s) <= n /\ ~(n <= Len(s))
    BY <1>0, <1>2
  <2> QED BY <2>1, <2>2, <2>3 DEF Chopped
<1> QED BY <1>0, <1>1, <1>2

(* Where the next percent sign is.                                         *)
LEMMA SignFrom ==
  ASSUME NEW s \in Seq(Glyph), NEW from \in 1..(Len(s) + 1)
  PROVE  /\ (\A i \in from..Len(s) : s[i] # Percent) => Template!percentFrom(s, from) = 0
         /\ \A j \in from..Len(s) :
              s[j] = Percent /\ (\A i \in from..(j - 1) : s[i] # Percent)
                => Template!percentFrom(s, from) = j
<1> DEFINE n == Len(s)
           t == SubSeq(s, from, n)
           I == {i \in 1..Len(t) : t[i] = Percent}
           at == IF I # {} THEN Template!Min(I) ELSE 0
<1>0. n \in Nat /\ from \in Nat /\ from >= 1 /\ from <= n + 1
  OBVIOUS
<1>1. Template!percentFrom(s, from) = IF at = 0 THEN 0 ELSE from - 1 + at
  BY DEF Template!percentFrom, Template!SelectInSeq
<1>2. Len(t) = n - from + 1 /\ \A i \in 1..(n - from + 1) : t[i] = s[from + i - 1]
  <2>1. /\ Len(t) = (IF from <= n THEN n - from + 1 ELSE 0)
        /\ \A i \in 1..(n - from + 1) : t[i] = s[from + i - 1]
    <3>1. n \in 0..Len(s)
      BY <1>0
    <3> QED BY <3>1, SubSeqProperties
  <2> HIDE DEF t, n
  <2> QED BY <1>0, <2>1
<1> HIDE DEF t, at
<1>3. ASSUME \A i \in from..n : s[i] # Percent PROVE Template!percentFrom(s, from) = 0
  <2>1. I = {}
    <3> SUFFICES ASSUME NEW i \in I PROVE FALSE
      OBVIOUS
    <3> HIDE DEF n
    <3>1. i \in 1..(n - from + 1) /\ t[i] = Percent
      BY <1>2
    <3>2. from + i - 1 \in from..n
      BY <1>0, <3>1
    <3> QED BY <1>2, <1>3, <3>1, <3>2
  <2> QED BY <1>1, <2>1 DEF at
<1>4. ASSUME NEW j \in from..n, s[j] = Percent, \A i \in from..(j - 1) : s[i] # Percent
      PROVE  Template!percentFrom(s, from) = j
  <2> DEFINE k == j - from + 1
  <2>1. k \in 1..(n - from + 1) /\ from + k - 1 = j /\ k # 0 /\ k \in Nat
    <3> HIDE DEF n
    <3> QED BY <1>0
  <2>2. I \subseteq Nat
    OBVIOUS
  <2> HIDE DEF k, n
  <2>3. k \in I
    BY <1>2, <1>4, <2>1
  <2>4. ASSUME NEW y \in I PROVE k <= y
    <3>1. y \in 1..(n - from + 1) /\ t[y] = Percent
      BY <1>2
    <3>2. s[from + y - 1] = Percent
      BY <1>2, <3>1
    <3> SUFFICES ASSUME y < k PROVE FALSE
      BY <2>1, <3>1
    <3>3. from + y - 1 \in from..(j - 1)
      BY <1>0, <2>1, <3>1
    <3> QED BY <1>4, <3>2, <3>3
  <2> HIDE DEF I
  <2>5. \A x \in I : (\A y \in I : x <= y) => x = k
    BY <2>1, <2>2, <2>3, <2>4
  <2>6. Template!Min(I) = k
    BY <2>3, <2>4, <2>5 DEF Template!Min
  <2>7. at = k
    BY <2>3, <2>6 DEF at
  <2>8. from - 1 + k = j
    BY <1>0, <2>1
  <2> QED BY <1>1, <2>1, <2>7, <2>8
<1> QED BY <1>3, <1>4

(* What a turn of the loop works on, and what the buffer and what follows  *)
(* it are together.                                                        *)
Draft == [data : Seq(Glyph), rest : Seq(Glyph), at : {1}]
Filled(d, size, w) ==
  /\ d \in Draft /\ d.data \o d.rest = w
  /\ Len(d.data) <= size /\ (Len(d.data) < size => d.rest = <<>>)

LEMMA ReadIs ==
  ASSUME NEW d \in Draft, NEW size \in Nat, Len(d.data) <= size
  PROVE  Filled(Template!readData(d, size - Len(d.data)), size, d.data \o d.rest)
<1> DEFINE n == size - Len(d.data)
           t == Template!readData(d, n)
           x == d.data
<1>1. x \in Seq(Glyph) /\ d.rest \in Seq(Glyph) /\ Len(x) \in Nat /\ n \in Nat
      /\ n = size - Len(x) /\ d.at = 1
  BY DEF Draft
<1> HIDE DEF n
<1> DEFINE a == Template!First(d.rest, n)
           b == Template!Beyond(d.rest, n)
<1>2. /\ a \in Seq(Glyph) /\ b \in Seq(Glyph) /\ d.rest = a \o b
      /\ Len(a) <= n /\ (Len(a) < n => b = <<>>)
  <2>1. Chopped(d.rest, n, a, b)
    BY <1>1, CutIs
  <2> QED BY <2>1 DEF Chopped
<1>3. /\ t = [d EXCEPT !.data = x \o a, !.rest = b]
      /\ t.data = x \o a /\ t.rest = b /\ t.at = 1
  BY <1>1, <1>2 DEF Template!readData, Draft
<1> HIDE DEF a, b
<1>4. x \o a \in Seq(Glyph) /\ Len(x \o a) = Len(x) + Len(a) /\ Len(a) \in Nat
  BY <1>1, <1>2, GlyphsJoined
<1>5. t \in Draft
  BY <1>1, <1>2, <1>3, <1>4 DEF Draft
<1> HIDE DEF t, x
<1>6. t.data \o t.rest = x \o d.rest
  <2>1. Joins(x, a, b)
    BY <1>1, <1>2, GlyphsJoin
  <2> QED BY <1>2, <1>3, <2>1 DEF Joins
<1>7. Len(t.data) <= size /\ (Len(t.data) < size => t.rest = <<>>)
  <2>1. Len(t.data) = Len(x) + Len(a)
    BY <1>3, <1>4
  <2>2. Len(t.data) <= size
    BY <1>1, <1>2, <1>4, <2>1
  <2>3. ASSUME Len(t.data) < size PROVE b = <<>>
    <3>1. Len(a) < n
      BY <1>1, <1>4, <2>1, <2>3
    <3> QED BY <1>2, <3>1
  <2> QED BY <1>3, <2>2, <2>3
<1> QED BY <1>5, <1>6, <1>7 DEF Filled, t, x, n

(* A placeholder y of the buffer, and the value v that takes its place.    *)
Spot(d, size, a, y, x, v) ==
  /\ d \in Draft /\ size \in Nat
  /\ a \in Seq(Glyph) /\ y \in Seq(Glyph) /\ x \in Seq(Glyph) /\ v \in Seq(Glyph)
  /\ d.data = a \o (y \o x) /\ Len(d.data) <= size
  /\ Len(d.data) < size => d.rest = <<>> /\ Len(v) <= Len(y) + 1

LEMMA SpotIs ==
  ASSUME NEW d, NEW size, NEW a, NEW y, NEW x, NEW v, Spot(d, size, a, y, x, v)
  PROVE  /\ Len(d.data) = Len(a) + Len(y) + Len(x)
         /\ Len(a) \in Nat /\ Len(y) \in Nat /\ Len(x) \in Nat /\ Len(v) \in Nat /\ size \in Nat
         /\ SubSeq(d.data, 1, (Len(a) + 1) - 1) = a
         /\ Template!Beyond(d.data, Len(a) + Len(y)) = x
<1>0. /\ a \in Seq(Glyph) /\ y \in Seq(Glyph) /\ x \in Seq(Glyph) /\ v \in Seq(Glyph)
      /\ d.data = a \o (y \o x) /\ size \in Nat
  BY DEF Spot
<1> DEFINE s == d.data
           z == y \o x
           w == a \o y
<1>1. z \in Seq(Glyph) /\ Len(z) = Len(y) + Len(x) /\ Len(y) \in Nat /\ Len(x) \in Nat
  BY <1>0, GlyphsJoined
<1>2. w \in Seq(Glyph) /\ Len(w) = Len(a) + Len(y)
  BY <1>0, GlyphsJoined
<1>3. Joins(a, y, x)
  BY <1>0, GlyphsJoin
<1>4. s = a \o z /\ s = w \o x
  BY <1>0, <1>3 DEF Joins
<1> HIDE DEF s, z, w
<1>5. s \in Seq(Glyph) /\ Len(s) = Len(a) + Len(z) /\ Len(a) \in Nat
  <2>1. a \o z \in Seq(Glyph) /\ Len(a \o z) = Len(a) + Len(z) /\ Len(a) \in Nat
    BY <1>0, <1>1, GlyphsJoined
  <2> QED BY <1>4, <2>1
<1>6. SubSeq(s, 1, (Len(a) + 1) - 1) = a
  <2> DEFINE e == <<>>
  <2>1. e \in Seq(Glyph) /\ Len(e) = 0
    OBVIOUS
  <2>2. s = e \o (a \o z)
    BY <1>4, <1>5, NothingJoins
  <2> HIDE DEF e
  <2>3. (Len(a) + 1) - 1 = Len(e) + Len(a) /\ 1 = Len(e) + 1
    BY <1>5, <2>1
  <2> QED BY <1>0, <1>1, <2>1, <2>2, <2>3, MiddleIs
<1>7. Template!Beyond(s, Len(a) + Len(y)) = x
  <2>1. Halves(s, Len(a) + Len(y), w, x)
    BY <1>0, <1>2, <1>4 DEF Halves
  <2> QED BY <2>1, FirstIs
<1>8. Len(v) \in Nat
  BY <1>0
<1>9. Len(s) = Len(a) + Len(y) + Len(x)
  BY <1>1, <1>5
<1> QED BY <1>0, <1>1, <1>5, <1>6, <1>7, <1>8, <1>9 DEF s

LEMMA ReplacedIs ==
  ASSUME NEW d, NEW size, NEW a, NEW y, NEW x, NEW v, Spot(d, size, a, y, x, v)
  PROVE  Filled(Template!replaced(d, size, Len(a) + 1, Len(a) + Len(y), v), size,
                a \o (v \o (x \o d.rest)))
<1>0. /\ a \in Seq(Glyph) /\ y \in Seq(Glyph) /\ x \in Seq(Glyph) /\ v \in Seq(Glyph)
      /\ d.data = a \o (y \o x) /\ d \in Draft /\ size \in Nat
  BY DEF Spot
<1> DEFINE z == d.rest
           b == Len(a) + 1
           e == Len(a) + Len(y)
           n == Template!Min({Len(v), size - b + 1})
           f == Template!First(v, n)
           g == Template!Beyond(v, n)
           whole == (a \o f) \o x
           t == Template!replaced(d, size, b, e, v)
<1>1. /\ Len(d.data) = Len(a) + Len(y) + Len(x)
      /\ Len(a) \in Nat /\ Len(y) \in Nat /\ Len(x) \in Nat /\ Len(v) \in Nat
      /\ SubSeq(d.data, 1, b - 1) = a /\ Template!Beyond(d.data, e) = x
  BY SpotIs
<1>2. /\ Len(d.data) <= size
      /\ Len(d.data) < size => z = <<>> /\ Len(v) <= Len(y) + 1
  BY DEF Spot
<1>3. z \in Seq(Glyph) /\ d.at = 1
  BY <1>0 DEF Draft
<1>4. n = (IF Len(v) <= size - Len(a) THEN Len(v) ELSE size - Len(a)) /\ n \in Nat /\ n <= Len(v)
  <2> DEFINE l == Len(v)
             h == size - Len(a)
  <2>1. l \in Nat /\ h \in Nat /\ size - b + 1 = h
    BY <1>0, <1>1, <1>2
  <2> HIDE DEF l, h
  <2>2. Template!Min({l, h}) = IF l <= h THEN l ELSE h
    BY <2>1, LesserIs
  <2>3. n = Template!Min({l, h})
    BY <2>1 DEF l
  <2> HIDE DEF n
  <2> QED BY <2>1, <2>2, <2>3 DEF l, h
<1> HIDE DEF n
<1>5. f \in Seq(Glyph) /\ g \in Seq(Glyph) /\ v = f \o g /\ Len(f) = n /\ Len(v) = n + Len(g)
      /\ Len(g) \in Nat
  <2>1. f \in Seq(Glyph) /\ g \in Seq(Glyph) /\ v = f \o g /\ Len(f) = n
    <3>1. Chopped(v, n, f, g)
      BY <1>0, <1>4, CutIs
    <3> QED BY <1>4, <3>1 DEF Chopped
  <2> HIDE DEF f, g
  <2>2. Len(f \o g) = Len(f) + Len(g) /\ Len(g) \in Nat
    BY <2>1, GlyphsJoined
  <2> QED BY <2>1, <2>2
<1>6. t = LET cut == [d EXCEPT !.rest = (g \o Template!Beyond(whole, size)) \o z]
          IN IF Len(whole) > size THEN [cut EXCEPT !.data = Template!First(whole, size)]
             ELSE IF n < Len(v) THEN [cut EXCEPT !.data = Template!First(whole, Len(d.data))]
             ELSE IF n < e + 1 - b
             THEN Template!readData([d EXCEPT !.data = whole], size - Len(whole))
             ELSE [d EXCEPT !.data = whole]
  BY <1>1 DEF Template!replaced, n
<1> HIDE DEF f, g, t, b
<1>7. /\ a \o f \in Seq(Glyph) /\ Len(a \o f) = Len(a) + n
      /\ whole \in Seq(Glyph) /\ Len(whole) = Len(a) + n + Len(x)
  <2> DEFINE i == a \o f
  <2>1. i \in Seq(Glyph) /\ Len(i) = Len(a) + Len(f)
    BY <1>0, <1>5, GlyphsJoined
  <2> HIDE DEF i
  <2>2. i \o x \in Seq(Glyph) /\ Len(i \o x) = Len(i) + Len(x)
    BY <1>0, <2>1, GlyphsJoined
  <2> QED BY <1>5, <2>1, <2>2 DEF i
<1> DEFINE W == whole
           A == Template!First(W, size)
           B == Template!Beyond(W, size)
<1>8. W \in Seq(Glyph) /\ Len(W) = Len(a) + n + Len(x) /\ W = (a \o f) \o x /\ Len(W) \in Nat
  BY <1>1, <1>4, <1>7
<1>9. e + 1 - b = Len(y) /\ b \in Nat
  BY <1>1 DEF b
<1>10. t = LET cut == [d EXCEPT !.rest = (g \o B) \o z]
           IN IF Len(W) > size THEN [cut EXCEPT !.data = A]
              ELSE IF n < Len(v) THEN [cut EXCEPT !.data = Template!First(W, Len(d.data))]
              ELSE IF n < Len(y)
              THEN Template!readData([d EXCEPT !.data = W], size - Len(W))
              ELSE [d EXCEPT !.data = W]
  BY <1>6, <1>9
<1> HIDE DEF W, e, z
(* The value is cut: its part fills the buffer. *)
<1>11. CASE n < Len(v)
  <2> DEFINE i == a \o f
  <2>1. Len(i) = size /\ i \in Seq(Glyph) /\ W = i \o x
    <3>1. n = size - Len(a)
      BY <1>4, <1>11
    <3> HIDE DEF W
    <3> QED BY <1>0, <1>1, <1>7, <1>8, <3>1
  <2> HIDE DEF i
  <2>2. A = i /\ B = x
    <3>1. Halves(W, size, i, x)
      BY <1>0, <2>1 DEF Halves
    <3> QED BY <3>1, FirstIs
  <2>3. ~(Len(W) > size) => Len(d.data) = size
    <3> SUFFICES ASSUME ~(Len(W) > size), Len(d.data) # size PROVE FALSE
      OBVIOUS
    <3>1. Len(x) = 0 /\ n = size - Len(a)
      BY <1>0, <1>1, <1>4, <1>8, <1>11
    <3>2. Len(v) <= Len(y) + 1 /\ Len(d.data) < size
      <4>1. Len(d.data) < size
        <5> DEFINE k == Len(d.data)
        <5>1. k \in Nat /\ k <= size /\ k # size
          BY <1>1, <1>2
        <5> HIDE DEF k
        <5>2. k < size
          BY <1>0, <5>1
        <5> QED BY <5>2 DEF k
      <4> QED BY <1>2, <4>1
    <3>3. Len(a) + Len(y) < size
      BY <1>1, <3>1, <3>2
    <3> QED BY <1>0, <1>1, <1>4, <1>11, <3>1, <3>2, <3>3
  <2>4. t = [d EXCEPT !.data = i, !.rest = (g \o x) \o z]
    <3>1. t = [[d EXCEPT !.rest = (g \o B) \o z] EXCEPT !.data = A]
      <4>1. CASE Len(W) > size
        BY <1>10, <4>1
      <4>2. CASE ~(Len(W) > size)
        BY <1>10, <1>11, <2>3, <4>2
      <4> QED BY <4>1, <4>2
    <3> HIDE DEF A, B
    <3> QED BY <1>0, <2>2, <3>1 DEF Draft
  <2>5. g \o x \in Seq(Glyph) /\ (g \o x) \o z \in Seq(Glyph)
    BY <1>0, <1>3, <1>5, GlyphsJoined
  <2>6. t \in Draft /\ t.data = i /\ t.rest = (g \o x) \o z
    BY <1>0, <2>1, <2>4, <2>5 DEF Draft
  <2>7. t.data \o t.rest = a \o (v \o (x \o z))
    <3> DEFINE j == x \o z
    <3>1. j \in Seq(Glyph) /\ g \o j \in Seq(Glyph)
      BY <1>0, <1>3, <1>5, GlyphsJoined
    <3>2. (g \o x) \o z = g \o j
      <4>1. Joins(g, x, z)
        BY <1>0, <1>3, <1>5, GlyphsJoin
      <4> QED BY <4>1 DEF Joins
    <3> HIDE DEF j
    <3>3. i \o (g \o j) = a \o (f \o (g \o j))
      <4> DEFINE h == g \o j
      <4>1. h \in Seq(Glyph)
        BY <3>1
      <4> HIDE DEF h
      <4>2. Joins(a, f, h)
        BY <1>0, <1>5, <4>1, GlyphsJoin
      <4> QED BY <4>2 DEF Joins, h, i
    <3>4. f \o (g \o j) = v \o j
      BY <1>5, <3>1, GlyphsJoin DEF Joins
    <3> QED BY <2>6, <3>2, <3>3, <3>4 DEF j
  <2>8. Len(t.data) <= size /\ ~(Len(t.data) < size)
    BY <1>0, <2>1, <2>6
  <2> QED BY <2>6, <2>7, <2>8 DEF Filled, t, b, e, z
(* All of the value is in the buffer, or what follows it goes to the cache. *)
<1>12. CASE ~(n < Len(v))
  <2>1. g = <<>> /\ f = v /\ n = Len(v)
    <3>1. Len(g) = 0 /\ n = Len(v)
      BY <1>1, <1>4, <1>5, <1>12
    <3>2. g = <<>>
      BY <1>5, <3>1, EmptySeq
    <3> QED BY <1>5, <3>1, <3>2, NothingJoins
  <2>2. W \o z = a \o (v \o (x \o z))
    <3> DEFINE i == a \o f
               j == x \o z
    <3>1. i \in Seq(Glyph) /\ j \in Seq(Glyph) /\ W = i \o x
      BY <1>0, <1>3, <1>7, <1>8, GlyphsJoined
    <3> HIDE DEF i, j
    <3>2. (i \o x) \o z = i \o j
      <4>1. Joins(i, x, z)
        BY <1>0, <1>3, <3>1, GlyphsJoin
      <4> QED BY <4>1 DEF Joins, j
    <3>3. i \o j = a \o (v \o j)
      BY <1>0, <2>1, <3>1, GlyphsJoin, SMTT(20) DEF Joins, i
    <3> QED BY <3>1, <3>2, <3>3 DEF j
  <2>3. CASE Len(W) > size
    <3>1. A \in Seq(Glyph) /\ B \in Seq(Glyph) /\ W = A \o B /\ Len(A) = size
      <4>1. Chopped(W, size, A, B)
        BY <1>0, <1>8, CutIs
      <4>2. size <= Len(W)
        BY <1>0, <1>8, <2>3
      <4> HIDE DEF A, B
      <4> QED BY <4>1, <4>2 DEF Chopped
    <3>2. t = [[d EXCEPT !.rest = (g \o B) \o z] EXCEPT !.data = A]
      BY <1>10, <2>3
    <3> HIDE DEF A, B
    <3>3. g \o B = B
      BY <2>1, <3>1, NothingJoins
    <3>4. B \o z \in Seq(Glyph)
      BY <1>3, <3>1, GlyphsJoined
    <3>5. t \in Draft /\ t.data = A /\ t.rest = B \o z
      BY <1>0, <3>1, <3>2, <3>3, <3>4 DEF Draft
    <3>6. A \o (B \o z) = W \o z
      BY <1>3, <3>1, GlyphsJoin DEF Joins
    <3>7. Len(t.data) <= size /\ ~(Len(t.data) < size)
      BY <1>0, <3>1, <3>5
    <3> QED BY <2>2, <3>5, <3>6, <3>7 DEF Filled, t, b, e, z
  <2>4. CASE ~(Len(W) > size) /\ n < Len(y)
    <3> DEFINE u == [d EXCEPT !.data = W]
    <3>1. u \in Draft /\ u.data = W /\ u.rest = z
      BY <1>0, <1>8 DEF Draft, z
    <3>2. t = Template!readData(u, size - Len(W))
      BY <1>10, <1>12, <2>4
    <3>3. Len(W) <= size
      BY <1>0, <1>8, <2>4
    <3> HIDE DEF u
    <3>4. Filled(Template!readData(u, size - Len(u.data)), size, u.data \o u.rest)
      BY <1>0, <3>1, <3>3, ReadIs
    <3> QED BY <2>2, <3>1, <3>2, <3>4 DEF t, b, e, z
  <2>5. CASE ~(Len(W) > size) /\ ~(n < Len(y))
    <3>1. t = [d EXCEPT !.data = W]
      BY <1>10, <1>12, <2>5
    <3>2. t \in Draft /\ t.data = W /\ t.rest = z
      BY <1>0, <1>8, <3>1 DEF Draft, z
    <3>3. Len(W) <= size
      BY <1>0, <1>8, <2>5
    <3>4. ASSUME Len(W) < size PROVE z = <<>>
      <4>1. Len(d.data) < size
        BY <1>0, <1>1, <1>4, <1>8, <2>5, <3>4
      <4> QED BY <1>2, <4>1
    <3> QED BY <2>2, <3>2, <3>3, <3>4 DEF Filled, t, b, e, z
  <2> QED BY <2>3, <2>4, <2>5
<1> QED BY <1>11, <1>12

(* The first percent sign behind a, with the text b before it.             *)
Marked(s, a, b, c) ==
  a \in Seq(Glyph) /\ Plain(b) /\ c \in Seq(Glyph) /\ s = a \o (b \o (Sign \o c))

LEMMA MarkedAt ==
  ASSUME NEW s, NEW a, NEW b, NEW c, Marked(s, a, b, c)
  PROVE  /\ Template!percentFrom(s, Len(a) + 1) = Len(a) + Len(b) + 1
         /\ s \in Seq(Glyph) /\ Len(s) = Len(a) + Len(b) + 1 + Len(c)
         /\ Len(a) \in Nat /\ Len(b) \in Nat /\ Len(c) \in Nat
<1> DEFINE x == Sign \o c
           y == b \o x
<1>1. a \in Seq(Glyph) /\ Plain(b) /\ b \in Seq(Glyph) /\ c \in Seq(Glyph) /\ s = a \o y
  BY DEF Marked, Plain
<1>2. /\ x \in Seq(Glyph) /\ Len(x) = 1 + Len(c) /\ x[1] = Percent
      /\ Len(a) \in Nat /\ Len(b) \in Nat /\ Len(c) \in Nat
  <2>1. /\ x \in Seq(Glyph) /\ Len(x) = Len(Sign) + Len(c)
        /\ \A i \in 1..Len(Sign) : x[i] = Sign[i]
    BY <1>1, SignIs, GlyphsJoined
  <2>2. 1 \in 1..Len(Sign)
    BY SignIs
  <2> QED BY <1>1, <2>1, <2>2, SignIs
<1> HIDE DEF x
<1>3. /\ y \in Seq(Glyph) /\ Len(y) = Len(b) + Len(x)
      /\ \A i \in 1..Len(b) : y[i] = b[i]
      /\ \A i \in 1..Len(x) : y[Len(b) + i] = x[i]
  BY <1>1, <1>2, GlyphsJoined
<1> HIDE DEF y
<1>4. a \o y \in Seq(Glyph) /\ Len(a \o y) = Len(a) + Len(y)
      /\ \A i \in 1..Len(y) : (a \o y)[Len(a) + i] = y[i]
  BY <1>1, <1>3, GlyphsJoined
<1>5. s \in Seq(Glyph) /\ Len(s) = Len(a) + Len(y) /\ \A i \in 1..Len(y) : s[Len(a) + i] = y[i]
  BY <1>1, <1>4
<1> DEFINE n == Len(a)
           j == Len(a) + Len(b) + 1
           f == Len(a) + 1
<1>6. Len(s) = Len(a) + Len(b) + 1 + Len(c)
  BY <1>2, <1>3, <1>5
<1>7. f \in 1..(Len(s) + 1) /\ j \in f..Len(s)
  BY <1>2, <1>6
<1>8. s[j] = Percent
  <2>1. 1 \in 1..Len(x) /\ Len(b) + 1 \in 1..Len(y) /\ j = Len(a) + (Len(b) + 1)
    BY <1>2, <1>3
  <2> HIDE DEF j
  <2>2. y[Len(b) + 1] = Percent
    BY <1>2, <1>3, <2>1
  <2> QED BY <1>5, <2>1, <2>2
<1>9. ASSUME NEW i \in f..(j - 1) PROVE s[i] # Percent
  <2> DEFINE k == i - Len(a)
  <2>1. k \in 1..Len(b) /\ k \in 1..Len(y) /\ i = Len(a) + k
    BY <1>2, <1>3
  <2> HIDE DEF k, f, j
  <2>2. y[k] # Percent
    BY <1>1, <1>3, <2>1 DEF Plain
  <2> QED BY <1>5, <2>1, <2>2
<1> HIDE DEF f, j
<1>10. Template!percentFrom(s, f) = j
  BY <1>5, <1>7, <1>8, <1>9, SignFrom
<1> QED BY <1>2, <1>5, <1>6, <1>10 DEF f, j

LEMMA Unmarked ==
  ASSUME NEW s, NEW a, NEW b, a \in Seq(Glyph), Plain(b), s = a \o b
  PROVE  Template!percentFrom(s, Len(a) + 1) = 0
<1> DEFINE f == Len(a) + 1
           w == a \o b
<1>1. b \in Seq(Glyph)
  BY DEF Plain
<1>2. /\ w \in Seq(Glyph) /\ Len(w) = Len(a) + Len(b) /\ Len(a) \in Nat /\ Len(b) \in Nat
      /\ \A i \in 1..Len(b) : w[Len(a) + i] = b[i]
  BY <1>1, GlyphsJoined
<1> HIDE DEF w
<1>3. f \in 1..(Len(w) + 1)
  BY <1>2
<1>4. ASSUME NEW i \in f..Len(w) PROVE w[i] # Percent
  <2> DEFINE k == i - Len(a)
  <2>1. k \in 1..Len(b) /\ i = Len(a) + k
    BY <1>2
  <2> HIDE DEF k, f
  <2> QED BY <1>2, <2>1 DEF Plain
<1> HIDE DEF f
<1>5. Template!percentFrom(w, f) = 0
  BY <1>2, <1>3, <1>4, SignFrom
<1> QED BY <1>5 DEF f, w

(* What is before the buffer's end, of a placeholder and the text around.  *)
Apart(s, z, a, p, u) == Plain(s)
Within(s, z, a, p, u) == \E x \in Seq(Glyph) : s = Behind(a, p, x) /\ u = x \o z
Across(s, z, a, p, u) ==
  \E q \in Seq(Glyph), h \in Seq(Glyph) :
    s = a \o (Sign \o q) /\ z = h \o (Sign \o u) /\ p = q \o h

LEMMA BufferEnds ==
  ASSUME NEW s \in Seq(Glyph), NEW z \in Seq(Glyph), NEW a, Plain(a), NEW p \in Names,
         NEW u \in Seq(Glyph), s \o z = Behind(a, p, u)
  PROVE  Apart(s, z, a, p, u) \/ Within(s, z, a, p, u) \/ Across(s, z, a, p, u)
<1> DEFINE z3 == Sign \o u
           z2 == p \o z3
           z1 == Sign \o z2
<1>0. /\ a \in Seq(Glyph) /\ p \in Seq(Glyph) /\ Sign \in Seq(Glyph) /\ Len(Sign) = 1
      /\ z1 \in Seq(Glyph) /\ z2 \in Seq(Glyph) /\ z3 \in Seq(Glyph) /\ s \o z = a \o z1
      /\ z1 = Sign \o z2 /\ z2 = p \o z3 /\ z3 = Sign \o u
      /\ Len(a) \in Nat /\ Len(p) \in Nat /\ Len(s) \in Nat
  <2>1. /\ a \in Seq(Glyph) /\ p \in Seq(Glyph)
        /\ z1 \in Seq(Glyph) /\ z2 \in Seq(Glyph) /\ z3 \in Seq(Glyph)
        /\ Len(a) \in Nat /\ Len(p) \in 1..NameLength
    BY BehindIs
  <2>2. s \o z = a \o z1 /\ Len(p) \in Nat
    BY <2>1 DEF Behind
  <2> QED BY <2>1, <2>2, SignIs
<1> HIDE DEF z1, z2, z3
<1>1. CASE Len(s) <= Len(a)
  <2>1. CutAt(a, z1, s, z)
    BY <1>0, <1>1 DEF CutAt
  <2>2. PICK b : Between2(a, z1, s, z, b)
    BY <2>1, CutTwice
  <2>3. b \in Seq(Glyph) /\ a = s \o b
    BY <2>2 DEF Between2
  <2>4. Plain(s)
    BY <2>3, PlainParts
  <2> QED BY <2>4 DEF Apart
<1>2. CASE ~(Len(s) <= Len(a))
  <2>1. CutAt(s, z, a, z1)
    <3>1. Len(a) <= Len(s)
      BY <1>0, <1>2
    <3> QED BY <1>0, <3>1 DEF CutAt
  <2>2. PICK b1 : Between2(s, z, a, z1, b1)
    BY <2>1, CutTwice
  <2>3. b1 \in Seq(Glyph) /\ s = a \o b1 /\ z1 = b1 \o z /\ Len(s) = Len(a) + Len(b1)
        /\ Len(b1) \in Nat
    BY <2>2 DEF Between2
  <2>4. 1 <= Len(b1)
    BY <1>0, <1>2, <2>3
  <2>5. CutAt(b1, z, Sign, z2)
    BY <1>0, <2>3, <2>4 DEF CutAt
  <2>6. PICK q : Between2(b1, z, Sign, z2, q)
    BY <2>5, CutTwice
  <2>7. q \in Seq(Glyph) /\ b1 = Sign \o q /\ z2 = q \o z /\ Len(q) \in Nat
    BY <2>6 DEF Between2
  <2>8. CASE Len(q) <= Len(p)
    <3>1. CutAt(p, z3, q, z)
      BY <1>0, <2>7, <2>8 DEF CutAt
    <3>2. PICK h : Between2(p, z3, q, z, h)
      BY <3>1, CutTwice
    <3>3. h \in Seq(Glyph) /\ p = q \o h /\ z = h \o z3
      BY <3>2 DEF Between2
    <3>4. Across(s, z, a, p, u)
      BY <1>0, <2>3, <2>7, <3>3 DEF Across
    <3> QED BY <3>4
  <2>9. CASE ~(Len(q) <= Len(p))
    <3>1. CutAt(q, z, p, z3)
      <4>1. Len(p) <= Len(q)
        BY <1>0, <2>7, <2>9
      <4> QED BY <1>0, <2>7, <4>1 DEF CutAt
    <3>2. PICK b3 : Between2(q, z, p, z3, b3)
      BY <3>1, CutTwice
    <3>3. b3 \in Seq(Glyph) /\ q = p \o b3 /\ z3 = b3 \o z /\ Len(q) = Len(p) + Len(b3)
          /\ Len(b3) \in Nat
      BY <3>2 DEF Between2
    <3>4. 1 <= Len(b3)
      BY <1>0, <2>7, <2>9, <3>3
    <3>5. CutAt(b3, z, Sign, u)
      BY <1>0, <3>3, <3>4 DEF CutAt
    <3>6. PICK x : Between2(b3, z, Sign, u, x)
      BY <3>5, CutTwice
    <3>7. x \in Seq(Glyph) /\ b3 = Sign \o x /\ u = x \o z
      BY <3>6 DEF Between2
    <3>8. s = Behind(a, p, x)
      BY <2>3, <2>7, <3>3, <3>7 DEF Behind
    <3>9. Within(s, z, a, p, u)
      BY <3>7, <3>8 DEF Within
    <3> QED BY <3>9
  <2> QED BY <2>8, <2>9
<1> QED BY <1>1, <1>2

LEMMA ShortIs ==
  ASSUME NEW p \in Short
  PROVE  /\ p \in Names /\ Plain(p) /\ p \in Seq(Glyph) /\ Plain(Value(p))
         /\ Value(p) \in Seq(Glyph) /\ Len(p) \in 1..NameLength /\ NameLength \in Nat
         /\ Len(Value(p)) \in Nat /\ Len(Value(p)) <= Len(p) + 3
<1>1. p \in Names /\ ~(Len(Value(p)) > Len(Template!Written(p)) + 1)
  BY DEF Short, Template!Long
<1>2. /\ Plain(p) /\ p \in Seq(Glyph) /\ Plain(Value(p)) /\ Value(p) \in Seq(Glyph)
      /\ Len(p) \in 1..NameLength /\ NameLength \in Nat
  BY <1>1, PlainAre DEF Plain
<1>3. Len(Value(p)) \in Nat
  BY <1>2
<1>4. Len(Template!Written(p)) \in Nat /\ Len(Template!Written(p)) <= Len(p) + 2
  <2>1. CASE p \in Texts
    <3>1. Template!Written(p) = p
      BY <2>1 DEF Template!Written
    <3> QED BY <1>2, <3>1
  <2>2. CASE p \notin Texts /\ p = Template!Escape
    <3>1. Template!Written(p) = <<Percent, Percent>>
      BY <2>2 DEF Template!Written
    <3> QED BY <1>2, <3>1
  <2>3. CASE p \notin Texts /\ p # Template!Escape
    <3>1. Template!Written(p) = (Sign \o p) \o Sign
      BY <2>3 DEF Template!Written, Sign
    <3> DEFINE x == Sign \o p
    <3>2. x \in Seq(Glyph) /\ Len(x) = Len(Sign) + Len(p)
      BY <1>2, SignIs, GlyphsJoined
    <3> HIDE DEF x
    <3>3. Len(x \o Sign) = Len(x) + Len(Sign)
      BY <3>2, SignIs, GlyphsJoined
    <3>4. Len(Template!Written(p)) = 1 + Len(p) + 1 /\ Len(p) \in Nat
      BY <1>2, <3>1, <3>2, <3>3, SignIs DEF x
    <3> QED BY <3>4
  <2> QED BY <2>1, <2>2, <2>3
<1>5. Len(Value(p)) <= Len(p) + 3
  <2> DEFINE n == Len(Value(p))
             l == Len(Template!Written(p))
             h == Len(p)
  <2>1. n \in Nat /\ l \in Nat /\ h \in Nat /\ ~(n > l + 1) /\ l <= h + 2
    BY <1>1, <1>2, <1>3, <1>4
  <2> HIDE DEF n, l, h
  <2>2. n <= h + 3
    BY <2>1
  <2> QED BY <2>2 DEF n, h
<1> QED BY <1>1, <1>2, <1>3, <1>5

(* A turn that finds a placeholder in the buffer.                          *)
LEMMA ClosedIs ==
  ASSUME NEW d, NEW size, size \in Nat, NEW w, Filled(d, size, w), NEW a, Plain(a),
         NEW p, p \in Short, NEW x, x \in Seq(Glyph), d.data = Behind(a, p, x)
  PROVE  Filled(Template!processedOnce(d, size), size, a \o (Value(p) \o (x \o d.rest)))
<1> DEFINE s == d.data
           i == a \o Sign
           y == Sign \o (p \o Sign)
           start == Len(a) + 1
           end == Len(a) + Len(p) + 2
<1>1. /\ p \in Names /\ Plain(p) /\ p \in Seq(Glyph) /\ Value(p) \in Seq(Glyph)
      /\ Len(p) \in 1..NameLength /\ NameLength \in Nat /\ Len(p) \in Nat
      /\ Len(Value(p)) \in Nat /\ Len(Value(p)) <= Len(p) + 3
  BY ShortIs
<1>2. /\ d \in Draft /\ Len(s) <= size /\ (Len(s) < size => d.rest = <<>>)
      /\ d.at = 1 /\ d.rest \in Seq(Glyph)
  BY DEF Filled, Draft
<1>3. a \in Seq(Glyph) /\ Sign \o x \in Seq(Glyph) /\ p \o (Sign \o x) \in Seq(Glyph)
      /\ Len(a) \in Nat
  BY <1>1, BehindIs
<1>4. i \in Seq(Glyph) /\ Len(i) = start /\ start \in Nat
  <2>1. i \in Seq(Glyph) /\ Len(i) = Len(a) + Len(Sign)
    BY <1>3, SignIs, GlyphsJoined
  <2> HIDE DEF i
  <2> QED BY <1>3, <2>1, SignIs
<1>5. /\ p \o Sign \in Seq(Glyph) /\ y \in Seq(Glyph) /\ Len(y) = Len(p) + 2
  <2> DEFINE j == p \o Sign
  <2>1. j \in Seq(Glyph) /\ Len(j) = Len(p) + Len(Sign)
    BY <1>1, SignIs, GlyphsJoined
  <2> HIDE DEF j
  <2>2. Sign \o j \in Seq(Glyph) /\ Len(Sign \o j) = Len(Sign) + Len(j)
    BY <2>1, SignIs, GlyphsJoined
  <2> QED BY <1>1, <2>1, <2>2, SignIs DEF j
<1>6. Marked(s, i, p, x) /\ Marked(s, <<>>, a, p \o (Sign \o x))
  <2> DEFINE h == p \o (Sign \o x)
             j == Sign \o h
  <2>1. h \in Seq(Glyph) /\ s = a \o j
    BY <1>3 DEF Behind
  <2> HIDE DEF h
  <2>2. j \in Seq(Glyph)
    BY <2>1, SignIs, GlyphsJoined
  <2>3. Joins(a, Sign, h)
    BY <1>3, <2>1, SignIs, GlyphsJoin
  <2>4. a \o j \in Seq(Glyph)
    BY <1>3, <2>2, GlyphsJoined
  <2>5. s = i \o h /\ s \in Seq(Glyph)
    BY <2>1, <2>3, <2>4 DEF Joins
  <2>6. s = <<>> \o s /\ <<>> \in Seq(Glyph)
    BY <2>5, NothingJoins
  <2> HIDE DEF i, s
  <2>7. Marked(s, i, p, x)
    BY <1>1, <1>4, <2>5 DEF Marked, h
  <2>8. Marked(s, <<>>, a, h)
    BY <2>1, <2>6 DEF Marked
  <2> QED BY <2>7, <2>8 DEF h
<1>7. Template!percentFrom(s, 1) = start
  <2>1. Template!percentFrom(s, Len(<<>>) + 1) = Len(<<>>) + Len(a) + 1
    BY <1>6, MarkedAt
  <2>2. Len(<<>>) + 1 = 1 /\ Len(<<>>) + Len(a) + 1 = start
    BY <1>3
  <2> QED BY <2>1, <2>2
<1>8. Template!percentFrom(s, start + 1) = end
  <2>1. Template!percentFrom(s, Len(i) + 1) = Len(i) + Len(p) + 1
    <3> HIDE DEF i, s
    <3> QED BY <1>6, MarkedAt
  <2>2. Len(i) + 1 = start + 1 /\ Len(i) + Len(p) + 1 = end
    <3> HIDE DEF i
    <3> QED BY <1>1, <1>3, <1>4
  <2> QED BY <2>1, <2>2
<1>9. Len(s) = Len(a) + Len(y) + Len(x) /\ Len(x) \in Nat
  <2>1. Len(s) = Len(i) + Len(p) + 1 + Len(x) /\ Len(x) \in Nat
    <3> HIDE DEF i, s
    <3> QED BY <1>6, MarkedAt
  <2> HIDE DEF i, y, s
  <2> QED BY <1>1, <1>3, <1>4, <1>5, <2>1
<1>10. SubSeq(s, start + 1, end - 1) = p
  <2> DEFINE h == Sign \o x
  <2>1. h \in Seq(Glyph) /\ s = i \o (p \o h)
    BY <1>3, <1>6 DEF Marked
  <2> HIDE DEF h, i, s
  <2>2. start + 1 = Len(i) + 1 /\ end - 1 = Len(i) + Len(p)
    BY <1>1, <1>3, <1>4
  <2> DEFINE m == start + 1
             e == end - 1
  <2>3. m = Len(i) + 1 /\ e = Len(i) + Len(p)
    BY <2>2
  <2> HIDE DEF m, e
  <2>4. SubSeq(s, m, e) = p
    BY <1>1, <1>4, <2>1, <2>3, MiddleIs, SMTT(20)
  <2> QED BY <2>4 DEF m, e
<1>11. Template!First(p, NameLength) = p
  <2>1. NameLength >= Len(p)
    BY <1>1
  <2> QED BY <1>1, <2>1, FirstAll
<1>12. Template!processedOnce(d, size) = Template!replaced(d, size, start, end, Value(p))
  <2>1. ~(d.at > Len(s)) /\ start # 0 /\ end # 0 /\ end # start + 1
    <3>1. Len(s) \in Nat /\ Len(s) >= 1
      BY <1>1, <1>3, <1>5, <1>9
    <3> QED BY <1>1, <1>2, <1>3, <3>1
  <2>2. Template!processedOnce(d, size) = Template!closed(d, size, start, end)
    <3> HIDE DEF start, end
    <3>1. Template!percentFrom(d.data, d.at) = start /\ Template!percentFrom(d.data, start + 1) = end
      BY <1>2, <1>7, <1>8
    <3> QED BY <2>1, <3>1 DEF Template!processedOnce
  <2>3. Template!closed(d, size, start, end) = Template!replaced(d, size, start, end, Value(p))
    <3> HIDE DEF start, end
    <3> QED BY <1>10, <1>11, <2>1 DEF Template!closed
  <2> QED BY <2>2, <2>3
<1>13. s = a \o (y \o x)
  <2>1. p \o (Sign \o x) = (p \o Sign) \o x
    <3>1. Joins(p, Sign, x)
      BY <1>1, SignIs, GlyphsJoin
    <3> QED BY <3>1 DEF Joins
  <2>2. Sign \o ((p \o Sign) \o x) = y \o x
    <3> DEFINE j == p \o Sign
    <3>1. j \in Seq(Glyph)
      BY <1>5
    <3> HIDE DEF j
    <3>2. Joins(Sign, j, x)
      BY <3>1, SignIs, GlyphsJoin
    <3> QED BY <3>2 DEF Joins, j
  <2> QED BY <2>1, <2>2 DEF Behind
<1>14. Spot(d, size, a, y, x, Value(p))
  <2> HIDE DEF y, s
  <2>1. Len(Value(p)) <= Len(y) + 1
    BY <1>1, <1>5
  <2> QED BY <1>1, <1>2, <1>3, <1>5, <1>13, <2>1 DEF Spot, s
<1>15. end = Len(a) + Len(y)
  <2> HIDE DEF y
  <2> QED BY <1>1, <1>3, <1>5
<1> HIDE DEF end, y
<1>16. Filled(Template!replaced(d, size, start, end, Value(p)), size,
              a \o (Value(p) \o (x \o d.rest)))
  BY <1>14, <1>15, ReplacedIs
<1> QED BY <1>12, <1>16

(* A turn that finds one that reaches into what follows the buffer.        *)
LEMMA AheadIs ==
  ASSUME NEW d, NEW size, size \in Nat, NEW w, Filled(d, size, w), NEW a, Plain(a),
         NEW p, p \in Short, NEW q, q \in Seq(Glyph), NEW h, h \in Seq(Glyph),
         NEW u, u \in Seq(Glyph),
         d.data = a \o (Sign \o q), d.rest = h \o (Sign \o u), p = q \o h
  PROVE  Filled(Template!processedOnce(d, size), size, a \o (Value(p) \o u))
<1> DEFINE s == d.data
           z == d.rest
           i == a \o Sign
           j == h \o Sign
           y == Sign \o q
           start == Len(a) + 1
           end == Len(h) + 1
           n == NameLength + 1 - Len(q)
           F == Template!First(z, n)
           B == Template!Beyond(z, n)
<1>1. /\ p \in Names /\ Plain(p) /\ p \in Seq(Glyph) /\ Value(p) \in Seq(Glyph)
      /\ Len(p) \in 1..NameLength /\ NameLength \in Nat
  BY ShortIs
<1>2. /\ d \in Draft /\ Len(s) <= size /\ (Len(s) < size => z = <<>>)
      /\ d.at = 1 /\ z \in Seq(Glyph) /\ s \in Seq(Glyph) /\ a \in Seq(Glyph)
  BY DEF Filled, Draft, Plain
<1>3. Plain(q) /\ Plain(h)
  BY <1>1, PlainParts
<1>4. Len(q) \in Nat /\ Len(h) \in Nat /\ Len(a) \in Nat /\ Len(q) + Len(h) = Len(p)
      /\ n \in Nat /\ Len(h) + 1 <= n
  <2>1. Len(q \o h) = Len(q) + Len(h) /\ Len(q) \in Nat /\ Len(h) \in Nat
    BY GlyphsJoined
  <2>2. Len(a) \in Nat /\ Len(q) + Len(h) = Len(p)
    BY <1>2, <2>1
  <2> QED BY <1>1, <2>1, <2>2
<1>5. i \in Seq(Glyph) /\ Len(i) = start /\ s = i \o q
  <2>1. i \in Seq(Glyph) /\ Len(i) = Len(a) + Len(Sign)
    BY <1>2, SignIs, GlyphsJoined
  <2>2. Joins(a, Sign, q)
    BY <1>2, SignIs, GlyphsJoin
  <2>3. s = i \o q
    BY <2>2 DEF Joins
  <2> HIDE DEF i
  <2> QED BY <2>1, <2>3, SignIs
<1>6. j \in Seq(Glyph) /\ Len(j) = end /\ z = j \o u
  <2>1. j \in Seq(Glyph) /\ Len(j) = Len(h) + Len(Sign)
    BY SignIs, GlyphsJoined
  <2>2. Joins(h, Sign, u)
    BY SignIs, GlyphsJoin
  <2>3. z = j \o u
    BY <2>2 DEF Joins
  <2> HIDE DEF j
  <2> QED BY <2>1, <2>3, SignIs
<1>7. y \in Seq(Glyph) /\ Len(y) = Len(q) + 1 /\ s = a \o y /\ y \o <<>> = y
  <2>1. y \in Seq(Glyph) /\ Len(y) = Len(Sign) + Len(q) /\ s = a \o y
    BY SignIs, GlyphsJoined
  <2> HIDE DEF y
  <2> QED BY <1>4, <2>1, SignIs, NothingJoins
<1>8. Len(s) = start + Len(q)
  <2>1. Len(i \o q) = Len(i) + Len(q)
    BY <1>5, GlyphsJoined
  <2> QED BY <1>5, <2>1
<1>9. Len(z) = end + Len(u) /\ Len(u) \in Nat
  <2>1. Len(j \o u) = Len(j) + Len(u) /\ Len(u) \in Nat
    BY <1>6, GlyphsJoined
  <2> QED BY <1>6, <2>1
<1>10. Template!percentFrom(s, 1) = start
  <2> DEFINE e == <<>>
  <2>1. e \in Seq(Glyph) /\ Len(e) = 0 /\ s = e \o s
    BY <1>2, NothingJoins
  <2>2. Marked(s, e, a, q)
    <3>1. s = e \o (a \o (Sign \o q))
      BY <2>1
    <3> HIDE DEF e, s
    <3> QED BY <2>1, <3>1 DEF Marked
  <2> HIDE DEF e, s
  <2>3. Template!percentFrom(s, Len(e) + 1) = Len(e) + Len(a) + 1
    BY <2>2, MarkedAt
  <2>4. Len(e) + 1 = 1 /\ Len(e) + Len(a) + 1 = start
    BY <1>4, <2>1
  <2> QED BY <2>3, <2>4
<1>11. Template!percentFrom(s, start + 1) = 0
  <2> HIDE DEF i, s, start
  <2>1. Template!percentFrom(s, Len(i) + 1) = 0
    BY <1>3, <1>5, Unmarked
  <2> QED BY <1>5, <2>1
<1>12. Chopped(z, n, F, B)
  BY <1>2, <1>4, CutIs
<1>13. F \in Seq(Glyph) /\ B \in Seq(Glyph) /\ z = F \o B /\ Len(F) <= n
       /\ (Len(F) < n => B = <<>>)
  BY <1>12 DEF Chopped
<1> HIDE DEF F, B, i, j, y, s, z, n, start, end
<1>14. \E c \in Seq(Glyph) : F = h \o (Sign \o c)
  <2>1. end <= Len(F)
    <3>1. Len(F) \in Nat
      BY <1>13
    <3> SUFFICES ASSUME ~(end <= Len(F)) PROVE FALSE
      OBVIOUS
    <3>2. Len(F) < n
      BY <1>4, <3>1 DEF end
    <3>3. z = F
      BY <1>13, <3>2, NothingJoins
    <3> QED BY <1>4, <1>9, <3>1, <3>3 DEF end
  <2>2. CutAt(F, B, j, u)
    BY <1>6, <1>13, <2>1 DEF CutAt
  <2>3. PICK c : Between2(F, B, j, u, c)
    BY <2>2, CutTwice
  <2>4. c \in Seq(Glyph) /\ F = j \o c
    BY <2>3 DEF Between2
  <2>5. Joins(h, Sign, c)
    BY <2>4, SignIs, GlyphsJoin
  <2>6. j \o c = h \o (Sign \o c)
    BY <2>5 DEF Joins, j
  <2> QED BY <2>4, <2>6
<1>15. Template!percentFrom(F, 1) = end
  <2> DEFINE e == <<>>
  <2>1. e \in Seq(Glyph) /\ Len(e) = 0 /\ F = e \o F
    BY <1>13, NothingJoins
  <2> HIDE DEF e
  <2>2. PICK c \in Seq(Glyph) : F = h \o (Sign \o c)
    BY <1>14
  <2>3. F = e \o (h \o (Sign \o c))
    BY <2>1, <2>2
  <2>4. Marked(F, e, h, c)
    BY <1>3, <2>1, <2>3 DEF Marked
  <2>5. Template!percentFrom(F, Len(e) + 1) = Len(e) + Len(h) + 1
    BY <2>4, MarkedAt
  <2>6. Len(e) + 1 = 1 /\ Len(e) + Len(h) + 1 = end
    BY <1>4, <2>1 DEF end
  <2> QED BY <2>5, <2>6
<1>16. Template!Beyond(s, start) = q
  <2>1. Halves(s, start, i, q)
    BY <1>5 DEF Halves
  <2> QED BY <2>1, FirstIs
<1>17. Template!Beyond(z, end) = u
  <2>1. Halves(z, end, j, u)
    BY <1>6 DEF Halves
  <2> QED BY <2>1, FirstIs
<1>18. SubSeq(z, 1, end - 1) = h
  <2> DEFINE e == <<>>
             x == Sign \o u
             m == end - 1
  <2>1. e \in Seq(Glyph) /\ Len(e) = 0 /\ z = e \o z
    BY <1>2, NothingJoins
  <2>2. x \in Seq(Glyph) /\ z = h \o x
    BY SignIs, GlyphsJoined DEF z
  <2>3. m = Len(e) + Len(h) /\ 1 = Len(e) + 1
    BY <1>4, <2>1 DEF end
  <2> HIDE DEF e, x, m
  <2>4. z = e \o (h \o x)
    BY <2>1, <2>2
  <2>5. SubSeq(z, 1, m) = h
    BY <2>1, <2>2, <2>3, <2>4, MiddleIs
  <2> QED BY <2>5 DEF m
<1> DEFINE past == [d EXCEPT !.rest = u]
<1>19. past \in Draft /\ past.data = s /\ past.rest = u
  BY <1>2 DEF Draft, s
<1>20. Template!processedOnce(d, size) = Template!lookedAhead(d, size, start)
  <2>1. ~(d.at > Len(s)) /\ start # 0
    BY <1>2, <1>4, <1>8 DEF start
  <2>2. Template!percentFrom(d.data, d.at) = start /\ Template!percentFrom(d.data, start + 1) = 0
    BY <1>2, <1>10, <1>11 DEF s
  <2> QED BY <2>1, <2>2 DEF Template!processedOnce, s
<1>21. Template!lookedAhead(d, size, start)
         = Template!replaced(past, size, start, Len(s), Value(p))
  <2> DEFINE left == Len(d.data) - start + 1
             stop == Template!percentFrom(Template!First(d.rest, NameLength + 2 - left), 1)
             name == Template!Beyond(d.data, start) \o SubSeq(d.rest, 1, stop - 1)
             after == [d EXCEPT !.rest = Template!Beyond(@, stop)]
  <2>1. left = 1 + Len(q)
    BY <1>4, <1>8 DEF s, start
  <2>2. NameLength + 2 - left = n /\ ~(left >= NameLength + 2)
    <3> HIDE DEF left
    <3> QED BY <1>1, <1>4, <2>1 DEF n
  <2> HIDE DEF left
  <2>3. stop = end /\ stop # 0
    <3>1. stop = end
      BY <1>15, <2>2 DEF F, z
    <3> HIDE DEF stop
    <3> QED BY <1>4, <3>1 DEF end
  <2> HIDE DEF stop
  <2>4. name = p
    BY <1>16, <1>18, <2>3 DEF s, z
  <2>5. after = past
    BY <1>2, <1>17, <2>3 DEF z, Draft
  <2>6. p # <<>>
    BY <1>1
  <2> HIDE DEF name, after, past
  <2>7. Template!lookedAhead(d, size, start)
          = IF left >= NameLength + 2 \/ stop = 0 THEN [d EXCEPT !.at = start + 1]
            ELSE IF name = <<>> THEN after
            ELSE Template!replaced(after, size, start, Len(d.data), Value(name))
    BY DEF Template!lookedAhead, name, after, stop, left
  <2>8. Template!lookedAhead(d, size, start)
          = Template!replaced(after, size, start, Len(d.data), Value(name))
    BY <2>2, <2>3, <2>4, <2>6, <2>7
  <2> QED BY <2>4, <2>5, <2>8 DEF s
<1> HIDE DEF past
<1>22. Len(s) = size
  <2>1. z # <<>>
    <3>1. Len(z) # 0
      BY <1>4, <1>9 DEF end
    <3> QED BY <3>1
  <2>2. ~(Len(s) < size) /\ Len(s) \in Nat
    BY <1>2, <2>1
  <2> QED BY <1>2, <2>2
<1>23. Spot(past, size, a, y, <<>>, Value(p))
  <2>1. <<>> \in Seq(Glyph) /\ past.data = a \o (y \o <<>>)
    BY <1>7, <1>19
  <2>2. Len(past.data) <= size /\ ~(Len(past.data) < size)
    BY <1>19, <1>22
  <2> QED BY <1>1, <1>2, <1>7, <1>19, <2>1, <2>2 DEF Spot
<1>24. Len(a) + Len(y) = Len(s)
  BY <1>4, <1>7, <1>8 DEF start
<1> DEFINE e == <<>>
<1>25. e \in Seq(Glyph) /\ e \o past.rest = u /\ Spot(past, size, a, y, e, Value(p))
  BY <1>19, <1>23, NothingJoins
<1> HIDE DEF e
<1>26. Filled(Template!replaced(past, size, Len(a) + 1, Len(a) + Len(y), Value(p)), size,
              a \o (Value(p) \o (e \o past.rest)))
  BY <1>25, ReplacedIs
<1> QED BY <1>20, <1>21, <1>24, <1>25, <1>26 DEF start

(* The text m, with k placeholders, is what is to be shown of d.           *)
Stage(d, size, m, k) == \E w : Filled(d, size, w) /\ Means(w, m, k)

LEMMA PlainStays ==
  ASSUME NEW d, d \in Draft, Plain(d.data), NEW size
  PROVE  Template!processedOnce(d, size) = d
<1> DEFINE e == <<>>
           s == d.data
<1>1. e \in Seq(Glyph) /\ Len(e) + 1 = 1 /\ s \in Seq(Glyph) /\ s = e \o s /\ d.at = 1
  BY NothingJoins DEF Draft
<1> HIDE DEF e, s
<1>2. Template!percentFrom(s, Len(e) + 1) = 0
  BY <1>1, Unmarked DEF s
<1>3. Template!percentFrom(s, d.at) = 0
  BY <1>1, <1>2
<1> QED BY <1>3 DEF Template!processedOnce, s

LEMMA TurnIs ==
  ASSUME NEW d, NEW size, size \in Nat, NEW m, NEW k, Stage(d, size, m, k)
  PROVE  \/ Plain(d.data)
         \/ k # 0 /\ Stage(Template!processedOnce(d, size), size, m, k - 1)
<1>1. PICK w : Filled(d, size, w) /\ Means(w, m, k)
  BY DEF Stage
<1>2. d.data \in Seq(Glyph) /\ d.rest \in Seq(Glyph) /\ d.data \o d.rest = w
  BY <1>1 DEF Filled, Draft
<1>3. /\ k = 0 => Plain(w) /\ m = w
      /\ k # 0 => \E u, l, a, p : Link(w, m, u, l, a, p) /\ Means(u, l, k - 1)
  BY <1>1, MeansLess
<1>4. CASE k = 0
  BY <1>2, <1>3, <1>4, PlainParts
<1>5. CASE k # 0
  <2>1. PICK u, l, a, p : Link(w, m, u, l, a, p) /\ Means(u, l, k - 1)
    BY <1>3, <1>5
  <2> DEFINE v == Value(p)
  <2>2. /\ p \in Short /\ w = Behind(a, p, u) /\ m = a \o (v \o l)
    BY <2>1 DEF Link
  <2>3. /\ u \in Seq(Glyph) /\ l \in Seq(Glyph) /\ a \in Seq(Glyph) /\ p \in Names /\ Plain(a)
        /\ v \in Seq(Glyph)
    BY <2>1, LinkIs
  <2>4. Plain(v)
    BY <2>2, ShortIs
  <2> HIDE DEF v
  <2>5. Means(a \o (v \o u), m, k - 1)
    <3>1. Means(v \o u, v \o l, k - 1)
      BY <2>1, <2>4, TextBefore
    <3>2. Means(a \o (v \o u), a \o (v \o l), k - 1)
      BY <2>3, <3>1, TextBefore
    <3> QED BY <2>2, <3>2
  <2> DEFINE s == d.data
             z == d.rest
             t == Template!processedOnce(d, size)
  <2>6. s \in Seq(Glyph) /\ z \in Seq(Glyph) /\ s \o z = Behind(a, p, u)
    BY <1>2, <2>2
  <2> HIDE DEF s, z
  <2>7. Apart(s, z, a, p, u) \/ Within(s, z, a, p, u) \/ Across(s, z, a, p, u)
    BY <2>3, <2>6, BufferEnds
  <2>8. CASE Apart(s, z, a, p, u)
    BY <2>8 DEF Apart, s
  <2>9. CASE Within(s, z, a, p, u)
    <3>1. PICK x \in Seq(Glyph) : s = Behind(a, p, x) /\ u = x \o z
      BY <2>9 DEF Within
    <3>2. Filled(t, size, a \o (Value(p) \o (x \o z)))
      BY <1>1, <2>2, <2>3, <3>1, ClosedIs DEF s, z
    <3>3. Stage(t, size, m, k - 1)
      BY <2>5, <3>1, <3>2 DEF Stage, v
    <3> QED BY <1>5, <3>3
  <2>10. CASE Across(s, z, a, p, u)
    <3>1. PICK q \in Seq(Glyph), h \in Seq(Glyph) :
            s = a \o (Sign \o q) /\ z = h \o (Sign \o u) /\ p = q \o h
      BY <2>10 DEF Across
    <3>2. Filled(t, size, a \o (Value(p) \o u))
      BY <1>1, <2>2, <2>3, <3>1, AheadIs DEF s, z
    <3>3. Stage(t, size, m, k - 1)
      BY <2>5, <3>2 DEF Stage, v
    <3> QED BY <1>5, <3>3
  <2> QED BY <2>7, <2>8, <2>9, <2>10
<1> QED BY <1>4, <1>5

(* The loop, as the function of _fillBufferAndProcessTemplates.            *)
IsLoop(first, size, n, f) ==
  f = [i \in 0..n |-> IF i = 0 THEN first ELSE Template!processedOnce(f[i - 1], size)]
LoopOf(first, size, n) == CHOOSE f : IsLoop(first, size, n, f)

LEMMA LoopsAreDefined ==
  ASSUME NEW first, NEW size, NEW n \in Nat
  PROVE  IsLoop(first, size, n, LoopOf(first, size, n))
<1> DEFINE T == {k \in Nat : \E f : IsLoop(first, size, k, f)}
           step(d) == Template!processedOnce(d, size)
<1>1. 0 \in T
  <2> DEFINE f == [i \in 0..0 |-> first]
             g == [i \in 0..0 |-> IF i = 0 THEN first ELSE step(f[i - 1])]
  <2>1. ASSUME NEW i \in 0..0 PROVE f[i] = g[i]
    OBVIOUS
  <2>2. f = g
    BY <2>1
  <2>3. IsLoop(first, size, 0, f)
    BY <2>2 DEF IsLoop
  <2> QED BY <2>3
<1>2. ASSUME NEW l \in Nat, l \in T PROVE l + 1 \in T
  <2>1. PICK t : IsLoop(first, size, l, t)
    BY <1>2
  <2> DEFINE u == [i \in 0..(l + 1) |-> IF i = l + 1 THEN step(t[l]) ELSE t[i]]
             v == [i \in 0..(l + 1) |-> IF i = 0 THEN first ELSE step(u[i - 1])]
  <2>2. ASSUME NEW i \in 0..(l + 1) PROVE u[i] = v[i]
    <3> HIDE DEF step
    <3>1. CASE i = l + 1
      <4>1. i - 1 = l /\ l \in 0..(l + 1) /\ l # l + 1 /\ i # 0
        BY <3>1
      <4>2. u[l] = t[l]
        BY <4>1
      <4> QED BY <3>1, <4>1, <4>2
    <3>2. CASE i # l + 1
      <4>1. i \in 0..l
        BY <3>2
      <4>2. t[i] = IF i = 0 THEN first ELSE step(t[i - 1])
        BY <2>1, <4>1 DEF IsLoop, step
      <4>3. i # 0 => i - 1 \in 0..(l + 1) /\ i - 1 # l + 1
        BY <4>1
      <4> QED BY <3>2, <4>2, <4>3
    <3> QED BY <3>1, <3>2
  <2>3. u = v
    BY <2>2
  <2>4. IsLoop(first, size, l + 1, u)
    BY <2>3 DEF IsLoop
  <2> QED BY <2>4
<1>3. n \in T
  <2> HIDE DEF T
  <2> QED BY <1>1, <1>2, SetInduction
<1> QED BY <1>3 DEF LoopOf

LEMMA LoopIs ==
  ASSUME NEW first, NEW size, size \in Nat, NEW n \in Nat, NEW m, NEW k,
         Stage(first, size, m, k), k <= n
  PROVE  \E j : /\ Stage(LoopOf(first, size, n)[n], size, m, j)
                /\ Plain(LoopOf(first, size, n)[n].data)
<1> DEFINE f == LoopOf(first, size, n)
           T == {i \in Nat : i <= n =>
                   \E j \in Nat : Stage(f[i], size, m, j) /\ (Plain(f[i].data) \/ j + i <= k)}
<1>1. ASSUME NEW i \in 0..n
      PROVE  f[i] = IF i = 0 THEN first ELSE Template!processedOnce(f[i - 1], size)
  <2>1. IsLoop(first, size, n, f)
    BY LoopsAreDefined
  <2> HIDE DEF f
  <2> QED BY <2>1 DEF IsLoop
<1>2. ASSUME NEW d, NEW j, Stage(d, size, m, j) PROVE j \in Nat /\ d \in Draft
  <2>1. PICK w : Filled(d, size, w) /\ Means(w, m, j)
    BY <1>2 DEF Stage
  <2> QED BY <2>1 DEF Filled, Means
<1>3. 0 \in T
  <2>1. k \in Nat /\ 0 \in 0..n
    BY <1>2
  <2>2. f[0] = first /\ k + 0 <= k
    BY <1>1, <2>1
  <2> HIDE DEF f
  <2> QED BY <2>1, <2>2
<1>4. ASSUME NEW i \in Nat, i \in T PROVE i + 1 \in T
  <2> SUFFICES ASSUME i + 1 <= n
               PROVE  \E j \in Nat : Stage(f[i + 1], size, m, j) /\ (Plain(f[i + 1].data) \/ j + (i + 1) <= k)
    OBVIOUS
  <2>1. PICK j \in Nat : Stage(f[i], size, m, j) /\ (Plain(f[i].data) \/ j + i <= k)
    BY <1>4
  <2>2. f[i + 1] = Template!processedOnce(f[i], size)
    <3>1. i + 1 \in 0..n /\ i + 1 # 0 /\ (i + 1) - 1 = i
      OBVIOUS
    <3> HIDE DEF f
    <3> QED BY <1>1, <3>1
  <2> HIDE DEF f
  <2>3. CASE Plain(f[i].data)
    <3>1. f[i + 1] = f[i]
      BY <1>2, <2>1, <2>2, <2>3, PlainStays
    <3> QED BY <2>1, <2>3, <3>1
  <2>4. CASE ~Plain(f[i].data)
    <3>1. j # 0 /\ Stage(f[i + 1], size, m, j - 1)
      BY <2>1, <2>2, <2>4, TurnIs
    <3>2. k \in Nat
      BY <1>2
    <3>3. j - 1 \in Nat /\ (j - 1) + (i + 1) <= k
      BY <2>1, <2>4, <3>1, <3>2
    <3> QED BY <3>1, <3>3
  <2> QED BY <2>3, <2>4
<1>5. n \in T
  <2> HIDE DEF T, f
  <2> QED BY <1>3, <1>4, SetInduction
<1>6. PICK j \in Nat : Stage(f[n], size, m, j) /\ (Plain(f[n].data) \/ j + n <= k)
  BY <1>5
<1> HIDE DEF f
<1>7. Plain(f[n].data)
  <2> SUFFICES ASSUME ~Plain(f[n].data) PROVE FALSE
    OBVIOUS
  <2>1. j # 0 /\ k \in Nat
    BY <1>2, <1>6, TurnIs
  <2> QED BY <1>6, <2>1
<1> QED BY <1>6, <1>7 DEF f

LEMMA FilledIs ==
  ASSUME NEW size, size \in Nat, NEW m, NEW k, Means(unread, m, k)
  PROVE  \E j : /\ Stage(Template!fillBufferAndProcessTemplates(size), size, m, j)
                /\ Plain(Template!fillBufferAndProcessTemplates(size).data)
<1> DEFINE empty == [data |-> <<>>, rest |-> unread, at |-> 1]
           first == Template!readData(empty, size)
           n == Template!turns(first, size)
<1>1. unread \in Seq(Glyph)
  BY MeansLess
<1>2. /\ empty \in Draft /\ Len(empty.data) = 0 /\ size - Len(empty.data) = size
      /\ empty.data \o empty.rest = unread /\ Len(empty.data) <= size
  BY <1>1, NothingJoins DEF Draft
<1> HIDE DEF empty
<1>3. Filled(first, size, unread)
  <2>1. Filled(Template!readData(empty, size - Len(empty.data)), size, empty.data \o empty.rest)
    BY <1>2, ReadIs
  <2> QED BY <1>2, <2>1
<1> HIDE DEF first
<1>4. Stage(first, size, m, k)
  BY <1>3 DEF Stage
<1>5. n \in Nat /\ k <= n
  <2>1. k <= Len(unread) /\ k \in Nat
    BY MeansEnough DEF Means
  <2>2. first.data \in Seq(Glyph) /\ first.rest \in Seq(Glyph) /\ first.data \o first.rest = unread
    BY <1>3 DEF Filled, Draft
  <2>3. /\ Len(first.data \o first.rest) = Len(first.data) + Len(first.rest)
        /\ Len(first.data) \in Nat /\ Len(first.rest) \in Nat
    BY <2>2, GlyphsJoined
  <2> DEFINE i == Len(first.data)
             j == Len(first.rest)
             l == Len(unread)
  <2>4. l = i + j
    BY <2>2, <2>3
  <2>5. n = i + j + size
    BY DEF Template!turns
  <2>6. i \in Nat /\ j \in Nat /\ k <= l /\ k \in Nat
    BY <2>1, <2>3
  <2> HIDE DEF i, j, l, n
  <2> QED BY <2>4, <2>5, <2>6
<1>6. Template!fillBufferAndProcessTemplates(size) = LoopOf(first, size, n)[n]
  BY DEF Template!fillBufferAndProcessTemplates, LoopOf, IsLoop, first, empty
<1> HIDE DEF n
<1> QED BY <1>4, <1>5, <1>6, LoopIs

(* What the browser got, and what is unread of the content will add to it, *)
(* are together the text that is to be shown.                              *)
Plainly == ~Template!Escaped /\ ~(\E p \in Range(content) : Template!Long(p))
PageInv ==
  Plainly => /\ page \in Seq(Glyph) /\ (ended => unread = <<>>)
             /\ \E m, k : Means(unread, m, k) /\ Template!Expansion = page \o m

LEMMA PageStarts == ASSUME MCInit PROVE PageInv
<1> SUFFICES ASSUME Plainly PROVE PageInv
  BY DEF PageInv
<1>1. /\ content \in BoundedSeq(Template!Pieces, MaxPieces)
      /\ unread = FlattenSeq([i \in DOMAIN content |-> Template!Written(content[i])])
      /\ page = <<>> /\ ended = FALSE
  <2>1. /\ content \in Template!BoundedSeq(Template!Pieces, MaxPieces)
        /\ unread = Template!FlattenSeq([i \in DOMAIN content |-> Template!Written(content[i])])
        /\ page = <<>> /\ ended = FALSE
    BY DEF MCInit, Template!Init
  <2>2. Template!BoundedSeq(Template!Pieces, MaxPieces) = BoundedSeq(Template!Pieces, MaxPieces)
    BY DEF Template!BoundedSeq, Template!SeqOf, BoundedSeq, SeqOf
  <2> QED BY <2>1, <2>2, TextsMatch
<1>2. PICK n \in Nat : content \in [1..n -> Template!Pieces]
  <2>1. content \in UNION {[1..j -> Template!Pieces] : j \in 0..MaxPieces}
    BY <1>1 DEF BoundedSeq, SeqOf
  <2>2. MaxPieces \in Nat
    BY TextAssumption
  <2> QED BY <2>1, <2>2
<1>3. ASSUME NEW i \in 1..n PROVE Fragment(content[i])
  <2>1. content[i] \in Range(content) /\ content[i] \in Template!Pieces
    BY <1>2 DEF Range
  <2>2. Template!Escape # content[i] /\ ~Template!Long(content[i])
    <3>1. Template!Range(content) = Range(content)
      BY DEF Template!Range, Range
    <3> QED BY <2>1, <3>1 DEF Plainly, Template!Escaped
  <2> QED BY <2>1, <2>2 DEF Fragment, Short, Template!Pieces
<1>4. PICK k : Means(unread, FlattenSeq([i \in DOMAIN content |-> Template!Shown(content[i])]), k)
  BY <1>1, <1>2, <1>3, ContentMeans
<1>5. Template!Expansion = FlattenSeq([i \in DOMAIN content |-> Template!Shown(content[i])])
  BY TextsMatch DEF Template!Expansion
<1> DEFINE m == Template!Expansion
<1>6. Means(unread, m, k)
  BY <1>4, <1>5
<1> HIDE DEF m
<1>7. m \in Seq(Glyph)
  BY <1>6, MeansLess
<1>8. page \in Seq(Glyph) /\ m = page \o m
  BY <1>1, <1>7, NothingJoins
<1> QED BY <1>1, <1>6, <1>8 DEF PageInv, m

LEMMA PageKeeps ==
  ASSUME PageInv, [MCNext]_MCvars
  PROVE  PageInv'
<1>1. CASE UNCHANGED templateVars
  BY <1>1 DEF PageInv, Plainly, templateVars, Template!Escaped, Template!Expansion
<1>2. CASE Template!Next
  <2>1. PICK size \in Rooms : Template!Fill(size)
    BY <1>2 DEF Template!Next
  <2> DEFINE d == Template!fillBufferAndProcessTemplates(size)
  <2>2. /\ page' = page \o d.data /\ unread' = d.rest /\ ended' = (d.data = <<>>)
        /\ content' = content
    BY <2>1 DEF Template!Fill
  <2>3. Plainly' = Plainly /\ Template!Expansion' = Template!Expansion
    BY <2>2 DEF Plainly, Template!Escaped, Template!Expansion
  <2> HIDE DEF d
  <2> SUFFICES ASSUME Plainly PROVE PageInv'
    BY <2>3 DEF PageInv
  <2>4. page \in Seq(Glyph)
    BY DEF PageInv
  <2>5. PICK m, k : Means(unread, m, k) /\ Template!Expansion = page \o m
    BY DEF PageInv
  <2>6. size \in Nat /\ size # 0
    BY TextAssumption
  <2>7. PICK j : Stage(d, size, m, j) /\ Plain(d.data)
    BY <2>5, <2>6, FilledIs DEF d
  <2>8. PICK w : Filled(d, size, w) /\ Means(w, m, j)
    BY <2>7 DEF Stage
  <2>9. /\ d.data \in Seq(Glyph) /\ d.rest \in Seq(Glyph) /\ w = d.data \o d.rest
        /\ (Len(d.data) < size => d.rest = <<>>)
    BY <2>8 DEF Filled, Draft
  <2>10. PICK l : m = d.data \o l /\ Means(d.rest, l, j)
    <3> DEFINE s == d.data
               z == d.rest
    <3>1. Leads(s, w, z) /\ Means(w, m, j)
      BY <2>7, <2>8, <2>9 DEF Leads
    <3> HIDE DEF s, z
    <3>2. \E l : m = s \o l /\ Means(z, l, j)
      BY <3>1, TextOff
    <3> QED BY <3>2 DEF s, z
  <2>11. page \o d.data \in Seq(Glyph)
    BY <2>4, <2>9, GlyphsJoined
  <2>12. Template!Expansion = (page \o d.data) \o l
    <3>1. l \in Seq(Glyph)
      BY <2>10, MeansLess
    <3>2. Joins(page, d.data, l)
      BY <2>4, <2>9, <3>1, GlyphsJoin
    <3> QED BY <2>5, <2>10, <3>2 DEF Joins
  <2>13. d.data = <<>> => d.rest = <<>>
    <3> SUFFICES ASSUME d.data = <<>> PROVE d.rest = <<>>
      OBVIOUS
    <3>1. Len(d.data) = 0
      OBVIOUS
    <3>2. Len(d.data) < size
      BY <2>6, <3>1
    <3> QED BY <2>9, <3>2
  <2>14. page' \in Seq(Glyph) /\ (ended' => unread' = <<>>)
    BY <2>2, <2>11, <2>13
  <2>15. Means(unread', l, j) /\ Template!Expansion' = page' \o l
    BY <2>2, <2>3, <2>10, <2>12
  <2>16. \E h, i : Means(unread', h, i) /\ Template!Expansion' = page' \o h
    BY <2>15
  <2> QED BY <2>14, <2>16 DEF PageInv
<1>3. Template!Next \/ UNCHANGED templateVars
  BY DEF MCNext, OfSocket, OfReceiver, OfSource, OfTemplate, MCvars
<1> QED BY <1>1, <1>2, <1>3

(* Between two buffers the text that the browser got, and what is unread   *)
(* of the content is going to be in it, are the text with every            *)
(* placeholder replaced, whatever the buffers cut.                         *)
THEOREM PageInvariant == MCSpec => []PageInv
<1> QED BY PageStarts, PageKeeps, PTL DEF MCSpec

(* In every state of every behaviour, when an empty chunk has ended the    *)
(* response, the browser has the text with every placeholder replaced,     *)
(* though a buffer may end in a text, a placeholder or its value.          *)
THEOREM ExpandedAlways == MCSpec => []Expanded
<1>1. PageInv => Expanded
  <2> SUFFICES ASSUME PageInv, ended, Plainly PROVE page = Template!Expansion
    <3>1. Template!Range(content) = Range(content)
      BY DEF Template!Range, Range
    <3> QED BY <3>1 DEF Expanded, Template!Expanded, Plainly
  <2>1. page \in Seq(Glyph) /\ unread = <<>>
    BY DEF PageInv
  <2>2. PICK m, k : Means(unread, m, k) /\ Template!Expansion = page \o m
    BY DEF PageInv
  <2>3. k <= Len(unread) /\ k \in Nat
    BY <2>2, MeansEnough DEF Means
  <2>4. k = 0
    BY <2>1, <2>3
  <2>5. m = unread
    BY <2>2, <2>4, MeansLess
  <2> QED BY <2>1, <2>2, <2>5, NothingJoins
<1> QED BY <1>1, PageInvariant, PTL
===============================================================================
