------------------------------- MODULE TcpProofs -------------------------------
(***************************************************************************)
(* Proofs of the safety properties of AsyncClient, for every send buffer,  *)
(* width of the lengths, acknowledgement timeout and set of things that    *)
(* the user's handlers may do; of AsyncTcpTask, for any number of clients  *)
(* and slots and any length of the queue; and of TcpBuffer, for any sizes. *)
(*                                                                         *)
(* The client of the ESP8266.  Each method gets a lemma that it keeps the  *)
(* object Sound and, within a callback, keeps the tracker telling the      *)
(* truth; the actions are put together from them.  A second pass does the  *)
(* same for the lengths.                                                   *)
(*                                                                         *)
(* The task.                                                               *)
(* Each action gets a lemma XFacts that says without EXCEPT what it does   *)
(* (XDoes); the layers of the invariant rest on those alone.  The last     *)
(* layer is why a deleted client hears nothing: its events are behind a    *)
(* packet that will remove them, also while the removal of another         *)
(* client's events turns the queue round and the lwIP thread adds to it.   *)
(*                                                                         *)
(* The buffer.  Every way to take received bytes keeps what was given,     *)
(* what waits and what is still to come, one behind the other (Keeps);     *)
(* what the chain holds is followed through each change of it (Flatten).   *)
(* The loops are recursive functions: that they are defined (OnIsDefined,  *)
(* WrittenIsDefined) and what they keep follow by SetInduction.            *)
(***************************************************************************)
EXTENDS MCTcp, FiniteSetTheorems, SequenceTheorems, TLAPS

(* The connection is the object's as long as it has not ended, and its end *)
(* is reported when it comes.                                              *)
EndsReported(s) ==
  /\ s.pcb <=> s.tcp = "est"
  /\ s.discards <= 1
  /\ s.discards = 1 => s.tcp = "none"
  /\ s.opened /\ s.tcp = "none" /\ ~s.silent => s.discards = 1
  /\ ~s.opened => s.tcp = "none" /\ s.discards = 0
  /\ s.obj = "deleted" => s.tcp = "none" /\ s.opened
  /\ ~s.badUse

(* While there is a connection the tracker has nothing to report to lwIP.  *)
Quiet(s) == s.tcp # "none" \/ ~s.opened => ~s.errored /\ s.closeError # "abrt"

(* What holds of the object at any moment; that the tracker knows of an    *)
(* abort in the running callback and of no other; and what holds between   *)
(* callbacks.                                                              *)
Sound(s)   == s \in ClientState /\ EndsReported(s) /\ Quiet(s) /\ ~s.badReturn
Tells(s)   == s.aborted <=> ~s.errored /\ s.closeError = "abrt"
Resting(s) == Sound(s) /\ ~s.aborted

ClientInv == listening \in BOOLEAN /\ Resting(c)

(* The numbers that are assigned lie in their ranges.                      *)
LEMMA Numbers ==
  /\ 0 \in 0..SndBuf /\ 0 \in 0..(W-1) /\ 0 \in 0..AckTimeout /\ 1 \in 0..2
  /\ \A n \in Int : n % W \in 0..(W-1)
BY WAssumption, TimeoutAssumption, SMT

(* An object whose connection has begun and not ended is alive, and nobody *)
(* has heard of an end yet.                                                *)
LEMMA OpenFacts ==
  ASSUME NEW s, Sound(s), s.tcp # "none"
  PROVE  /\ s \in ClientState /\ s.discards = 0 /\ s.opened /\ s.obj = "alive"
         /\ ~s.errored /\ s.closeError # "abrt"
BY DEF Sound, EndsReported, Quiet, ClientState

(* _discard_cb, called once when the connection has ended, reports the end. *)
LEMMA DiscardSound ==
  ASSUME NEW s \in ClientState, s.discards = 0, s.opened, s.tcp = "none", ~s.pcb,
         ~s.badUse, ~s.badReturn
  PROVE  /\ Sound(discard(s)) /\ (discard(s).aborted <=> s.aborted)
         /\ (discard(s).errored <=> s.errored) /\ discard(s).closeError = s.closeError
         /\ discard(s).tcp = s.tcp /\ (discard(s).opened <=> s.opened)
<1>1. PICK o \in {"alive", "deleted"} : o = IF s.deletes THEN "deleted" ELSE s.obj
  BY DEF ClientState
<1> DEFINE t == [s EXCEPT !.discards = 1, !.obj = o]
<1>2. discard(s) = t
  BY <1>1 DEF discard
<1>3. t \in ClientState
  BY Numbers DEF ClientState
<1> QED
  BY <1>2, <1>3 DEF Sound, EndsReported, Quiet, ClientState

(* What the tracker is told when a callback begins does no harm.           *)
LEMMA SetErrorSound ==
  ASSUME NEW s, Sound(s), NEW e \in {"ok", "rst"}
  PROVE  /\ Sound(setCloseError(s, e))
         /\ s.obj = "alive" => setCloseError(s, e).obj = "alive"
         /\ setCloseError(s, e).tcp = s.tcp
BY DEF Sound, EndsReported, Quiet, setCloseError, ClientState

(* setCloseError changes the error and nothing else.                       *)
LEMMA SetErrorFacts ==
  ASSUME NEW s \in ClientState, NEW e \in {"ok", "abrt", "rst"}, ~s.errored
  PROVE  /\ setCloseError(s, e) \in ClientState
         /\ setCloseError(s, e).closeError = e /\ ~setCloseError(s, e).errored
         /\ setCloseError(s, e).discards = s.discards
         /\ (setCloseError(s, e).opened <=> s.opened)
         /\ setCloseError(s, e).tcp = s.tcp /\ (setCloseError(s, e).badUse <=> s.badUse)
         /\ (setCloseError(s, e).badReturn <=> s.badReturn)
         /\ (setCloseError(s, e).aborted <=> s.aborted)
BY DEF setCloseError, ClientState

(* _close() ends a connection, reports the end and tells the tracker of an *)
(* abort; it leaves alone an object without one.                           *)
LEMMA CloseSound ==
  ASSUME NEW s, Sound(s), NEW ok \in BOOLEAN
  PROVE  /\ Sound(close_(s, ok)) /\ (Tells(s) => Tells(close_(s, ok)))
         /\ s.tcp \notin {"resolving", "connecting"} => close_(s, ok).tcp = "none"
         /\ s.opened => close_(s, ok).opened
<1>1. CASE ~s.pcb
  BY <1>1 DEF close_, Sound, EndsReported, ClientState
<1>2. CASE s.pcb
  <2> DEFINE gone  == [s EXCEPT !.tcp = "none", !.flight = 0]
             abrtd == [s EXCEPT !.aborted = TRUE, !.tcp = "none", !.flight = 0,
                                !.pcb = FALSE]
             t     == IF ok THEN setCloseError(gone, "ok")
                            ELSE setCloseError(abrtd, "abrt")
             u     == [t EXCEPT !.pcb = FALSE]
  <2>1. s.tcp = "est" /\ s.tcp # "none"
    BY <1>2 DEF Sound, EndsReported
  <2>2. /\ s \in ClientState /\ s.discards = 0 /\ s.opened /\ s.obj = "alive"
        /\ ~s.errored /\ s.closeError # "abrt"
    BY <2>1, OpenFacts
  <2>3. /\ gone \in ClientState /\ ~gone.errored /\ gone.discards = 0 /\ gone.opened
        /\ gone.tcp = "none" /\ ~gone.badUse /\ ~gone.badReturn
        /\ (gone.aborted <=> s.aborted)
    BY <2>2, Numbers DEF Sound, EndsReported, ClientState
  <2>3a. /\ abrtd \in ClientState /\ ~abrtd.errored /\ abrtd.discards = 0
         /\ abrtd.opened
         /\ abrtd.tcp = "none" /\ ~abrtd.badUse /\ ~abrtd.badReturn /\ abrtd.aborted
    BY <2>2, Numbers DEF Sound, EndsReported, ClientState
  <2>4. /\ t \in ClientState
        /\ t.discards = 0 /\ t.opened /\ t.tcp = "none" /\ ~t.badUse /\ ~t.badReturn
        /\ ~t.errored /\ t.closeError = (IF ok THEN "ok" ELSE "abrt")
        /\ t.aborted <=> s.aborted \/ ~ok
    <3>1. CASE ok
      <4> HIDE DEF gone
      <4> QED
        BY <2>3, <3>1, SetErrorFacts
    <3>2. CASE ~ok
      <4> HIDE DEF abrtd
      <4> QED
        BY <2>3a, <3>2, SetErrorFacts
    <3> QED
      BY <3>1, <3>2
  <2>5. close_(s, ok) = discard(u)
    BY <1>2 DEF close_, abort
  <2> HIDE DEF t
  <2>6. /\ u \in ClientState
        /\ u.discards = 0 /\ u.opened /\ u.tcp = "none" /\ ~u.pcb /\ ~u.badUse
        /\ ~u.badReturn
        /\ ~u.errored /\ u.closeError = t.closeError /\ (u.aborted <=> t.aborted)
    BY <2>4 DEF ClientState
  <2> HIDE DEF u
  <2>7. /\ Sound(discard(u)) /\ (discard(u).aborted <=> u.aborted)
        /\ (discard(u).errored <=> u.errored) /\ discard(u).closeError = u.closeError
        /\ discard(u).tcp = u.tcp /\ (discard(u).opened <=> u.opened)
    BY <2>6, DiscardSound
  <2> QED
    BY <2>2, <2>4, <2>5, <2>6, <2>7 DEF Tells
<1> QED
  BY <1>1, <1>2

(* add() changes lengths only.                                             *)
LEMMA AddSound ==
  ASSUME NEW s, Sound(s), NEW ok \in BOOLEAN
  PROVE  /\ Sound(add(s, ok)) 
         /\ add(s, ok).pcb = s.pcb /\ add(s, ok).tcp = s.tcp
         /\ Tells(s) => Tells(add(s, ok))
<1>1. CASE ok /\ space(s) > 0
  <2>1. s \in ClientState
    BY DEF Sound
  <2>2. s.flight + 1 \in 0..SndBuf /\ (s.unsent + 1) % W \in 0..(W-1)
    BY <1>1, <2>1, Numbers, WAssumption DEF space, ClientState
  <2>3. add(s, ok) = [s EXCEPT !.unsent = (s.unsent + 1) % W, !.flight = s.flight + 1]
    BY <1>1 DEF add
  <2>4. add(s, ok) \in ClientState
    BY <2>1, <2>2, <2>3 DEF ClientState
  <2> QED
    BY <2>1, <2>3, <2>4 DEF Sound, EndsReported, Quiet, Tells, ClientState
<1>2. CASE ~(ok /\ space(s) > 0)
  BY <1>2 DEF add
<1> QED
  BY <1>1, <1>2

(* send() changes lengths and the timer only.                              *)
LEMMA SendSound ==
  ASSUME NEW s, Sound(s), NEW ok \in BOOLEAN
  PROVE  Sound(send(s, ok)) /\ (Tells(s) => Tells(send(s, ok)))
<1>1. s \in ClientState /\ (s.unacked + s.unsent) % W \in 0..(W-1)
  BY Numbers DEF Sound, ClientState
<1>2. PICK f \in BOOLEAN, n \in 0..(W-1) :
        f = (s.outputFailed \/ s.unsent > 0) /\ n = (s.unacked + s.unsent) % W
  BY <1>1
<1>3. CASE ok
  <2>1. send(s, ok) = [s EXCEPT !.busy = TRUE, !.age = 0, !.unsent = 0, !.unacked = n]
    BY <1>2, <1>3 DEF send
  <2>2. send(s, ok) \in ClientState
    BY <1>1, <2>1, Numbers DEF ClientState
  <2> QED
    BY <1>1, <2>1, <2>2 DEF Sound, EndsReported, Quiet, Tells, ClientState
<1>4. CASE ~ok
  <2>1. send(s, ok) = [s EXCEPT !.unsent = 0, !.outputFailed = f]
    BY <1>2, <1>4 DEF send
  <2>2. send(s, ok) \in ClientState
    BY <1>1, <2>1, Numbers DEF ClientState
  <2> QED
    BY <1>1, <2>1, <2>2 DEF Sound, EndsReported, Quiet, Tells, ClientState
<1> QED
  BY <1>3, <1>4

(* write() is add() and send().                                            *)
LEMMA WriteSound ==
  ASSUME NEW s, Sound(s), NEW ok \in BOOLEAN, NEW outputOk \in BOOLEAN
  PROVE  Sound(write(s, ok, outputOk)) /\ (Tells(s) => Tells(write(s, ok, outputOk)))
BY AddSound, SendSound DEF write

(* Whatever a handler does to a living object keeps it sound.              *)
LEMMA ReactSound ==
  ASSUME NEW s, Sound(s), s.obj = "alive", NEW r \in Reactions
  PROVE  Sound(React(s, r)) /\ (Tells(s) => Tells(React(s, r)))
<1> DEFINE asked == [s EXCEPT !.closeReq = TRUE]
<1>1. Sound(asked) /\ (Tells(s) => Tells(asked))
  BY DEF Sound, EndsReported, Quiet, Tells, ClientState
<1>2. r \in {"none", "add", "send", "write", "writeFails", "outputFails",
            "close", "closeNow", "closeAborts"}
  BY ReactionsAssumption
<1>3. React(s, r) \in {s, add(s, TRUE), send(s, TRUE), write(s, TRUE, TRUE),
                      write(s, FALSE, TRUE), write(s, TRUE, FALSE), asked,
                      close_(s, TRUE), close_(s, FALSE)}
  <2>1. s.obj # "deleted"
    OBVIOUS
  <2>2. React(s, r) = CASE r = "none"        -> s
           [] r = "add"         -> add(s, TRUE)
           [] r = "send"        -> IF s.pcb THEN send(s, TRUE) ELSE s
           [] r = "write"       -> write(s, TRUE, TRUE)
           [] r = "writeFails"  -> write(s, FALSE, TRUE)
           [] r = "outputFails" -> write(s, TRUE, FALSE)
           [] r = "close"       -> close(s, FALSE, TRUE)
           [] r = "closeNow"    -> close(s, TRUE, TRUE)
           [] r = "closeAborts" -> close(s, TRUE, FALSE)
    BY <2>1 DEF React, Use
  <2> QED
    BY <1>2, <2>2 DEF close
<1>4. TRUE \in BOOLEAN /\ FALSE \in BOOLEAN
  OBVIOUS
<1> HIDE DEF asked
<1>5. \A ok \in BOOLEAN : Sound(close_(s, ok)) /\ (Tells(s) => Tells(close_(s, ok)))
  BY CloseSound
<1>6. \A ok \in BOOLEAN : Sound(add(s, ok)) /\ (Tells(s) => Tells(add(s, ok)))
  BY AddSound
<1> QED
  BY <1>1, <1>3, <1>4, <1>5, <1>6, SendSound, WriteSound

(* _error() ends a connection that lwIP has freed.                         *)
LEMMA ErrorSound ==
  ASSUME NEW s, Sound(s), s.tcp # "none"
  PROVE  /\ Sound(sError(s, "rst")) /\ sError(s, "rst").tcp = "none"
         /\ sError(s, "rst").opened
         /\ ~s.aborted => ~sError(s, "rst").aborted /\ Tells(sError(s, "rst"))
<1> DEFINE t == setErrored([s EXCEPT !.closeError = "rst"])
           u == [t EXCEPT !.pcb = FALSE, !.tcp = "none"]
<1>1. s \in ClientState /\ s.discards = 0 /\ s.opened /\ s.obj = "alive" /\ ~s.errored
  BY OpenFacts
<1>2. sError(s, "rst") = discard(u)
  BY <1>1 DEF sError, setCloseError
<1>3. /\ t \in ClientState /\ t.discards = 0 /\ t.opened /\ ~t.badUse /\ ~t.badReturn
      /\ t.errored /\ (t.aborted <=> s.aborted)
  BY <1>1 DEF setErrored, Sound, EndsReported, ClientState
<1> HIDE DEF t
<1>4. /\ u \in ClientState /\ u.discards = 0 /\ u.opened /\ u.tcp = "none" /\ ~u.pcb
      /\ ~u.badUse /\ ~u.badReturn /\ u.errored /\ (u.aborted <=> s.aborted)
  BY <1>3 DEF ClientState
<1> HIDE DEF u
<1>5. /\ Sound(discard(u)) /\ (discard(u).aborted <=> u.aborted)
      /\ (discard(u).errored <=> u.errored)
      /\ discard(u).tcp = u.tcp /\ (discard(u).opened <=> u.opened)
  BY <1>4, DiscardSound
<1> QED
  BY <1>2, <1>4, <1>5 DEF Tells

(* A callback that returns what the tracker tells returns the truth.       *)
LEMMA ReturnRests ==
  ASSUME NEW s, Sound(s), Tells(s)
  PROVE  Resting(getCallbackCloseError(s))
<1>1. s \in ClientState
  BY DEF Sound
<1>2. PICK er \in BOOLEAN : er <=> s.errored \/ (~s.errored /\ s.closeError = "abrt")
  BY <1>1
<1> DEFINE t == [s EXCEPT !.errored = er, !.aborted = FALSE, !.badReturn = FALSE]
<1>3. getCallbackCloseError(s) = t
  <2>1. CASE s.errored
    BY <1>1, <1>2, <2>1 DEF getCallbackCloseError, Sound, Tells, ClientState
  <2>2. CASE ~s.errored
    BY <1>1, <1>2, <2>2 DEF getCallbackCloseError, Sound, Tells, ClientState
  <2> QED
    BY <2>1, <2>2
<1>4. t \in ClientState
  BY <1>1 DEF ClientState
<1> QED
  BY <1>1, <1>2, <1>3, <1>4 DEF Resting, Sound, EndsReported, Quiet, Tells, ClientState

(* At the beginning of a callback there is nothing to tell.                *)
LEMMA RestingTells ==
  ASSUME NEW s, Resting(s), s.tcp # "none"
  PROVE  Tells(s)
BY DEF Resting, Sound, Quiet, Tells

(* The same after the callback has set the error to ERR_OK.                *)
LEMMA SetErrorTells ==
  ASSUME NEW s, Resting(s), s.tcp # "none"
  PROVE  /\ Sound(setCloseError(s, "ok")) /\ Tells(setCloseError(s, "ok"))
         /\ setCloseError(s, "ok").obj = "alive"
<1>1. s \in ClientState /\ ~s.errored /\ s.obj = "alive" /\ ~s.aborted
  BY OpenFacts DEF Resting
<1> QED
  BY <1>1, SetErrorSound DEF Resting, Tells, setCloseError, ClientState

(* _sent() keeps the object sound.                                         *)
LEMMA SentSound ==
  ASSUME NEW s, Resting(s), s.tcp = "est", NEW n \in 1..SndBuf, n <= s.flight,
         NEW r \in Reactions
  PROVE  Sound(sent(s, n, r)) /\ Tells(sent(s, n, r))
<1>0. s \in ClientState
  BY DEF Resting, Sound
<1>0a. s.flight \in 0..SndBuf /\ s.unacked \in 0..(W-1) /\ SndBuf \in Nat /\ W \in Nat
  BY <1>0, WAssumption DEF ClientState
<1>0b. s.flight - n \in 0..SndBuf /\ s.unacked - n \in Int
  BY <1>0a
<1>1. /\ s \in ClientState /\ s.flight - n \in 0..SndBuf
      /\ (s.unacked - n) % W \in 0..(W-1)
  BY <1>0, <1>0b, Numbers
<1>2. PICK u \in 0..(W-1), f \in 0..SndBuf : u = (s.unacked - n) % W /\ f = s.flight - n
  BY <1>1
<1> DEFINE a == [s EXCEPT !.unacked = u, !.flight = f]
           b == [a EXCEPT !.busy = FALSE]
           e == setCloseError(b, "ok")
           t == React(e, r)
<1>3. Resting(a) /\ a.tcp # "none" /\ a.unacked = u
  BY <1>1 DEF Resting, Sound, EndsReported, Quiet, ClientState
<1>4. Resting(b) /\ b.tcp # "none"
  BY <1>1, <1>3 DEF Resting, Sound, EndsReported, Quiet, ClientState
<1>5. sent(s, n, r) = IF a.unacked # 0 THEN a ELSE t
  BY <1>2 DEF sent, Use, hasClient
<1> HIDE DEF b
<1>6. Sound(e) /\ Tells(e) /\ e.obj = "alive"
  BY <1>4, SetErrorTells
<1> HIDE DEF e
<1>7. Sound(t) /\ Tells(t)
  BY <1>6, ReactSound
<1> HIDE DEF a, t
<1> QED
  BY <1>3, <1>5, <1>7, RestingTells DEF Resting

(* _poll() keeps the object sound in each of its cases.                    *)
LEMMA PollSound ==
  ASSUME NEW s, Sound(s), Tells(s), s.obj = "alive", NEW r \in Reactions,
         NEW ok \in BOOLEAN, NEW rxTimeout \in BOOLEAN
  PROVE  Sound(poll(s, r, ok, rxTimeout)) /\ Tells(poll(s, r, ok, rxTimeout))
<1> DEFINE unasked == [s EXCEPT !.closeReq = FALSE]
           idle    == [s EXCEPT !.busy = FALSE]
<1>1. Sound(unasked) /\ Tells(unasked)
  BY DEF Sound, EndsReported, Quiet, Tells, ClientState
<1>2. Sound(idle) /\ Tells(idle) /\ idle.obj = "alive"
  BY DEF Sound, EndsReported, Quiet, Tells, ClientState
<1>3. poll(s, r, ok, rxTimeout) \in
        {close_(unasked, ok), React(idle, r), close_(s, ok), React(s, r)}
  BY DEF poll
<1> HIDE DEF unasked, idle
<1> QED
  BY <1>1, <1>2, <1>3, CloseSound, ReactSound

-------------------------------------------------------------------------------
(* A connection may begin on an object that had none.                      *)
LEMMA UnopenedOpens ==
  ASSUME NEW s, Resting(s), ~s.opened
  PROVE  /\ Resting([s EXCEPT !.opened = TRUE, !.tcp = "resolving"])
         /\ Resting([s EXCEPT !.opened = TRUE, !.tcp = "connecting"])
         /\ LET t == [s EXCEPT !.opened = TRUE, !.pcb = TRUE, !.tcp = "est"]
            IN  Resting(t) /\ t.tcp # "none" /\ t.obj = "alive"
<1> DEFINE t == [s EXCEPT !.opened = TRUE, !.pcb = TRUE, !.tcp = "est"]
<1>1. /\ s \in ClientState /\ s.tcp = "none" /\ s.discards = 0 /\ s.obj = "alive"
      /\ ~s.pcb /\ ~s.errored /\ s.closeError # "abrt" /\ ~s.badUse
      /\ ~s.badReturn /\ ~s.aborted
  BY DEF Resting, Sound, EndsReported, Quiet, ClientState
<1>2. ASSUME NEW w \in {"resolving", "connecting"}
      PROVE  Resting([s EXCEPT !.opened = TRUE, !.tcp = w])
  <2> DEFINE v == [s EXCEPT !.opened = TRUE, !.tcp = w]
  <2>1. v \in ClientState
    BY <1>1 DEF ClientState
  <2>2. /\ v.tcp = w /\ v.discards = 0 /\ v.obj = "alive" /\ v.opened
        /\ ~v.pcb /\ ~v.errored /\ v.closeError # "abrt" /\ ~v.badUse
        /\ ~v.badReturn /\ ~v.aborted
    BY <1>1 DEF ClientState
  <2> HIDE DEF v
  <2>3. Resting(v)
    BY <2>1, <2>2 DEF Resting, Sound, EndsReported, Quiet
  <2> QED
    BY <2>3 DEF v
<1>3. t \in ClientState
  BY <1>1 DEF ClientState
<1>4. /\ t.tcp = "est" /\ t.discards = 0 /\ t.obj = "alive" /\ t.opened
      /\ t.pcb /\ ~t.errored /\ t.closeError # "abrt" /\ ~t.badUse /\ ~t.badReturn
      /\ ~t.aborted
  BY <1>1 DEF ClientState
<1> HIDE DEF t
<1>5. Resting(t) /\ t.tcp # "none" /\ t.obj = "alive"
  BY <1>3, <1>4 DEF Resting, Sound, EndsReported, Quiet
<1> QED
  BY <1>2, <1>5 DEF t

-------------------------------------------------------------------------------
(* A new object satisfies the invariant.                                   *)
THEOREM ClientInitially == Init => ClientInv
<1> SUFFICES ASSUME Init PROVE ClientInv
  OBVIOUS
<1>0. PICK d \in BOOLEAN :
        c = [obj |-> "alive", deletes |-> d, pcb |-> FALSE, busy |-> FALSE,
             closeReq |-> FALSE, tcp |-> "none", age |-> 0, unacked |-> 0,
             unsent |-> 0, flight |-> 0, closeError |-> "ok", errored |-> FALSE,
             aborted |-> FALSE, opened |-> FALSE, discards |-> 0,
             outputFailed |-> FALSE, silent |-> FALSE, badUse |-> FALSE,
             badReturn |-> FALSE]
  BY DEF Init
<1>1. c \in ClientState
  BY <1>0, Numbers DEF ClientState
<1>2. /\ listening \in BOOLEAN /\ c.obj = "alive" /\ ~c.pcb /\ c.tcp = "none"
      /\ ~c.errored
      /\ c.closeError = "ok" /\ ~c.aborted /\ ~c.opened /\ c.discards = 0
      /\ ~c.badUse /\ ~c.badReturn
  BY <1>0 DEF Init
<1> QED
  BY <1>1, <1>2 DEF ClientInv, Resting, Sound, EndsReported, Quiet

(* Every callback of lwIP, and every call from loop(), keeps the invariant. *)
THEOREM ClientStepKeeps == ClientInv /\ [Next]_vars => ClientInv'
<1> SUFFICES ASSUME ClientInv, [Next]_vars PROVE ClientInv'
  OBVIOUS
<1> USE DEF ClientInv
<1>1. Sound(c) /\ c \in ClientState /\ ~c.aborted
  BY DEF Resting, Sound
<1>2. CASE UNCHANGED vars
  BY <1>2 DEF vars
<1>3. CASE Begin \/ End
  BY <1>3 DEF Begin, End
<1>4. CASE Resolve
  <2>1. /\ ~c.opened /\ c' = [c EXCEPT !.opened = TRUE, !.tcp = "resolving"]
        /\ listening' = listening
    BY <1>4 DEF Resolve
  <2> QED
    BY <1>1, <2>1, UnopenedOpens
<1>5. CASE Connect
  <2>1. /\ ~c.opened /\ c' = [c EXCEPT !.opened = TRUE, !.tcp = "connecting"]
        /\ listening' = listening
    BY <1>5 DEF Connect
  <2> QED
    BY <1>1, <2>1, UnopenedOpens
<1>6. CASE CallbackError
  <2>1. c.tcp # "none"
    BY <1>6 DEF CallbackError
  <2> QED
    BY <1>1, <1>6, <2>1, ErrorSound, ReturnRests DEF CallbackError
<1>7. CASE Error
  <2>1. c.tcp # "none"
    BY <1>7 DEF Error
  <2> QED
    BY <1>1, <1>7, <2>1, ErrorSound DEF Error, Resting
<1>8. CASE Tick
  <2>1. /\ c.age + 1 \in 0..AckTimeout /\ c' = [c EXCEPT !.age = c.age + 1]
        /\ listening' = listening
    BY <1>1, <1>8, TimeoutAssumption DEF Tick, ClientState
  <2> QED
    BY <1>1, <2>1 DEF Resting, Sound, EndsReported, Quiet, ClientState
<1>9. CASE PollAny
  <2>1. PICK r \in Reactions, ok, x \in BOOLEAN : Poll(r, ok, x)
    BY <1>9 DEF PollAny
  <2>2. c.tcp # "none"
    BY <2>1 DEF Poll
  <2> QED
    BY <2>1, <2>2, SetErrorTells, PollSound, ReturnRests DEF Poll
<1>10. ASSUME NEW r \in Reactions, Accept(r) PROVE ClientInv'
  <2> DEFINE s == [c EXCEPT !.opened = TRUE, !.pcb = TRUE, !.tcp = "est"]
  <2>1. Resting(s) /\ s.tcp # "none" /\ s.obj = "alive"
    BY <1>1, <1>10, UnopenedOpens DEF Accept
  <2>2. c' = getCallbackCloseError(React(s, r)) /\ listening' = listening
    BY <1>10 DEF Accept
  <2> HIDE DEF s
  <2> QED
    BY <2>1, <2>2, RestingTells, ReactSound, ReturnRests DEF Resting
<1>11. ASSUME NEW r \in Reactions, Connected(r) PROVE ClientInv'
  <2> DEFINE s == [c EXCEPT !.tcp = "est", !.pcb = TRUE, !.busy = FALSE]
  <2>1. Resting(s) /\ s.tcp # "none" /\ s.obj = "alive"
    BY <1>1, <1>11 DEF Connected, Resting, Sound, EndsReported, Quiet, ClientState
  <2>2. c' = getCallbackCloseError(React(s, r)) /\ listening' = listening
    BY <1>11 DEF Connected
  <2> HIDE DEF s
  <2> QED
    BY <2>1, <2>2, RestingTells, ReactSound, ReturnRests DEF Resting
<1>12. ASSUME NEW r \in Reactions, Foreground(r) PROVE ClientInv'
  <2>1. Sound(React(c, r))
    BY <1>1, <1>12, ReactSound DEF Foreground
  <2>2. c' = [React(c, r) EXCEPT !.aborted = FALSE] /\ listening' = listening
    BY <1>12 DEF Foreground
  <2> QED
    BY <2>1, <2>2 DEF Resting, Sound, EndsReported, Quiet, ClientState
<1>13. ASSUME NEW found \in BOOLEAN, NEW connects \in BOOLEAN, DnsFound(found, connects)
       PROVE  ClientInv'
  <2> DEFINE s == [c EXCEPT !.tcp = "none"]
  <2>1. c.tcp = "resolving" /\ c.tcp # "none" /\ listening' = listening
    BY <1>13 DEF DnsFound
  <2>2. CASE found /\ connects
    BY <1>1, <1>13, <2>1, <2>2
       DEF DnsFound, Resting, Sound, EndsReported, Quiet, ClientState
  <2>3. CASE found /\ ~connects
    BY <1>1, <1>13, <2>1, <2>3
       DEF DnsFound, Resting, Sound, EndsReported, Quiet, ClientState
  <2>4. CASE ~found
    <3>1. c' = discard(s)
      BY <1>13, <2>4 DEF DnsFound
    <3>2. /\ s \in ClientState /\ s.discards = 0 /\ s.opened /\ s.tcp = "none" /\ ~s.pcb
          /\ ~s.badUse /\ ~s.badReturn /\ ~s.aborted
      BY <1>1, <2>1, OpenFacts DEF Sound, EndsReported, ClientState
    <3> HIDE DEF s
    <3> QED
      BY <2>1, <3>1, <3>2, DiscardSound DEF Resting
  <2> QED
    BY <2>2, <2>3, <2>4
<1>14. ASSUME NEW n \in 1..SndBuf, NEW r \in Reactions, Sent(n, r) PROVE ClientInv'
  BY <1>14, SentSound, ReturnRests DEF Sent
<1>15. ASSUME NEW r1 \in Reactions, NEW r2 \in Reactions, Recv(r1, r2) PROVE ClientInv'
  <2> DEFINE s == setCloseError(c, "ok")
             t == React(s, r1)
             u == IF hasClient(t) THEN React(t, r2) ELSE t
  <2>1. c.tcp # "none" /\ c' = getCallbackCloseError(u) /\ listening' = listening
    BY <1>15 DEF Recv
  <2>2. Sound(s) /\ Tells(s) /\ s.obj = "alive"
    BY <2>1, SetErrorTells
  <2> HIDE DEF s
  <2>3. Sound(t) /\ Tells(t)
    BY <2>2, ReactSound
  <2> HIDE DEF t
  <2>4. Sound(u) /\ Tells(u)
    BY <2>3, ReactSound DEF hasClient
  <2> HIDE DEF u
  <2> QED
    BY <2>1, <2>4, ReturnRests
<1>16. ASSUME NEW ok \in BOOLEAN, PeerCloses(ok) PROVE ClientInv'
  BY <1>1, <1>16, CloseSound, RestingTells, ReturnRests DEF PeerCloses
<1>17. ASSUME NEW ok \in BOOLEAN, Destroy(ok) PROVE ClientInv'
  <2> DEFINE s == close_(c, ok)
  <2>1. Sound(s) /\ s.tcp = "none" /\ s.opened
    BY <1>1, <1>17, CloseSound DEF Destroy
  <2>2. c' = [s EXCEPT !.obj = "deleted", !.aborted = FALSE] /\ listening' = listening
    BY <1>17 DEF Destroy
  <2> HIDE DEF s
  <2> QED
    BY <2>1, <2>2 DEF Resting, Sound, EndsReported, Quiet, ClientState
<1> QED
  BY <1>2, <1>3, <1>4, <1>5, <1>6, <1>7, <1>8, <1>9, <1>10, <1>11, <1>12, <1>13,
     <1>14, <1>15, <1>16, <1>17 DEF Next

(* The invariant holds in every reachable state.                           *)
THEOREM Invariant == Spec => []ClientInv
BY ClientInitially, ClientStepKeeps, PTL DEF Spec

(* Every variable keeps its type: the lengths never leave 0..W-1, and lwIP *)
(* never holds more than its buffer.                                       *)
THEOREM ClientTypeCorrect == Spec => []TypeOK
<1>1. ClientInv => TypeOK
  BY DEF ClientInv, Resting, Sound, TypeOK
<1> QED
  BY <1>1, Invariant, PTL

(* No callback uses an object that its handler deleted, and lwIP is told of *)
(* exactly the connections that were aborted in a callback                 *)
(* (ACErrorTracker).                                                       *)
THEOREM CallbacksAreSafe == Spec => []CallbacksSafe
<1>1. ClientInv => CallbacksSafe
  BY DEF ClientInv, Resting, Sound, EndsReported, CallbacksSafe
<1> QED
  BY <1>1, Invariant, PTL

(* onDisconnect runs exactly once for every connection that began, except  *)
(* where connect() fails in _dns_found.                                    *)
THEOREM EveryEndIsReportedOnce == Spec => []DisconnectReportedOnce
<1>1. ClientInv => DisconnectReportedOnce
  BY DEF ClientInv, Resting, Sound, EndsReported, DisconnectReportedOnce, ClientState
<1> QED
  BY <1>1, Invariant, PTL

-------------------------------------------------------------------------------
(* Sums and differences of lengths, without the modulus.                   *)
LEMMA SumUnfolded ==
  ASSUME NEW a \in 0..(W-1), NEW b \in 0..(W-1)
  PROVE  (a + b) % W = IF a + b < W THEN a + b ELSE a + b - W
<1>1. W \in Nat \ {0}
  BY WAssumption
<1>2. CASE a + b < W
  BY <1>1, <1>2, SMT
<1>3. CASE a + b >= W
  <2>1. PICK x \in 0..(W-1) : x = a + b - W
    BY <1>1, <1>3
  <2>2. (x + W) % W = x
    BY <1>1, <2>1, SMTT(30)
  <2>3. a + b = x + W
    BY <1>1, <2>1
  <2>4. ~(a + b < W)
    BY <1>1, <1>3
  <2>5. (a + b) % W = x
    BY <2>2, <2>3, Zenon
  <2> QED
    BY <2>1, <2>4, <2>5, Zenon
<1> QED
  BY <1>1, <1>2, <1>3

LEMMA DifferenceUnfolded ==
  ASSUME NEW a \in 0..(W-1), NEW b \in 0..(W-1)
  PROVE  (a - b) % W = IF a >= b THEN a - b ELSE a - b + W
<1>1. W \in Nat \ {0}
  BY WAssumption
<1>2. CASE a >= b
  BY <1>1, <1>2, SMT
<1>3. CASE a < b
  <2>1. PICK x \in 0..(W-1) : x = a - b + W
    BY <1>1, <1>3
  <2>2. (x - W) % W = x
    BY <1>1, <2>1, SMTT(30)
  <2>3. a - b = x - W
    BY <1>1, <2>1
  <2>4. ~(a >= b)
    BY <1>1, <1>3
  <2>5. (a - b) % W = x
    BY <2>2, <2>3, Zenon
  <2> QED
    BY <2>1, <2>4, <2>5, Zenon
<1> QED
  BY <1>1, <1>2, <1>3

(* One more unsent byte is one more byte in all, if there is room for it.  *)
LEMMA AddOne ==
  ASSUME NEW a \in 0..(W-1), NEW b \in 0..(W-1), ((a + b) % W) + 1 < W,
         NEW y \in 0..(W-1), y = (b + 1) % W
  PROVE  (a + y) % W = ((a + b) % W) + 1
<1>1. W \in Nat \ {0} /\ (a + b) % W \in 0..(W-1)
  BY WAssumption, SMT
<1>2. 1 \in 0..(W-1)
  BY <1>1
<1>4. y = IF b + 1 < W THEN b + 1 ELSE b + 1 - W
  BY <1>2, SumUnfolded
<1>5. (a + y) % W = IF a + y < W THEN a + y ELSE a + y - W
  BY SumUnfolded
<1>6. (a + b) % W = IF a + b < W THEN a + b ELSE a + b - W
  BY SumUnfolded
<1> QED
  BY <1>1, <1>4, <1>5, <1>6

(* Acknowledged bytes are taken off the sum, also where _tx_unacked_len    *)
(* wraps below zero.                                                       *)
LEMMA TakeSome ==
  ASSUME NEW a \in 0..(W-1), NEW b \in 0..(W-1), NEW n \in 1..(W-1), n <= (a + b) % W,
         NEW y \in 0..(W-1), y = (a - n) % W
  PROVE  (y + b) % W = ((a + b) % W) - n
<1>1. W \in Nat \ {0} /\ (a + b) % W \in 0..(W-1) /\ n \in 0..(W-1)
  BY WAssumption, SMT
<1>4. y = IF a >= n THEN a - n ELSE a - n + W
  BY <1>1, DifferenceUnfolded
<1>5. (y + b) % W = IF y + b < W THEN y + b ELSE y + b - W
  BY SumUnfolded
<1>6. (a + b) % W = IF a + b < W THEN a + b ELSE a + b - W
  BY SumUnfolded
<1> QED
  BY <1>1, <1>4, <1>5, <1>6

(* The lengths count what lwIP holds; nothing is counted before the        *)
(* connection is established.                                              *)
Accounted(s) ==
  /\ s.pcb /\ ~s.outputFailed => (s.unacked + s.unsent) % W = s.flight
  /\ ~s.opened \/ s.tcp \in {"resolving", "connecting"} =>
       s.unacked = 0 /\ s.unsent = 0 /\ s.flight = 0

(* A length is its own remainder.                                          *)
LEMMA Small == \A x \in 0..(W-1) : (x + 0) % W = x
BY WAssumption, SMT

(* Nothing is counted any more when a connection is over.                  *)
LEMMA OverAccounted ==
  ASSUME NEW s, Sound(s), s.tcp = "none", s.opened
  PROVE  Accounted(s)
BY DEF Sound, EndsReported, Accounted

(* _close() keeps the account.                                             *)
LEMMA CloseAccounted ==
  ASSUME NEW s, Sound(s), Accounted(s), NEW ok \in BOOLEAN
  PROVE  Accounted(close_(s, ok))
<1>1. CASE ~s.pcb
  BY <1>1 DEF close_
<1>2. CASE s.pcb
  <2>1. s.tcp = "est" /\ s.opened
    BY <1>2 DEF Sound, EndsReported
  <2> QED
    BY <2>1, CloseSound, OverAccounted
<1> QED
  BY <1>1, <1>2

(* add() counts the byte it adds as unsent.                                *)
LEMMA AddAccounted ==
  ASSUME NEW s, Sound(s), Accounted(s), NEW ok \in BOOLEAN
  PROVE  Accounted(add(s, ok))
<1>1. CASE ok /\ space(s) > 0
  <2>1. /\ s \in ClientState /\ s.pcb /\ s.tcp = "est" /\ s.opened
        /\ s.flight \in 0..SndBuf /\ SndBuf - s.flight > 0
        /\ s.unacked \in 0..(W-1) /\ s.unsent \in 0..(W-1)
    BY <1>1 DEF Sound, EndsReported, space, connected, ClientState
  <2>2. s.flight + 1 < W
    BY <2>1, WAssumption
  <2>2a. s.unsent + 1 \in Int /\ s.flight + 1 \in 0..SndBuf
    BY <2>1, WAssumption
  <2>2b. (s.unsent + 1) % W \in 0..(W-1)
    BY <2>2a, Numbers
  <2>3. PICK v \in 0..(W-1), f \in 0..SndBuf :
          v = (s.unsent + 1) % W /\ f = s.flight + 1
    BY <2>2a, <2>2b
  <2>4. ~s.outputFailed => (s.unacked + v) % W = f
    <3>1. SUFFICES ASSUME ~s.outputFailed PROVE (s.unacked + v) % W = f
      OBVIOUS
    <3>2. (s.unacked + s.unsent) % W = s.flight
      BY <2>1, <3>1 DEF Accounted
    <3>3. ((s.unacked + s.unsent) % W) + 1 < W
      BY <2>2, <3>2
    <3>4. (s.unacked + v) % W = ((s.unacked + s.unsent) % W) + 1
      BY <2>1, <2>3, <3>3, AddOne
    <3> QED
      BY <2>3, <3>2, <3>4
  <2> DEFINE t == [s EXCEPT !.unsent = v, !.flight = f]
  <2>5. add(s, ok) = t
    BY <1>1, <2>3 DEF add
  <2>6. /\ t.unsent = v /\ t.flight = f /\ t.unacked = s.unacked
        /\ (t.outputFailed <=> s.outputFailed)
        /\ t.tcp = "est" /\ t.opened
    BY <2>1 DEF ClientState
  <2> HIDE DEF t
  <2> QED
    BY <2>4, <2>5, <2>6 DEF Accounted
<1>2. CASE ~(ok /\ space(s) > 0)
  BY <1>2 DEF add
<1> QED
  BY <1>1, <1>2

(* send() counts as unacknowledged what it takes from unsent, or remembers *)
(* that tcp_output() failed.                                               *)
LEMMA SendAccounted ==
  ASSUME NEW s, Sound(s), Accounted(s), s.pcb, NEW ok \in BOOLEAN
  PROVE  Accounted(send(s, ok))
<1>1. /\ s \in ClientState /\ s.tcp = "est" /\ s.opened
      /\ s.unacked \in 0..(W-1) /\ s.unsent \in 0..(W-1)
  BY DEF Sound, EndsReported, ClientState
<1>2. CASE ok
  <2>1. PICK n \in 0..(W-1) : n = (s.unacked + s.unsent) % W
    BY <1>1, Numbers
  <2>2. send(s, ok) = [s EXCEPT !.busy = TRUE, !.age = 0, !.unsent = 0, !.unacked = n]
    BY <1>2, <2>1 DEF send
  <2>3. (n + 0) % W = n
    BY Small
  <2> QED
    BY <1>1, <2>1, <2>2, <2>3 DEF Accounted, ClientState
<1>3. CASE ~ok
  <2>1. PICK f \in BOOLEAN : f <=> s.outputFailed \/ s.unsent > 0
    OBVIOUS
  <2>2. CASE f
    <3>1. send(s, ok).outputFailed /\ send(s, ok).tcp = "est" /\ send(s, ok).opened
      BY <1>1, <1>3, <2>1, <2>2 DEF send, ClientState
    <3> QED
      BY <3>1 DEF Accounted
  <2>3. CASE ~f
    <3>1. s.unsent = 0 /\ ~s.outputFailed
      BY <1>1, <2>1, <2>3
    <3>2. /\ send(s, ok).unsent = 0 /\ send(s, ok).unacked = s.unacked
          /\ send(s, ok).flight = s.flight
          /\ send(s, ok).tcp = "est" /\ send(s, ok).opened
      BY <1>1, <1>3 DEF send, ClientState
    <3> QED
      BY <3>1, <3>2 DEF Accounted
  <2> QED
    BY <2>2, <2>3
<1> QED
  BY <1>2, <1>3
(* Whatever a handler does keeps the account.                              *)
LEMMA ReactAccounted ==
  ASSUME NEW s, Sound(s), Accounted(s), s.obj = "alive", NEW r \in Reactions
  PROVE  Accounted(React(s, r))
<1> DEFINE asked == [s EXCEPT !.closeReq = TRUE]
<1>1. Accounted(asked)
  BY DEF Sound, Accounted, ClientState
<1>2. r \in {"none", "add", "send", "write", "writeFails", "outputFails",
            "close", "closeNow", "closeAborts"}
  BY ReactionsAssumption
<1>3. \A ok, outputOk \in BOOLEAN : Accounted(write(s, ok, outputOk))
  <2> SUFFICES ASSUME NEW ok \in BOOLEAN, NEW outputOk \in BOOLEAN
               PROVE  Accounted(write(s, ok, outputOk))
    OBVIOUS
  <2>1. CASE ok /\ space(s) > 0
    <3>1. s.pcb
      BY <2>1 DEF space, connected
    <3>2. Sound(add(s, ok)) /\ add(s, ok).pcb
      BY <3>1, AddSound
    <3>3. Accounted(add(s, ok))
      BY AddAccounted
    <3>4. write(s, ok, outputOk) = send(add(s, ok), outputOk)
      BY <2>1 DEF write
    <3> QED
      BY <3>2, <3>3, <3>4, SendAccounted
  <2>2. CASE ~(ok /\ space(s) > 0)
    BY <2>2 DEF write
  <2> QED
    BY <2>1, <2>2
<1>4. s.pcb => Accounted(send(s, TRUE))
  BY SendAccounted
<1>5. \A ok \in BOOLEAN : Accounted(close_(s, ok))
  BY CloseAccounted
<1>6. Accounted(add(s, TRUE))
  BY AddAccounted
<1>7. \/ React(s, r) \in {s, add(s, TRUE), write(s, TRUE, TRUE),
                         write(s, FALSE, TRUE), write(s, TRUE, FALSE), asked,
                         close_(s, TRUE), close_(s, FALSE)}
      \/ s.pcb /\ React(s, r) = send(s, TRUE)
  <2>1. s.obj # "deleted"
    OBVIOUS
  <2>2. React(s, r) = CASE r = "none"        -> s
           [] r = "add"         -> add(s, TRUE)
           [] r = "send"        -> IF s.pcb THEN send(s, TRUE) ELSE s
           [] r = "write"       -> write(s, TRUE, TRUE)
           [] r = "writeFails"  -> write(s, FALSE, TRUE)
           [] r = "outputFails" -> write(s, TRUE, FALSE)
           [] r = "close"       -> close(s, FALSE, TRUE)
           [] r = "closeNow"    -> close(s, TRUE, TRUE)
           [] r = "closeAborts" -> close(s, TRUE, FALSE)
    BY <2>1 DEF React, Use
  <2> QED
    BY <1>2, <2>2 DEF close
<1> HIDE DEF asked
<1> QED
  BY <1>1, <1>3, <1>4, <1>5, <1>6, <1>7

(* Setting the error keeps the account.                                    *)
LEMMA SetErrorAccounted ==
  ASSUME NEW s, Sound(s), Accounted(s), NEW e
  PROVE  Accounted(setCloseError(s, e))
BY DEF setCloseError, Sound, Accounted, ClientState

(* Returning from a callback keeps the account.                            *)
LEMMA ReturnAccounted ==
  ASSUME NEW s, Sound(s), Accounted(s)
  PROVE  Accounted(getCallbackCloseError(s))
<1> DEFINE t == getCallbackCloseError(s)
<1>1. /\ t.pcb = s.pcb /\ t.outputFailed = s.outputFailed /\ t.unacked = s.unacked
      /\ t.unsent = s.unsent /\ t.flight = s.flight /\ t.opened = s.opened
      /\ t.tcp = s.tcp
  BY DEF getCallbackCloseError, Sound, ClientState
<1> HIDE DEF t
<1>2. Accounted(t)
  BY <1>1 DEF Accounted
<1> QED
  BY <1>2 DEF t
(* Acknowledged bytes leave lwIP and the account together.                 *)
LEMMA SentAccounted ==
  ASSUME NEW s, Resting(s), Accounted(s), s.tcp = "est", NEW n \in 1..SndBuf,
         n <= s.flight,
         NEW r \in Reactions
  PROVE  Accounted(sent(s, n, r))
<1>1. /\ s \in ClientState /\ s.pcb /\ s.opened /\ s.obj = "alive" /\ Sound(s)
      /\ s.flight \in 0..SndBuf /\ s.unacked \in 0..(W-1) /\ s.unsent \in 0..(W-1)
      /\ SndBuf \in Nat /\ W \in Nat /\ SndBuf < W
  BY WAssumption DEF Resting, Sound, EndsReported, ClientState
<1>2. s.flight - n \in 0..SndBuf /\ s.unacked - n \in Int /\ n \in 1..(W-1)
  BY <1>1
<1>3. (s.unacked - n) % W \in 0..(W-1)
  BY <1>2, Numbers
<1>4. PICK u \in 0..(W-1), f \in 0..SndBuf : u = (s.unacked - n) % W /\ f = s.flight - n
  BY <1>2, <1>3
<1> DEFINE a == [s EXCEPT !.unacked = u, !.flight = f]
           b == [a EXCEPT !.busy = FALSE]
           e == setCloseError(b, "ok")
           t == React(e, r)
<1>5. ~s.outputFailed => (u + s.unsent) % W = f
  <2>1. SUFFICES ASSUME ~s.outputFailed PROVE (u + s.unsent) % W = f
    OBVIOUS
  <2>2. (s.unacked + s.unsent) % W = s.flight
    BY <1>1, <2>1 DEF Accounted
  <2>3. n <= (s.unacked + s.unsent) % W
    BY <2>2
  <2>3a. /\ s.unacked \in 0..(W-1) /\ s.unsent \in 0..(W-1) /\ n \in 1..(W-1)
         /\ u = (s.unacked - n) % W
    BY <1>1, <1>2, <1>4
  <2>4. (u + s.unsent) % W = ((s.unacked + s.unsent) % W) - n
    BY <2>3, <2>3a, TakeSome
  <2> QED
    BY <1>4, <2>2, <2>4, <1>1
<1>6. /\ a.unacked = u /\ a.flight = f /\ a.unsent = s.unsent
      /\ (a.outputFailed <=> s.outputFailed)
      /\ a.tcp = "est" /\ a.opened
  BY <1>1 DEF ClientState
<1>7. Resting(a) /\ a.tcp # "none" /\ a \in ClientState
  BY <1>1 DEF Resting, Sound, EndsReported, Quiet, ClientState
<1>8. sent(s, n, r) = IF a.unacked # 0 THEN a ELSE t
  BY <1>4 DEF sent, Use, hasClient
<1> HIDE DEF a
<1>9. Accounted(a)
  BY <1>5, <1>6 DEF Accounted
<1>10. Resting(b) /\ b.tcp # "none"
  BY <1>7 DEF Resting, Sound, EndsReported, Quiet, ClientState
<1>11. Accounted(b)
  BY <1>7, <1>9 DEF Accounted, ClientState
<1> HIDE DEF b
<1>12. Sound(e) /\ e.obj = "alive" /\ Accounted(e)
  BY <1>10, <1>11, SetErrorTells, SetErrorAccounted DEF Resting
<1> HIDE DEF e
<1>13. Accounted(t)
  BY <1>12, ReactAccounted
<1> HIDE DEF t
<1> QED
  BY <1>8, <1>9, <1>13

(* _poll() keeps the account in each of its cases.                         *)
LEMMA PollAccounted ==
  ASSUME NEW s, Sound(s), Accounted(s), s.obj = "alive", NEW r \in Reactions,
         NEW ok \in BOOLEAN, NEW rxTimeout \in BOOLEAN
  PROVE  Accounted(poll(s, r, ok, rxTimeout))
<1> DEFINE unasked == [s EXCEPT !.closeReq = FALSE]
           idle    == [s EXCEPT !.busy = FALSE]
<1>1. Sound(unasked) /\ Accounted(unasked)
  BY DEF Sound, EndsReported, Quiet, Accounted, ClientState
<1>2. Sound(idle) /\ Accounted(idle) /\ idle.obj = "alive"
  BY DEF Sound, EndsReported, Quiet, Accounted, ClientState
<1>3. poll(s, r, ok, rxTimeout) \in
        {close_(unasked, ok), React(idle, r), close_(s, ok), React(s, r)}
  BY DEF poll
<1> HIDE DEF unasked, idle
<1> QED
  BY <1>1, <1>2, <1>3, CloseAccounted, ReactAccounted

(* A connection begins with an empty account.                              *)
LEMMA OpenAccounted ==
  ASSUME NEW s, Sound(s), Accounted(s), ~s.opened \/ s.tcp = "connecting"
  PROVE  /\ Accounted([s EXCEPT !.opened = TRUE, !.pcb = TRUE, !.tcp = "est"])
         /\ Accounted([s EXCEPT !.tcp = "est", !.pcb = TRUE, !.busy = FALSE])
<1>1. s \in ClientState /\ s.unacked = 0 /\ s.unsent = 0 /\ s.flight = 0 
  BY DEF Sound, Accounted
<1>2. (0 + 0) % W = 0
  BY Small, Numbers
<1>3. s.tcp = "connecting" => s.opened
  BY DEF Sound, EndsReported
<1> DEFINE t == [s EXCEPT !.opened = TRUE, !.pcb = TRUE, !.tcp = "est"]
           u == [s EXCEPT !.tcp = "est", !.pcb = TRUE, !.busy = FALSE]
<1>4. t.unacked = 0 /\ t.unsent = 0 /\ t.flight = 0
  BY <1>1 DEF ClientState
<1>5. u.unacked = 0 /\ u.unsent = 0 /\ u.flight = 0
  BY <1>1 DEF ClientState
<1> HIDE DEF t, u
<1>6. Accounted(t)
  BY <1>2, <1>4 DEF Accounted
<1>7. Accounted(u)
  BY <1>2, <1>5 DEF Accounted
<1> QED
  BY <1>6, <1>7 DEF t, u

(* The account of a new object is empty.                                   *)
THEOREM LengthsInitially == Init => Accounted(c)
BY DEF Init, Accounted

(* Every step keeps the account.                                           *)
THEOREM StepKeepsLengths == ClientInv /\ Accounted(c) /\ [Next]_vars => Accounted(c)'
<1> SUFFICES ASSUME ClientInv, Accounted(c), [Next]_vars PROVE Accounted(c')
  OBVIOUS
<1>1. Resting(c) /\ Sound(c) /\ c \in ClientState /\ ~c.aborted
  BY DEF ClientInv, Resting, Sound
<1>2. CASE UNCHANGED vars
  BY <1>2 DEF vars
<1>3. CASE Begin \/ End
  BY <1>3 DEF Begin, End
<1>4. CASE Resolve
  BY <1>1, <1>4 DEF Resolve, Sound, EndsReported, Accounted, ClientState
<1>5. CASE Connect
  BY <1>1, <1>5 DEF Connect, Sound, EndsReported, Accounted, ClientState
<1>6. CASE CallbackError \/ Error
  <2>1. /\ c.tcp # "none"
        /\ c' \in {sError(c, "rst"), getCallbackCloseError(sError(c, "rst"))}
    BY <1>6 DEF CallbackError, Error
  <2> QED
    BY <1>1, <2>1, ErrorSound, OverAccounted, ReturnAccounted
<1>8. CASE Tick
  BY <1>1, <1>8 DEF Tick, Accounted, ClientState
<1>9. CASE PollAny
  <2>1. PICK r \in Reactions, ok, x \in BOOLEAN : Poll(r, ok, x)
    BY <1>9 DEF PollAny
  <2>2. c.tcp # "none"
    BY <2>1 DEF Poll
  <2>3. /\ Sound(setCloseError(c, "ok")) /\ Tells(setCloseError(c, "ok"))
        /\ setCloseError(c, "ok").obj = "alive" /\ Accounted(setCloseError(c, "ok"))
    BY <1>1, <2>2, SetErrorTells, SetErrorAccounted
  <2>4. /\ Sound(poll(setCloseError(c, "ok"), r, ok, x))
        /\ Accounted(poll(setCloseError(c, "ok"), r, ok, x))
    BY <2>3, PollSound, PollAccounted
  <2> QED
    BY <2>1, <2>4, ReturnAccounted DEF Poll
<1>10. ASSUME NEW r \in Reactions, Accept(r) PROVE Accounted(c')
  <2> DEFINE s == [c EXCEPT !.opened = TRUE, !.pcb = TRUE, !.tcp = "est"]
  <2>1. Resting(s) /\ s.obj = "alive" /\ Accounted(s)
    BY <1>1, <1>10, UnopenedOpens, OpenAccounted DEF Accept
  <2>2. c' = getCallbackCloseError(React(s, r))
    BY <1>10 DEF Accept
  <2> HIDE DEF s
  <2> QED
    BY <2>1, <2>2, ReactSound, ReactAccounted, ReturnAccounted DEF Resting
<1>11. ASSUME NEW r \in Reactions, Connected(r) PROVE Accounted(c')
  <2> DEFINE s == [c EXCEPT !.tcp = "est", !.pcb = TRUE, !.busy = FALSE]
  <2>1. Sound(s) /\ s.obj = "alive"
    BY <1>1, <1>11 DEF Connected, Sound, EndsReported, Quiet, ClientState
  <2>2. Accounted(s)
    BY <1>1, <1>11, OpenAccounted DEF Connected
  <2>3. c' = getCallbackCloseError(React(s, r))
    BY <1>11 DEF Connected
  <2> HIDE DEF s
  <2> QED
    BY <2>1, <2>2, <2>3, ReactSound, ReactAccounted, ReturnAccounted
<1>12. ASSUME NEW r \in Reactions, Foreground(r) PROVE Accounted(c')
  <2>1. Sound(React(c, r)) /\ Accounted(React(c, r))
    BY <1>1, <1>12, ReactSound, ReactAccounted DEF Foreground
  <2>2. c' = [React(c, r) EXCEPT !.aborted = FALSE]
    BY <1>12 DEF Foreground
  <2> QED
    BY <2>1, <2>2 DEF Sound, Accounted, ClientState
<1>13. ASSUME NEW found \in BOOLEAN, NEW connects \in BOOLEAN, DnsFound(found, connects)
       PROVE  Accounted(c')
  <2>1. c.tcp = "resolving" /\ c.opened /\ ~c.pcb
    BY <1>1, <1>13 DEF DnsFound, Sound, EndsReported
  <2>2. CASE found /\ connects
    BY <1>1, <1>13, <2>1, <2>2 DEF DnsFound, Accounted, ClientState
  <2>3. CASE found /\ ~connects
    BY <1>1, <1>13, <2>1, <2>3 DEF DnsFound, Accounted, ClientState
  <2>4. CASE ~found
    BY <1>1, <1>13, <2>1, <2>4 DEF DnsFound, discard, Accounted, ClientState
  <2> QED
    BY <2>2, <2>3, <2>4
<1>14. ASSUME NEW n \in 1..SndBuf, NEW r \in Reactions, Sent(n, r) PROVE Accounted(c')
  BY <1>1, <1>14, SentSound, SentAccounted, ReturnAccounted DEF Sent
<1>15. ASSUME NEW r1 \in Reactions, NEW r2 \in Reactions, Recv(r1, r2)
       PROVE  Accounted(c')
  <2> DEFINE s == setCloseError(c, "ok")
             t == React(s, r1)
             u == IF hasClient(t) THEN React(t, r2) ELSE t
  <2>1. c.tcp # "none" /\ c' = getCallbackCloseError(u)
    BY <1>15 DEF Recv
  <2>2. Sound(s) /\ s.obj = "alive" /\ Accounted(s)
    BY <1>1, <2>1, SetErrorTells, SetErrorAccounted
  <2> HIDE DEF s
  <2>3. Sound(t) /\ Accounted(t)
    BY <2>2, ReactSound, ReactAccounted
  <2> HIDE DEF t
  <2>4. Sound(u) /\ Accounted(u)
    BY <2>3, ReactSound, ReactAccounted DEF hasClient
  <2> HIDE DEF u
  <2> QED
    BY <2>1, <2>4, ReturnAccounted
<1>16. ASSUME NEW ok \in BOOLEAN, PeerCloses(ok) PROVE Accounted(c')
  BY <1>1, <1>16, CloseSound, CloseAccounted, ReturnAccounted DEF PeerCloses
<1>17. ASSUME NEW ok \in BOOLEAN, Destroy(ok) PROVE Accounted(c')
  <2> DEFINE s == close_(c, ok)
  <2>1. Sound(s) /\ s.tcp = "none" /\ s.opened
    BY <1>1, <1>17, CloseSound DEF Destroy
  <2>2. c' = [s EXCEPT !.obj = "deleted", !.aborted = FALSE]
    BY <1>17 DEF Destroy
  <2> HIDE DEF s
  <2> QED
    BY <2>1, <2>2 DEF Sound, EndsReported, Accounted, ClientState
<1> QED
  BY <1>2, <1>3, <1>4, <1>5, <1>6, <1>8, <1>9, <1>10, <1>11, <1>12, <1>13,
     <1>14, <1>15, <1>16, <1>17 DEF Next

(* Unless tcp_output() failed, _tx_unacked_len and _tx_unsent_len together *)
(* are what lwIP still holds.                                              *)
THEOREM LengthsAgree == Spec => []TxAccounted
<1>1. Spec => [](ClientInv /\ Accounted(c))
  BY ClientInitially, ClientStepKeeps, LengthsInitially, StepKeepsLengths, PTL DEF Spec
<1>2. ClientInv /\ Accounted(c) => TxAccounted
  BY DEF Accounted, TxAccounted, connected
<1> QED
  BY <1>1, <1>2, PTL

-------------------------------------------------------------------------------

Kinds  == {"accept", "recv", "sent", "poll", "fin", "error"}

(* What is in the queue: an event of lwIP or the packet of                 *)
(* _tcp_clear_events().                                                    *)
Packet == [kind : Kinds \cup {"clear"}, arg : Clients, n : Nat]
Stages == {"react", "after", "close", "clear", "tcp_close", "api", "return", "abort", "discard"}
Sweep  == {"first", "back", "rest"}

cur == task.e.arg
Life(u) == client[u].life
State(u) == conn[u].state
IsEvent(e) == e \in Packet /\ e.kind # "clear" /\ e.n \in 1..sentCount
IsClear(e) == e \in Packet /\ e = Task!Clear(e.arg)
InType(e) == IsEvent(e) \/ IsClear(e)

(* The types.  An event was sent: its number has been given out.           *)
QueueOK == queue \in Seq(Packet) /\ \A i \in 1..Len(queue) : InType(queue[i])
SlotsOK == slots \in [1..Slots -> Nat] /\ closedIndex \in Nat \ {0}
ClientOK == client \in [Clients -> [life : {"none", "live", "deleted"}, pcb : BOOLEAN,
                                   slot : {Task!NoSlot} \cup 1..Slots, overtaken : BOOLEAN]]
ConnOK == conn \in [Clients -> [state : {"none", "open", "closed", "reset"}, args : BOOLEAN]]
LwipOK ==
  /\ sentCount \in Nat
  /\ SlotsOK /\ ClientOK /\ ConnOK
  /\ lwip \in [pc : {"idle", "send", "fin"}, e : Packet \cup {Task!NoEvent}]
  /\ lwip.pc # "idle" => IsEvent(lwip.e)
TaskRecords == [pc : {"idle", "run"} \cup Stages \cup Sweep, e : Packet \cup {Task!NoEvent},
                first : Packet \cup {Task!NoEvent}, packet : Packet \cup {Task!NoEvent},
                api : {"none", "write", "ack", "recved", "close", "abort"}]
TaskOK ==
  /\ task \in TaskRecords
  /\ task.pc = "run" => InType(task.e)
  /\ task.pc \in Stages => IsEvent(task.e)
  /\ task.pc \in Sweep => IsClear(task.e)
  /\ task.pc \in {"back", "rest"} => InType(task.first)
  /\ task.pc = "back" => InType(task.packet)
TaskTypes == QueueOK /\ LwipOK /\ TaskOK

(* What is left of a sequence without its head.                            *)
LEMMA TailAt ==
  ASSUME NEW D, NEW s \in Seq(D), s # <<>>
  PROVE  /\ Len(s) \in Nat \ {0} /\ Head(s) = s[1] /\ Head(s) \in D
         /\ Tail(s) \in Seq(D) /\ Len(Tail(s)) = Len(s) - 1
         /\ \A i \in 1..(Len(s) - 1) : Tail(s)[i] = s[i + 1]
OBVIOUS

(* A sequence with an element appended.                                    *)
LEMMA AppendAt ==
  ASSUME NEW D, NEW s \in Seq(D), NEW x \in D
  PROVE  /\ Len(s) \in Nat
         /\ Append(s, x) \in Seq(D) /\ Len(Append(s, x)) = Len(s) + 1
         /\ Append(s, x)[Len(s) + 1] = x
         /\ \A i \in 1..Len(s) : Append(s, x)[i] = s[i]
OBVIOUS

(* A sequence with an element put before it.                               *)
LEMMA FrontAt ==
  ASSUME NEW D, NEW s \in Seq(D), NEW x \in D
  PROVE  /\ Len(s) \in Nat
         /\ <<x>> \o s \in Seq(D) /\ Len(<<x>> \o s) = Len(s) + 1
         /\ (<<x>> \o s)[1] = x
         /\ \A i \in 1..Len(s) : (<<x>> \o s)[i + 1] = s[i]
OBVIOUS

(* The same three for the queue.                                           *)
LEMMA Shapes ==
  ASSUME QueueOK
  PROVE  /\ Len(queue) \in Nat
         /\ queue # <<>> => /\ Tail(queue) \in Seq(Packet) /\ Len(Tail(queue)) = Len(queue) - 1
                            /\ Head(queue) = queue[1] /\ Head(queue) \in Packet
                            /\ Len(queue) # 0 /\ InType(Head(queue))
                            /\ \A i \in 1..(Len(queue) - 1) : Tail(queue)[i] = queue[i + 1]
         /\ queue = <<>> <=> Len(queue) = 0
         /\ \A x \in Packet : /\ Append(queue, x) \in Seq(Packet)
                              /\ Len(Append(queue, x)) = Len(queue) + 1
                              /\ Append(queue, x)[Len(queue) + 1] = x
                              /\ \A i \in 1..Len(queue) : Append(queue, x)[i] = queue[i]
         /\ \A x \in Packet : /\ <<x>> \o queue \in Seq(Packet)
                              /\ Len(<<x>> \o queue) = Len(queue) + 1
                              /\ (<<x>> \o queue)[1] = x
                              /\ \A i \in 1..Len(queue) : (<<x>> \o queue)[i + 1] = queue[i]
<1>1. queue \in Seq(Packet)
  BY DEF QueueOK
<1>2. queue # <<>> => InType(Head(queue))
  <2> SUFFICES ASSUME queue # <<>> PROVE InType(Head(queue))
    OBVIOUS
  <2>1. Head(queue) = queue[1] /\ 1 \in 1..Len(queue)
    BY <1>1, TailAt
  <2> QED
    BY <2>1 DEF QueueOK
<1>3. Len(queue) \in Nat /\ (queue = <<>> <=> Len(queue) = 0)
  BY <1>1
<1> QED
  BY <1>1, <1>2, <1>3, TailAt, AppendAt, FrontAt

(* How the queue may change in a step. *)
Popped == /\ queue # <<>> /\ Len(queue) \in Nat \ {0} /\ Len(queue') = Len(queue) - 1
          /\ queue' \in Seq(Packet)
          /\ \A i \in 1..Len(queue') : queue'[i] = queue[i + 1]
PushedBack(x) == /\ Len(queue) \in Nat /\ Len(queue') = Len(queue) + 1
                 /\ queue' \in Seq(Packet) /\ x \in Packet
                 /\ queue'[Len(queue) + 1] = x
                 /\ \A i \in 1..Len(queue) : queue'[i] = queue[i]
PushedFront(x) == /\ Len(queue) \in Nat /\ Len(queue') = Len(queue) + 1
                  /\ queue' \in Seq(Packet) /\ x \in Packet
                  /\ queue'[1] = x
                  /\ \A i \in 2..Len(queue') : queue'[i] = queue[i - 1]

(* Taking the head of the queue.                                           *)
LEMMA PopShape ==
  ASSUME QueueOK, queue # <<>>, queue' = Tail(queue)
  PROVE  Popped /\ Head(queue) = queue[1] /\ InType(Head(queue))
BY Shapes DEF Popped

(* xQueueSend() puts a packet behind the others.                           *)
LEMMA BackShape ==
  ASSUME QueueOK, NEW x, x \in Packet, queue' = Append(queue, x)
  PROVE  PushedBack(x)
BY Shapes DEF PushedBack

(* xQueueSendToFront() puts a packet before the others.                    *)
LEMMA FrontShape ==
  ASSUME QueueOK, NEW x, x \in Packet, queue' = <<x>> \o queue
  PROVE  PushedFront(x)
<1>1. /\ Len(queue) \in Nat /\ Len(queue') = Len(queue) + 1 /\ queue' \in Seq(Packet) /\
           queue'[1] = x
      /\ \A i \in 1..Len(queue) : queue'[i + 1] = queue[i]
  BY Shapes
<1>2. ASSUME NEW i \in 2..Len(queue') PROVE queue'[i] = queue[i - 1]
  <2>1. i - 1 \in 1..Len(queue) /\ (i - 1) + 1 = i
    BY <1>1
  <2> QED
    BY <1>1, <2>1
<1> QED BY <1>1, <1>2 DEF PushedFront

(* The queue keeps its types *)
LEMMA QueueKeeps ==
  ASSUME TaskTypes, sentCount' \in Nat, sentCount' >= sentCount,
         \/ UNCHANGED queue
         \/ Popped
         \/ \E x : InType(x) /\ (PushedBack(x) \/ PushedFront(x))
  PROVE  QueueOK' 
<1>0. \A e : InType(e) => InType(e)'
  BY DEF InType, IsEvent, IsClear, Task!Clear, TaskTypes, LwipOK
<1>1. CASE UNCHANGED queue
  BY <1>0, <1>1 DEF TaskTypes, QueueOK
<1>2. CASE Popped
  BY <1>0, <1>2 DEF TaskTypes, QueueOK, Popped
<1>3. ASSUME NEW x, InType(x), PushedBack(x) PROVE QueueOK'
  BY <1>0, <1>3 DEF TaskTypes, QueueOK, PushedBack
<1>4. ASSUME NEW x, InType(x), PushedFront(x) PROVE QueueOK'
  BY <1>0, <1>4 DEF TaskTypes, QueueOK, PushedFront
<1> QED BY <1>1, <1>2, <1>3, <1>4

(* The task goes on with the event it handles. *)
LEMMA TaskMoves ==
  ASSUME TaskOK, UNCHANGED sentCount, NEW p \in Stages, task' = [task EXCEPT !.pc = p],
         task.pc \in Stages \/ (task.pc = "run" /\ task.e.kind # "clear")
  PROVE  TaskOK'
<1>1. IsEvent(task.e)
  BY DEF TaskOK, TaskRecords, InType, IsClear, Task!Clear
<1>2. /\ task'.pc = p /\ task'.e = task.e
      /\ task' \in TaskRecords
  BY DEF TaskOK, TaskRecords
<1>3. p \notin Sweep /\ p # "run" /\ IsEvent(task.e)'
  BY <1>1, <1>2 DEF Stages, Sweep, IsEvent
<1> QED
  BY <1>2, <1>3 DEF TaskOK, Sweep

(* The task calls lwIP.                                                    *)
LEMMA TaskCalls ==
  ASSUME TaskOK, UNCHANGED sentCount, NEW f \in {"write", "ack", "recved", "close", "abort"},
         task' = [task EXCEPT !.pc = "api", !.api = f], task.pc \in Stages
  PROVE  TaskOK'
<1>2. /\ task'.pc = "api" /\ task'.e = task.e
      /\ task' \in TaskRecords
  BY DEF TaskOK, TaskRecords, Stages
<1>3. IsEvent(task.e)'
  BY <1>2 DEF IsEvent, TaskOK
<1> QED
  BY <1>2, <1>3 DEF TaskOK, Sweep

(* The task has nothing to do.                                             *)
LEMMA TaskRests == task' = Task!TaskIdle => TaskOK'
BY DEF Task!TaskIdle, TaskOK, TaskRecords, Stages, Sweep

(* Every step keeps the types.                                             *)
LEMMA TaskTypesStep == ASSUME TaskTypes, [Task!Next]_(Task!vars) PROVE TaskTypes'
<1> USE DEF TaskTypes
<1>0. \A e, n : InType(e) /\ sentCount' = sentCount => InType(e)'
  BY DEF InType, IsEvent, IsClear, Task!Clear
<1>a. ASSUME NEW u \in Clients, Task!accept(u) PROVE TaskTypes'
  <2>1. /\ sentCount' = sentCount + 1 /\ sentCount \in Nat /\
             UNCHANGED <<queue, closedIndex, task>>
        /\ lwip' = [pc |-> "send", e |-> Task!Event("accept", u)]
        /\ conn' = [conn EXCEPT ![u] = [state |-> "open", args |-> TRUE]]
    BY <1>a DEF Task!accept, LwipOK
  <2>2. PICK slot \in Task!freeSlots :
          /\ client' = [client EXCEPT ![u] =
                         [life |-> "live", pcb |-> TRUE, slot |-> slot, overtaken |-> FALSE]]
          /\ slots' = [i \in 1..Slots |-> IF i = slot THEN 0 ELSE slots[i]]
    BY <1>a DEF Task!accept
  <2>3. slot \in {Task!NoSlot} \cup 1..Slots
    BY DEF Task!freeSlots
  <2>4. IsEvent(lwip.e)' /\ lwip'.pc = "send" /\
          lwip' \in [pc : {"idle", "send", "fin"}, e : Packet \cup {Task!NoEvent}]
    BY <2>1 DEF Task!Event, IsEvent, Packet, Kinds
  <2>5. QueueOK'
    BY <2>1, QueueKeeps
  <2>6. LwipOK'
    <3>1. ClientOK'
      BY <2>2, <2>3 DEF ClientOK, LwipOK
    <3>2. ConnOK'
      BY <2>1 DEF ConnOK, LwipOK
    <3>3. SlotsOK'
      BY <2>1, <2>2 DEF SlotsOK, LwipOK
    <3> QED BY <2>1, <2>4, <3>1, <3>2, <3>3 DEF LwipOK
  <2>7. TaskOK'
    BY <2>1 DEF TaskOK, TaskRecords, InType, IsEvent, IsClear, Task!Clear
  <2> QED BY <2>5, <2>6, <2>7
<1>b. ASSUME NEW u \in Clients, NEW k \in {"recv", "sent", "poll", "fin"}, Task!Callback(u, k)
      PROVE  TaskTypes'
  <2>1. /\ sentCount' = sentCount + 1 /\ sentCount \in Nat
        /\ UNCHANGED <<queue, slots, closedIndex, client, conn, task>>
        /\ lwip' = [pc |-> IF k = "fin" THEN "fin" ELSE "send", e |-> Task!Event(k, u)]
    BY <1>b DEF Task!Callback, LwipOK
  <2>5. QueueOK'
    BY <2>1, QueueKeeps
  <2>6. LwipOK'
    <3>2. /\ lwip' \in [pc : {"idle", "send", "fin"}, e : Packet \cup {Task!NoEvent}]
          /\ lwip'.pc # "idle" => IsEvent(lwip.e)'
      BY <2>1 DEF Task!Event, Packet, Kinds, IsEvent, Task!LwipIdle
    <3> QED BY <2>1, <3>2 DEF LwipOK, ClientOK, SlotsOK, ConnOK
  <2>7. TaskOK'
    BY <2>1 DEF TaskOK, TaskRecords, InType, IsEvent, IsClear, Task!Clear
  <2> QED BY <2>5, <2>6, <2>7
<1>c. ASSUME NEW u \in Clients, Task!Error(u) PROVE TaskTypes'
  <2>1. /\ sentCount' = sentCount + 1 /\ sentCount \in Nat
        /\ UNCHANGED <<queue, slots, closedIndex, client, task>>
        /\ conn' = [conn EXCEPT ![u].state = "reset"]
        /\ lwip' = IF conn[u].args THEN [pc |-> "send", e |-> Task!Event("error", u)] ELSE Task!LwipIdle
    BY <1>c DEF Task!Error, LwipOK
  <2>5. QueueOK'
    BY <2>1, QueueKeeps
  <2>6. LwipOK'
    <3>1. ConnOK'
      BY <2>1 DEF ConnOK, LwipOK
    <3>2. /\ lwip' \in [pc : {"idle", "send", "fin"}, e : Packet \cup {Task!NoEvent}]
          /\ lwip'.pc # "idle" => IsEvent(lwip.e)'
      BY <2>1 DEF Task!Event, Packet, Kinds, IsEvent, Task!LwipIdle
    <3> QED BY <2>1, <3>1, <3>2 DEF LwipOK, ClientOK, SlotsOK
  <2>7. TaskOK'
    BY <2>1 DEF TaskOK, TaskRecords, InType, IsEvent, IsClear, Task!Clear
  <2> QED BY <2>5, <2>6, <2>7
<1>d. CASE Task!Fin
  <2>1. /\ UNCHANGED <<queue, task, sentCount>>
        /\ lwip' = [lwip EXCEPT !.pc = "send"] /\ lwip.pc = "fin" /\ sentCount \in Nat
    BY <1>d DEF Task!Fin, LwipOK
  <2>5. QueueOK'
    BY <2>1, QueueKeeps
  <2>6. LwipOK'
    <3> DEFINE u == lwip.e.arg
    <3>1. u \in Clients
      BY <2>1 DEF LwipOK, IsEvent, Packet
    <3>2. CASE client[u].pcb
      <4>1. Task!lwipFin(u)
        BY <1>d, <3>2 DEF Task!Fin
      <4>2. ClientOK'
        BY <4>1 DEF LwipOK, Task!lwipFin, ClientOK
      <4>4. ConnOK'
        BY <4>1 DEF LwipOK, Task!lwipFin, ConnOK
      <4>3. SlotsOK'
        BY <4>1 DEF LwipOK, Task!lwipFin, SlotsOK
      <4> QED BY <2>1, <4>2, <4>3, <4>4 DEF LwipOK, IsEvent
    <3>3. CASE ~client[u].pcb
      BY <1>d, <2>1, <3>3 DEF Task!Fin, LwipOK, IsEvent, ClientOK, ConnOK, SlotsOK
    <3> QED BY <3>2, <3>3
  <2>7. TaskOK'
    BY <2>1 DEF TaskOK, TaskRecords, InType, IsEvent, IsClear, Task!Clear
  <2> QED BY <2>5, <2>6, <2>7
<1>e. CASE Task!Send
  <2>1. /\ UNCHANGED <<slots, closedIndex, client, conn, task, sentCount>> /\
             lwip' = Task!LwipIdle
        /\ IsEvent(lwip.e) /\ sentCount \in Nat /\ lwip.e \in Packet /\ InType(lwip.e)
    BY <1>e DEF Task!Send, LwipOK, IsEvent, InType
  <2>2. PushedBack(lwip.e) \/ PushedFront(lwip.e)
    BY <1>e, <2>1, BackShape, FrontShape DEF Task!Send
  <2>5. QueueOK'
    BY <2>1, <2>2, QueueKeeps
  <2>6. LwipOK'
    BY <2>1 DEF LwipOK, Task!LwipIdle, IsEvent, ClientOK, ConnOK, SlotsOK
  <2>7. TaskOK'
    BY <2>1 DEF TaskOK, TaskRecords, InType, IsEvent, IsClear, Task!Clear
  <2> QED BY <2>5, <2>6, <2>7
<1>f. CASE Task!Api
  <2>1. /\ UNCHANGED <<queue, slots, closedIndex, client, lwip, sentCount>> /\ sentCount \in Nat
        /\ task.pc = "api"
    BY <1>f DEF Task!Api, LwipOK
  <2>2. task' \in {[task EXCEPT !.pc = "abort"], [task EXCEPT !.pc = "return"]}
    BY <1>f DEF Task!Api
  <2>3. conn' \in {conn, [conn EXCEPT ![cur].state = "closed"]}
    BY <1>f DEF Task!Api, cur
  <2>5. QueueOK'
    BY <2>1, QueueKeeps
  <2>6. LwipOK'
    <3>1. ConnOK'
      BY <2>3 DEF ConnOK, LwipOK
    <3> QED BY <2>1, <3>1 DEF LwipOK, IsEvent, ClientOK, SlotsOK
  <2>7. TaskOK'
    <3>1. PICK p \in {"abort", "return"} : task' = [task EXCEPT !.pc = p]
      BY <2>2
    <3> QED BY <2>1, <3>1, TaskMoves DEF Stages
  <2> QED BY <2>5, <2>6, <2>7
<1>g. CASE Task!Get
  <2>1. /\ UNCHANGED <<slots, closedIndex, client, conn, lwip, sentCount>> /\ sentCount \in Nat
        /\ task' = [Task!TaskIdle EXCEPT !.pc = "run", !.e = Head(queue)]
    BY <1>g DEF Task!Get, LwipOK
  <2>2. Popped /\ InType(Head(queue))
    BY <1>g, PopShape DEF Task!Get
  <2>5. QueueOK'
    BY <2>1, <2>2, QueueKeeps
  <2>6. LwipOK'
    BY <2>1 DEF LwipOK, IsEvent, ClientOK, ConnOK, SlotsOK
  <2>7. TaskOK'
    BY <2>1, <2>2
      DEF TaskOK, TaskRecords, InType, IsEvent, IsClear, Task!Clear, Task!TaskIdle,
          Stages, Sweep
  <2> QED BY <2>5, <2>6, <2>7
<1>h. CASE Task!Run
  <2>1. /\ UNCHANGED <<queue, slots, closedIndex, lwip, sentCount>> /\ sentCount \in Nat /\
             task.pc = "run"
        /\ client' \in {client, [client EXCEPT ![cur].pcb = FALSE]}
        /\ conn' \in {conn, [conn EXCEPT ![cur].args = FALSE]}
    BY <1>h DEF Task!Run, LwipOK, cur, Task!At
  <2>2. \/ task' = [task EXCEPT !.pc = "first"] /\ task.e.kind = "clear"
        \/ task' = Task!TaskIdle
        \/ task' \in {[task EXCEPT !.pc = p] : p \in {"discard", "clear", "react"}} /\
             task.e.kind # "clear"
    BY <1>h DEF Task!Run, Task!Goto
  <2>5. QueueOK'
    BY <2>1, QueueKeeps
  <2>6. LwipOK'
    <3>0. cur \in Clients
      BY <2>1 DEF TaskOK, TaskRecords, InType, IsEvent, IsClear, Packet, cur
    <3>1. ClientOK'
      <4>1. ClientOK
        BY DEF LwipOK
      <4>2. CASE client' = client
        BY <4>1, <4>2 DEF ClientOK
      <4>3. CASE client' = [client EXCEPT ![cur].pcb = FALSE]
        BY <3>0, <4>1, <4>3 DEF ClientOK
      <4> QED BY <2>1, <4>2, <4>3
    <3>2. ConnOK'
      <4>1. ConnOK
        BY DEF LwipOK
      <4>2. CASE conn' = conn
        BY <4>1, <4>2 DEF ConnOK
      <4>3. CASE conn' = [conn EXCEPT ![cur].args = FALSE]
        BY <3>0, <4>1, <4>3 DEF ConnOK
      <4> QED BY <2>1, <4>2, <4>3
    <3> QED BY <2>1, <3>1, <3>2 DEF LwipOK, IsEvent, SlotsOK
  <2>7. TaskOK'
    <3>1. ASSUME task' = [task EXCEPT !.pc = "first"], task.e.kind = "clear" PROVE TaskOK'
      BY <2>1, <3>1 DEF TaskOK, TaskRecords, InType, IsEvent, IsClear, Task!Clear, Stages, Sweep
    <3>2. ASSUME NEW p \in {"discard", "clear", "react"}, task' = [task EXCEPT !.pc = p],
                 task.e.kind # "clear"
          PROVE  TaskOK'
      BY <2>1, <3>2, TaskMoves DEF Stages
    <3> QED BY <2>2, <3>1, <3>2, TaskRests
  <2> QED BY <2>5, <2>6, <2>7
<1>i. CASE Task!React \/ Task!Return \/ Task!After \/ Task!Abort
  <2>1. /\ UNCHANGED <<queue, slots, closedIndex, client, conn, lwip, sentCount>> /\
             sentCount \in Nat
        /\ task.pc \in Stages
    BY <1>i DEF Task!React, Task!Return, Task!After, Task!Abort, LwipOK, Task!At, Stages
  <2>2. \/ task' = Task!TaskIdle
        \/ task' \in {[task EXCEPT !.pc = p] : p \in {"after", "close", "discard"}}
        \/ task' \in {[task EXCEPT !.pc = "api", !.api = f] : f \in {"write", "ack", "recved", "abort"}}
    BY <1>i DEF Task!React, Task!Return, Task!After, Task!Abort, Task!Goto, Task!Call
  <2>5. QueueOK'
    BY <2>1, QueueKeeps
  <2>6. LwipOK'
    BY <2>1 DEF LwipOK, IsEvent, ClientOK, ConnOK, SlotsOK
  <2>7. TaskOK'
    <3>1. ASSUME NEW p \in {"after", "close", "discard"}, task' = [task EXCEPT !.pc = p]
          PROVE  TaskOK'
      BY <2>1, <3>1, TaskMoves DEF Stages
    <3> QED BY <2>1, <2>2, <3>1, TaskRests, TaskCalls
  <2> QED BY <2>5, <2>6, <2>7
<1>j. CASE Task!Close
  <2>1. /\ UNCHANGED <<queue, slots, closedIndex, client, lwip, sentCount>> /\ sentCount \in Nat
        /\ task.pc = "close"
        /\ conn' \in {conn, [conn EXCEPT ![cur].args = FALSE]}
        /\ task' \in {[task EXCEPT !.pc = p] : p \in {"after", "clear"}}
    BY <1>j DEF Task!Close, LwipOK, Task!At, Task!Goto, cur
  <2>5. QueueOK'
    BY <2>1, QueueKeeps
  <2>6. LwipOK'
    <3>1. ConnOK'
      <4>1. ConnOK
        BY DEF LwipOK
      <4>2. CASE conn' = conn
        BY <4>1, <4>2 DEF ConnOK
      <4>3. CASE conn' = [conn EXCEPT ![cur].args = FALSE]
        BY <4>1, <4>3 DEF ConnOK
      <4> QED BY <2>1, <4>2, <4>3
    <3> QED BY <2>1, <3>1 DEF LwipOK, IsEvent, ClientOK, SlotsOK
  <2>7. TaskOK'
    <3>1. PICK p \in {"after", "clear"} : task' = [task EXCEPT !.pc = p]
      BY <2>1
    <3> QED BY <2>1, <3>1, TaskMoves DEF Stages
  <2> QED BY <2>5, <2>6, <2>7
<1>k. CASE Task!ClearEvents
  <2>1. /\ UNCHANGED <<slots, closedIndex, client, conn, lwip, sentCount>> /\ sentCount \in Nat
        /\ task.pc = "clear" /\ IsEvent(task.e)
        /\ task' \in {[task EXCEPT !.pc = p] : p \in {"discard", "tcp_close"}}
    BY <1>k DEF Task!ClearEvents, LwipOK, TaskOK, Stages, Task!At, Task!Goto
  <2>2. InType(Task!Clear(cur)) /\ Task!Clear(cur) \in Packet
    BY <2>1 DEF InType, IsClear, IsEvent, Packet, Task!Clear, cur
  <2>3. PushedFront(Task!Clear(cur))
    BY <1>k, <2>2, FrontShape DEF Task!ClearEvents, Task!cleared, cur
  <2>5. QueueOK'
    BY <2>1, <2>2, <2>3, QueueKeeps
  <2>6. LwipOK'
    BY <2>1 DEF LwipOK, IsEvent, ClientOK, ConnOK, SlotsOK
  <2>7. TaskOK'
    <3>1. PICK p \in {"discard", "tcp_close"} : task' = [task EXCEPT !.pc = p]
      BY <2>1
    <3> QED BY <2>1, <3>1, TaskMoves DEF Stages
  <2> QED BY <2>5, <2>6, <2>7
<1>p. CASE Task!TcpClose
  <2>1. /\ UNCHANGED <<queue, slots, closedIndex, conn, lwip, sentCount>> /\ sentCount \in Nat
        /\ task.pc = "tcp_close"
        /\ client' \in {client, [client EXCEPT ![cur].overtaken = TRUE]}
        /\ task' \in {[task EXCEPT !.pc = "abort"], [task EXCEPT !.pc = "api", !.api = "close"]}
    BY <1>p DEF Task!TcpClose, LwipOK, Task!At, Task!Goto, Task!Call, cur
  <2>5. QueueOK'
    BY <2>1, QueueKeeps
  <2>6. LwipOK'
    <3>1. ClientOK'
      <4>1. ClientOK
        BY DEF LwipOK
      <4>2. CASE client' = client
        BY <4>1, <4>2 DEF ClientOK
      <4>3. CASE client' = [client EXCEPT ![cur].overtaken = TRUE]
        BY <4>1, <4>3 DEF ClientOK
      <4> QED BY <2>1, <4>2, <4>3
    <3> QED BY <2>1, <3>1 DEF LwipOK, IsEvent, ConnOK, SlotsOK
  <2>7. TaskOK'
    <3>1. CASE task' = [task EXCEPT !.pc = "abort"]
      BY <2>1, <3>1, TaskMoves DEF Stages
    <3> QED BY <2>1, <3>1, TaskCalls DEF Stages
  <2> QED BY <2>5, <2>6, <2>7
<1>l. CASE Task!Discard
  <2>1. /\ UNCHANGED <<queue, slots, closedIndex, conn, lwip, sentCount>> /\ sentCount \in Nat
        /\ task.pc = "discard" /\ task' = Task!TaskIdle
        /\ client' = [client EXCEPT ![cur] = [@ EXCEPT !.life = "deleted", !.pcb = FALSE]]
    BY <1>l DEF Task!Discard, LwipOK, Task!At, cur
  <2>5. QueueOK'
    BY <2>1, QueueKeeps
  <2>6. LwipOK'
    <3>1. ClientOK'
      BY <2>1 DEF LwipOK, ClientOK
    <3> QED BY <2>1, <3>1 DEF LwipOK, IsEvent, ConnOK, SlotsOK
  <2>7. TaskOK'
    BY <2>1, TaskRests
  <2> QED BY <2>5, <2>6, <2>7
<1>m. CASE Task!First \/ Task!Rest
  <2>1. /\ UNCHANGED <<slots, closedIndex, client, conn, lwip, sentCount>> /\ sentCount \in Nat
        /\ task.pc \in {"first", "rest"}
    BY <1>m DEF Task!First, Task!Rest, LwipOK, Task!At
  <2>2. CASE UNCHANGED queue
    <3>1. task' = Task!TaskIdle
      <4>1. queue # <<>> => Tail(queue) # queue
        BY Shapes
      <4> QED BY <1>m, <2>2, <4>1 DEF Task!First, Task!Rest
    <3>2. QueueOK'
      BY <2>1, <2>2, QueueKeeps
    <3>3. LwipOK'
      BY <2>1 DEF LwipOK, IsEvent, ClientOK, ConnOK, SlotsOK
    <3> QED BY <3>1, <3>2, <3>3, TaskRests
  <2>3. CASE queue # <<>> /\ queue' = Tail(queue)
    <3>1. Popped /\ InType(Head(queue))
      BY <2>3, PopShape
    <3>2. QueueOK'
      BY <2>1, <3>1, QueueKeeps
    <3>3. \/ task' \in {task, Task!TaskIdle}
          \/ task.pc = "first" /\ task' = [task EXCEPT !.pc = "back", !.first = Head(queue), !.packet = Head(queue)]
          \/ task.pc = "rest" /\ task' = [task EXCEPT !.pc = "back", !.packet = Head(queue)]
      BY <1>m, <2>3 DEF Task!First, Task!Rest, Task!At
    <3>a. \A e : (InType(e) => InType(e)' /\ e \in Packet) /\ (IsClear(e) => IsClear(e)')
      BY <2>1 DEF InType, IsEvent, IsClear, Task!Clear
    <3>b. task.pc \in Sweep /\ IsClear(task.e)
      BY <2>1 DEF Sweep, TaskOK
    <3>c. ASSUME task' = task PROVE TaskOK'
      <4>1. task.pc # "run" /\ task.pc \notin Stages
        BY <2>1 DEF Stages
      <4>2. IsClear(task.e)' /\ (InType(task.first) => InType(task.first)') /\ task.pc # "back"
        BY <2>1, <3>a, <3>b, <3>c
      <4> QED BY <2>1, <3>b, <3>c, <4>1, <4>2 DEF TaskOK
    <3>d. ASSUME task.pc = "first" /\ task' = [task EXCEPT !.pc = "back", !.first = Head(queue), !.packet = Head(queue)]
          PROVE  TaskOK'
      <4>1. /\ task'.pc = "back" /\ task'.e = task.e /\ task'.first = Head(queue) /\
                 task'.packet = Head(queue)
            /\ task'.api = task.api
        BY <3>d DEF TaskOK, TaskRecords
      <4>2. InType(task.first)' /\ InType(task.packet)' /\ IsClear(task.e)' /\
              Head(queue) \in Packet
        BY <3>1, <3>a, <3>b, <4>1
      <4>3. task' \in TaskRecords
        BY <3>d, <4>2 DEF TaskOK, TaskRecords, Sweep
      <4>4. task'.pc # "run" /\ task'.pc \notin Stages
        BY <4>1 DEF Stages
      <4> QED BY <4>1, <4>2, <4>3, <4>4 DEF TaskOK
    <3>e. ASSUME task.pc = "rest" /\ task' = [task EXCEPT !.pc = "back", !.packet = Head(queue)]
          PROVE  TaskOK'
      <4>1. /\ task'.pc = "back" /\ task'.e = task.e /\ task'.first = task.first /\
                 task'.packet = Head(queue)
            /\ task'.api = task.api
        BY <3>e DEF TaskOK, TaskRecords
      <4>2. InType(task.first)' /\ InType(task.packet)' /\ IsClear(task.e)' /\
              Head(queue) \in Packet
        BY <3>1, <3>a, <3>b, <3>e, <4>1 DEF TaskOK
      <4>3. task' \in TaskRecords
        BY <3>e, <4>2 DEF TaskOK, TaskRecords, Sweep
      <4>4. task'.pc # "run" /\ task'.pc \notin Stages
        BY <4>1 DEF Stages
      <4> QED BY <4>1, <4>2, <4>3, <4>4 DEF TaskOK
    <3>4. TaskOK'
      BY <3>3, <3>c, <3>d, <3>e, TaskRests
    <3> QED BY <2>1, <3>2, <3>4 DEF LwipOK, IsEvent, ClientOK, ConnOK, SlotsOK
  <2> QED BY <1>m, <2>2, <2>3 DEF Task!First, Task!Rest
<1>n. CASE Task!Back
  <2>1. /\ UNCHANGED <<slots, closedIndex, client, conn, lwip, sentCount>> /\ sentCount \in Nat
        /\ task.pc = "back" /\ task' = [task EXCEPT !.pc = "rest"]
        /\ InType(task.packet) /\ task.packet \in Packet
    BY <1>n DEF Task!Back, LwipOK, TaskOK, Task!At, Task!Goto, InType, IsEvent, IsClear
  <2>2. PushedBack(task.packet)
    BY <1>n, <2>1, BackShape DEF Task!Back
  <2>5. QueueOK'
    BY <2>1, <2>2, QueueKeeps
  <2>6. LwipOK'
    BY <2>1 DEF LwipOK, IsEvent, ClientOK, ConnOK, SlotsOK
  <2>7. TaskOK'
    BY <2>1
      DEF TaskOK, TaskRecords, InType, IsEvent, IsClear, Task!Clear, Task!TaskIdle,
          Stages, Sweep
  <2> QED BY <2>5, <2>6, <2>7
<1>o. CASE UNCHANGED Task!vars
  BY <1>o
    DEF Task!vars, QueueOK, LwipOK, ClientOK, ConnOK, SlotsOK, TaskOK, InType, IsEvent,
        IsClear, Task!Clear
<1> QED
  BY <1>a, <1>b, <1>c, <1>d, <1>e, <1>f, <1>g, <1>h, <1>i, <1>j, <1>k, <1>l, <1>m, <1>n, <1>o, <1>p
     DEF Task!Next, Task!LwipNext, Task!TaskNext

-------------------------------------------------------------------------------
(* The pcb has been closed or aborted in lwIP, and _pcb is not yet NULL.   *)
closing == task.pc = "return" /\ task.api \in {"close", "abort"}

(* What the life of a client, its _pcb and lwIP's pcb have to do with      *)
(* each other.                                                             *)
Lives ==
  /\ \A u \in Clients : Life(u) = "none" <=> State(u) = "none"
  /\ \A u \in Clients : Life(u) = "none" => client[u].slot = Task!NoSlot
  /\ \A u \in Clients : client[u].pcb => Life(u) = "live"
  /\ \A u \in Clients : Life(u) = "live" /\ ~client[u].pcb => State(u) # "open"
  /\ \A u \in Clients : Life(u) = "deleted" => State(u) # "open"
  /\ \A u \in Clients : client[u].pcb /\ State(u) = "closed" =>
       u = cur /\ (closing \/ task.pc = "discard")

(* The clients that a packet or a thread holds; the task is in the handler *)
(* of a client that lives.                                                 *)
Held ==
  /\ \A i \in 1..Len(queue) : Life(queue[i].arg) # "none"
  /\ lwip.pc # "idle" => Life(lwip.e.arg) # "none"
  /\ task.pc # "idle" => Life(cur) # "none"
  /\ task.pc = "back" => Life(task.packet.arg) # "none"
  /\ task.pc \in Stages => Life(cur) = "live"
  /\ closing \/ task.pc = "discard" \/ (task.pc = "clear" /\ task.e.kind = "fin") =>
       State(cur) # "open"
  /\ task.pc \in {"api", "return"} => task.api # "none"
  /\ lwip.pc = "fin" => State(lwip.e.arg) = "open" /\ lwip.e.kind = "fin"
  /\ lwip.pc = "send" /\ State(lwip.e.arg) = "closed" => lwip.e.kind = "fin"

(* An error is sent after a reset, the end after lwIP_fin closed the pcb.  *)
Truthful(e) ==
  /\ e.kind = "error" => State(e.arg) = "reset"
  /\ e.kind = "fin" => State(e.arg) # "open" /\ ~conn[e.arg].args

(* lwIP sends nothing more of the client, and holds nothing of it.         *)
Unheard(u) == ~conn[u].args /\ (lwip.pc # "idle" => lwip.e.arg # u)
Told(e) == Truthful(e) /\ (e.kind = "fin" => Unheard(e.arg))
Sents ==
  /\ \A i \in 1..Len(queue) : Told(queue[i])
  /\ lwip.pc = "send" => Truthful(lwip.e)
  /\ task.pc # "idle" => Told(task.e)
  /\ task.pc = "back" => Told(task.packet)

(* A client whose connection is open has its slot, alone.                  *)
SlotsInv ==
  /\ \A u \in Clients : State(u) = "open" => Task!slotOpen(u)
  /\ \A u, d \in Clients :
       u # d /\ State(u) = "open" /\ State(d) = "open" /\ client[u].slot = client[d].slot
         => client[u].slot = Task!NoSlot

(* SlotGuardsPcb of a client; Guard, of the client at hand, from the moment *)
(* _close has checked _pcb.                                                *)
Guarded(u) ==
  \/ State(u) \in {"open", "reset"}
  \/ ~Task!slotOpen(u)
  \/ client[u].slot = Task!NoSlot
  \/ \E d \in Clients \ {u} : client[d].slot = client[u].slot /\ State(d) # "closed"
calling == task.pc \in {"tcp_close", "api"} \/ (task.pc = "clear" /\ task.e.kind # "fin")
Guard == calling => Guarded(cur)

(* The first layer.                                                        *)
Basics == TaskTypes /\ Lives /\ Held /\ Sents /\ SlotsInv /\ Guard
BasicsNext == (Lives /\ Held /\ Sents /\ SlotsInv /\ Guard)'

(* What the types say of the clients that packets name.                    *)
Args == /\ queue \in Seq(Packet) /\ Len(queue) \in Nat
        /\ \A i \in 1..Len(queue) : queue[i].arg \in Clients
        /\ lwip.pc # "idle" => lwip.e.arg \in Clients
        /\ task.pc # "idle" => cur \in Clients
        /\ task.pc = "back" => task.packet.arg \in Clients
        /\ task \in TaskRecords
        /\ SlotsOK /\ ClientOK /\ ConnOK

(* What the types say of the clients that packets name.                    *)
LEMMA ArgsOK == TaskTypes => Args
BY
  DEF TaskTypes, QueueOK, LwipOK, TaskOK, InType, IsEvent, IsClear, Packet, Args, cur,
      Stages, Sweep, TaskRecords

(* What is in the queue after a step was in it, or is what the step put there. *)
LEMMA Members ==
  ASSUME NEW x, Popped \/ PushedBack(x) \/ PushedFront(x)
  PROVE  \A i \in 1..Len(queue') : queue'[i] = x \/
           \E j \in 1..Len(queue) : queue'[i] = queue[j]
<1> SUFFICES ASSUME NEW i \in 1..Len(queue')
             PROVE  queue'[i] = x \/ \E j \in 1..Len(queue) : queue'[i] = queue[j]
  OBVIOUS
<1>1. CASE Popped
  <2>1. i + 1 \in 1..Len(queue) /\ queue'[i] = queue[i + 1]
    BY <1>1 DEF Popped
  <2> QED BY <2>1
<1>2. CASE PushedBack(x)
  BY <1>2 DEF PushedBack
<1>3. CASE PushedFront(x)
  <2>1. i = 1 \/ (i \in 2..Len(queue') /\ i - 1 \in 1..Len(queue))
    BY <1>3 DEF PushedFront
  <2> QED BY <1>3, <2>1 DEF PushedFront
<1> QED BY <1>1, <1>2, <1>3

(* What is in the queue after a packet was taken was in it.                *)
LEMMA MembersLeft == Popped =>
  \A i \in 1..Len(queue') : \E j \in 1..Len(queue) : queue'[i] = queue[j]
<1> SUFFICES ASSUME Popped, NEW i \in 1..Len(queue')
             PROVE  \E j \in 1..Len(queue) : queue'[i] = queue[j]
  OBVIOUS
<1>1. i + 1 \in 1..Len(queue) /\ queue'[i] = queue[i + 1]
  BY DEF Popped
<1> QED BY <1>1

(* What each action does.                                                  *)
AcceptDoes(u, slot) ==
  /\ lwip.pc = "idle" /\ Life(u) = "none" /\ UNCHANGED <<queue, task>>
  /\ client' = [client EXCEPT ![u] =
                 [life |-> "live", pcb |-> TRUE, slot |-> slot, overtaken |-> FALSE]]
  /\ slots' = [i \in 1..Slots |-> IF i = slot THEN 0 ELSE slots[i]]
  /\ conn' = [conn EXCEPT ![u] = [state |-> "open", args |-> TRUE]]
  /\ lwip'.pc = "send" /\ lwip'.e.arg = u /\ lwip'.e.kind = "accept"
  /\ sentCount' = sentCount + 1 /\ lwip'.e.n = sentCount'

CallbackDoes(u, k) ==
  /\ lwip.pc = "idle" /\ UNCHANGED <<queue, task, client, conn, slots>>
  /\ State(u) = "open" /\ conn[u].args
  /\ lwip'.pc = (IF k = "fin" THEN "fin" ELSE "send") /\ lwip'.e.arg = u /\ lwip'.e.kind = k
  /\ sentCount' = sentCount + 1 /\ lwip'.e.n = sentCount'

ErrorDoes(u) ==
  /\ lwip.pc = "idle" /\ UNCHANGED <<queue, task, client, slots>>
  /\ State(u) = "open" /\ conn' = [conn EXCEPT ![u].state = "reset"]
  /\ lwip'.pc # "idle" => /\ lwip'.pc = "send" /\ lwip'.e.arg = u /\ lwip'.e.kind = "error"
                          /\ conn[u].args /\ lwip'.e.n = sentCount'
  /\ sentCount' = sentCount + 1

FinDoes(u) ==
  /\ lwip.pc = "fin" /\ UNCHANGED <<queue, task, sentCount>>
  /\ u = lwip.e.arg /\ State(u) = "open" /\ lwip.e.kind = "fin"
  /\ lwip'.pc = "send" /\ lwip'.e = lwip.e
  /\ conn' = [conn EXCEPT ![u] = [state |-> "closed", args |-> FALSE]]
  /\ slots' = [i \in 1..Slots |-> IF i = client[u].slot THEN closedIndex ELSE slots[i]]
  /\ client' = [client EXCEPT ![u].pcb = FALSE]

SendDoes ==
  /\ UNCHANGED <<slots, client, conn, task, sentCount>> /\ lwip.pc = "send" /\ lwip'.pc = "idle"
  /\ lwip.e.arg \in Clients
  /\ \/ PushedBack(lwip.e) /\ lwip.e.kind # "accept"
     \/ PushedFront(lwip.e) /\ lwip.e.kind = "accept"
  /\ \A i \in 1..Len(queue') : queue'[i] = lwip.e \/
       \E j \in 1..Len(queue) : queue'[i] = queue[j]

ApiDoes(failed) ==
  /\ UNCHANGED <<queue, slots, client, lwip, sentCount>>
  /\ lwip.pc = "idle" /\ task.pc = "api" /\ cur \in Clients
  /\ failed => task.api = "close"
  /\ task.api = "close" /\ ~failed => Task!slotOpen(cur)
  /\ task'.pc = (IF failed THEN "abort" ELSE "return") /\ task'.api = task.api
  /\ task'.e = task.e /\ cur' = cur
  /\ conn' = IF Task!slotOpen(cur) /\ ~failed /\ task.api \in {"close", "abort"} /\
       State(cur) = "open"
             THEN [conn EXCEPT ![cur].state = "closed"] ELSE conn

GetDoes ==
  /\ UNCHANGED <<slots, client, conn, lwip, sentCount>> /\ task.pc = "idle"
  /\ task'.pc = "run" /\ task'.e = queue[1] /\ cur' = queue[1].arg
  /\ Popped /\ 1 \in 1..Len(queue)
  /\ \A i \in 1..Len(queue') : \E j \in 1..Len(queue) : queue'[i] = queue[j]

RunDoes ==
  /\ UNCHANGED <<queue, slots, lwip, sentCount>> /\ task.pc = "run" /\ cur \in Clients
  /\ \/ task'.pc = "idle" /\ task.e.kind # "clear"
     \/ /\ task'.e = task.e /\ cur' = cur
        /\ \/ task'.pc = "first" /\ task.e.kind = "clear"
           \/ /\ Life(cur) # "deleted" /\ task.e.kind # "clear"
              /\ \/ task'.pc = "discard" /\ task.e.kind = "error"
                 \/ task'.pc = "clear" /\ task.e.kind = "fin"
                 \/ task'.pc = "react"
  /\ Life(cur) # "none" /\ Told(task.e) /\ cur = task.e.arg
  /\ Life(cur) \in {"none", "live", "deleted"}
  /\ \A u \in Clients : /\ Life(u)' = Life(u) /\ State(u)' = State(u)
                        /\ client'[u].slot = client[u].slot
                        /\ client'[u].overtaken = client[u].overtaken
                        /\ (client'[u].pcb => client[u].pcb) /\ (conn'[u].args => conn[u].args)
                        /\ (client[u].pcb /\ ~client'[u].pcb => u = cur /\ State(u) = "reset")

ReactDoes ==
  /\ UNCHANGED <<queue, slots, client, conn, lwip, sentCount>> /\ task.pc = "react"
  /\ cur \in Clients /\ Life(cur) = "live"
  /\ (task'.e = task.e /\ cur' = cur) \/ task'.pc = "idle"
  /\ \/ task'.pc = "after"
     \/ client[cur].pcb /\ task'.pc = "api" /\ task'.api \in {"write", "ack"}

ReturnDoes ==
  /\ UNCHANGED <<queue, slots, client, conn, lwip, sentCount>> /\ task.pc = "return"
  /\ cur \in Clients /\ Life(cur) = "live"
  /\ (task'.e = task.e /\ cur' = cur) \/ task'.pc = "idle"
  /\ \/ task'.pc = "idle" /\ task.api = "recved"
     \/ task'.pc \in {"after", "close"} /\ task.api \in {"write", "ack"}
     \/ task'.pc = "discard" /\ task.api \in {"close", "abort"}

AfterDoes ==
  /\ UNCHANGED <<queue, slots, client, conn, lwip, sentCount>> /\ task.pc = "after"
  /\ cur \in Clients /\ Life(cur) = "live"
  /\ (task'.e = task.e /\ cur' = cur) \/ task'.pc = "idle"
  /\ \/ task'.pc = "idle"
     \/ client[cur].pcb /\ task'.pc = "api" /\ task'.api = "recved"

AbortDoes ==
  /\ UNCHANGED <<queue, slots, client, conn, lwip, sentCount>> /\ task.pc = "abort"
  /\ cur \in Clients /\ Life(cur) = "live"
  /\ (task'.e = task.e /\ cur' = cur) \/ task'.pc = "idle"
  /\ \/ task'.pc = "discard" /\ ~client[cur].pcb
     \/ client[cur].pcb /\ task'.pc = "api" /\ task'.api = "abort"

CloseDoes ==
  /\ UNCHANGED <<queue, slots, client, lwip, sentCount>> /\ task.pc = "close"
  /\ cur \in Clients /\ Life(cur) = "live" /\ task'.e = task.e /\ cur' = cur
  /\ \/ task'.pc = "after" /\ UNCHANGED conn
     \/ client[cur].pcb /\ task'.pc = "clear" /\ conn' = [conn EXCEPT ![cur].args = FALSE]
  /\ \A u \in Clients : /\ Life(u)' = Life(u) /\ State(u)' = State(u)
                        /\ (conn'[u].args => conn[u].args)

ClearEventsDoes ==
  /\ UNCHANGED <<slots, client, conn, lwip, sentCount>> /\ task.pc = "clear"
  /\ cur \in Clients /\ Life(cur) = "live" /\ task'.e = task.e /\ cur' = cur
  /\ \/ task'.pc = "discard" /\ task.e.kind = "fin"
     \/ task'.pc = "tcp_close" /\ task.e.kind # "fin"
  /\ PushedFront(Task!Clear(cur)) /\ Task!Clear(cur).arg = cur /\
       Task!Clear(cur).kind = "clear" /\ Task!Clear(cur).n = 0
  /\ \A i \in 1..Len(queue') : queue'[i] = Task!Clear(cur) \/
       \E j \in 1..Len(queue) : queue'[i] = queue[j]

TcpCloseDoes ==
  /\ UNCHANGED <<queue, slots, conn, lwip, sentCount>> /\ task.pc = "tcp_close"
  /\ cur \in Clients /\ Life(cur) = "live" /\ task'.e = task.e /\ cur' = cur
  /\ \/ task'.pc = "api" /\ task'.api = "close"
     \/ ~client[cur].pcb /\ task'.pc = "abort" /\ client'[cur].overtaken
  /\ \A u \in Clients : /\ Life(u)' = Life(u) /\ client'[u].slot = client[u].slot
                        /\ client'[u].pcb = client[u].pcb
                        /\ (client[u].overtaken => client'[u].overtaken)

DiscardDoes ==
  /\ UNCHANGED <<queue, slots, conn, lwip, sentCount>> /\ task.pc = "discard" /\
       task'.pc = "idle"
  /\ cur \in Clients /\ Life(cur) = "live"
  /\ client' = [client EXCEPT ![cur] = [@ EXCEPT !.life = "deleted", !.pcb = FALSE]]

WalkDoes ==
  /\ UNCHANGED <<slots, client, conn, lwip, sentCount>> /\ task.pc \in {"first", "rest"}
  /\ \/ /\ UNCHANGED queue /\ task'.pc = "idle"
        /\ queue = <<>> \/ (task.pc = "rest" /\ queue[1] = task.first)
     \/ /\ Popped /\ 1 \in 1..Len(queue) /\ (task.pc = "rest" => queue[1] # task.first)
        /\ \/ Task!Matches(queue[1]) /\ task' = task
           \/ /\ ~Task!Matches(queue[1]) /\ task'.pc = "back" /\ task'.packet = queue[1]
              /\ task'.e = task.e /\ cur' = cur
              /\ task'.first = IF task.pc = "first" THEN queue[1] ELSE task.first
  /\ \A i \in 1..Len(queue') : \E j \in 1..Len(queue) : queue'[i] = queue[j]

BackDoes ==
  /\ UNCHANGED <<slots, client, conn, lwip, sentCount>> /\ task.pc = "back"
  /\ task'.pc = "rest" /\ task'.e = task.e /\ cur' = cur /\ task'.first = task.first
  /\ PushedBack(task.packet)
  /\ \A i \in 1..Len(queue') : queue'[i] = task.packet \/
       \E j \in 1..Len(queue) : queue'[i] = queue[j]

(* What accept() does.                                                     *)
LEMMA AcceptFacts ==
  ASSUME Basics, NEW u \in Clients, Task!accept(u)
  PROVE  \E slot \in Task!freeSlots : AcceptDoes(u, slot)
<1> USE DEF Basics
<1>0. Args
  BY ArgsOK
<1> QED BY DEF Task!accept, Life, Task!Idle, Task!Event, AcceptDoes

(* What an event that lwIP reports does.                                   *)
LEMMA CallbackFacts ==
  ASSUME Basics, NEW u \in Clients, NEW k \in {"recv", "sent", "poll", "fin"},
         Task!Callback(u, k)
  PROVE  CallbackDoes(u, k)
<1> USE DEF Basics
<1>0. Args
  BY ArgsOK
<1> QED BY DEF Task!Callback, State, Task!Idle, Task!Event, CallbackDoes

(* What an error does.                                                     *)
LEMMA ErrorFacts == ASSUME Basics, NEW u \in Clients, Task!Error(u) PROVE ErrorDoes(u)
<1> USE DEF Basics
<1>0. Args
  BY ArgsOK
<1> QED BY DEF Task!Error, State, Task!Idle, Task!Event, Task!LwipIdle, ErrorDoes

(* What the end of lwIP_fin does.                                          *)
LEMMA FinFacts == ASSUME Basics, Task!Fin PROVE \E u \in Clients : FinDoes(u)
<1> USE DEF Basics
<1>0. Args
  BY ArgsOK
<1>1. /\ lwip.pc = "fin" /\ UNCHANGED <<queue, task, sentCount>>
      /\ lwip'.pc = "send" /\ lwip'.e = lwip.e /\ State(lwip.e.arg) = "open" /\
           lwip.e.kind = "fin"
  BY DEF Task!Fin, State, Held, TaskTypes, LwipOK
<1>2. PICK u \in Clients : u = lwip.e.arg
  BY <1>0, <1>1 DEF Args
<1>3. client[u].pcb
  BY <1>0, <1>1, <1>2 DEF Args, ClientOK, Lives, Held, State, Life
<1> QED BY <1>1, <1>2, <1>3 DEF Task!Fin, Task!lwipFin, FinDoes

(* What sending an event does.                                             *)
LEMMA SendFacts == ASSUME Basics, Task!Send PROVE SendDoes
<1> USE DEF Basics
<1>0. Args
  BY ArgsOK
<1>1. UNCHANGED <<slots, client, conn, task, sentCount>> /\ lwip.pc = "send" /\
        lwip'.pc = "idle"
  BY DEF Task!Send, Task!LwipIdle
<1>2. lwip.e \in Packet /\ lwip.e.arg \in Clients
  BY <1>1 DEF TaskTypes, LwipOK, IsEvent, Packet
<1>3. \/ PushedBack(lwip.e) /\ lwip.e.kind # "accept"
      \/ PushedFront(lwip.e) /\ lwip.e.kind = "accept"
  BY <1>2, BackShape, FrontShape DEF Task!Send, TaskTypes
<1> QED BY <1>1, <1>2, <1>3, Members DEF SendDoes

(* What a call that the lwIP thread executes does.                         *)
LEMMA ApiFacts == ASSUME Basics, Task!Api PROVE \E failed \in BOOLEAN : ApiDoes(failed)
<1> USE DEF Basics
<1>0. Args
  BY ArgsOK
<1>1. UNCHANGED <<queue, slots, client, lwip, sentCount>> /\ lwip.pc = "idle" /\
        task.pc = "api" /\ cur \in Clients
  BY <1>0 DEF Task!Api, Task!Idle, Args
<1>2. PICK failed \in BOOLEAN :
         /\ failed => task.api = "close"
         /\ task.api = "close" /\ ~failed => Task!slotOpen(cur)
         /\ task' = [task EXCEPT !.pc = IF failed THEN "abort" ELSE "return"]
         /\ conn' = IF Task!slotOpen(cur) /\ ~failed /\ task.api \in {"close", "abort"} /\
              State(cur) = "open"
                    THEN [conn EXCEPT ![cur].state = "closed"] ELSE conn
  BY DEF Task!Api, cur, State
<1>3. task'.pc = (IF failed THEN "abort" ELSE "return") /\ task'.api = task.api /\
        task'.e = task.e /\ cur' = cur
  BY <1>0, <1>2 DEF Args, TaskRecords, cur
<1> QED BY <1>1, <1>2, <1>3 DEF ApiDoes

(* What taking an event does.                                              *)
LEMMA GetFacts == ASSUME Basics, Task!Get PROVE GetDoes
<1> USE DEF Basics
<1>0. Args
  BY ArgsOK
<1>1. UNCHANGED <<slots, client, conn, lwip, sentCount>> /\ task.pc = "idle"
  BY DEF Task!Get, Task!Idle
<1>2. /\ task'.pc = "run" /\ task'.e = queue[1] /\ cur' = queue[1].arg /\ Popped /\
           1 \in 1..Len(queue)
  BY PopShape DEF Task!Get, TaskTypes, Task!TaskIdle, cur, Popped
<1> QED BY <1>1, <1>2, Members DEF GetDoes

(* What the start of a handler does.                                       *)
LEMMA RunFacts == ASSUME Basics, Task!Run PROVE RunDoes
<1> USE DEF Basics
<1>0. Args
  BY ArgsOK
<1>1. UNCHANGED <<queue, slots, lwip, sentCount>> /\ task.pc = "run" /\ cur \in Clients
  BY <1>0 DEF Task!Run, Task!At, Args
<1>2. \/ UNCHANGED <<client, conn>>
      \/ /\ client' = [client EXCEPT ![cur].pcb = FALSE] /\
              conn' = [conn EXCEPT ![cur].args = FALSE]
         /\ task.e.kind = "error"
  BY DEF Task!Run, cur
<1>3. \/ task'.pc = "idle" /\ task.e.kind # "clear"
      \/ /\ task'.e = task.e /\ cur' = cur
         /\ \/ task'.pc = "first" /\ task.e.kind = "clear"
            \/ /\ Life(cur) # "deleted" /\ task.e.kind # "clear"
               /\ \/ task'.pc = "discard" /\ task.e.kind = "error"
                  \/ task'.pc = "clear" /\ task.e.kind = "fin"
                  \/ task'.pc = "react"
  <2>1. \A p : Task!Goto(p) => task'.pc = p /\ task'.e = task.e /\ cur' = cur
    BY <1>0 DEF Args, TaskRecords, Task!Goto, cur
  <2>2. \A f : Task!Call(f) => task'.pc = "api" /\ task'.api = f /\ task'.e = task.e /\
          cur' = cur
    BY <1>0 DEF Args, TaskRecords, Task!Call, cur
  <2>3. \/ task' = Task!TaskIdle /\ task.e.kind # "clear"
        \/ Task!Goto("first") /\ task.e.kind = "clear"
        \/ Life(cur) # "deleted" /\ Task!Goto("discard") /\ task.e.kind = "error"
        \/ Life(cur) # "deleted" /\ Task!Goto("clear") /\ task.e.kind = "fin"
        \/ Life(cur) # "deleted" /\ task.e.kind # "clear" /\ Task!Goto("react")
    BY DEF Task!Run, Life, cur
  <2> QED BY <2>1, <2>3 DEF Task!TaskIdle
<1>4. Life(cur) # "none" /\ Told(task.e) /\ cur = task.e.arg /\
        Life(cur) \in {"none", "live", "deleted"}
  BY <1>0, <1>1 DEF Held, Sents, cur, Args, Life, ClientOK
<1>5. \A u \in Clients : /\ Life(u)' = Life(u) /\ State(u)' = State(u)
                         /\ client'[u].slot = client[u].slot
                         /\ client'[u].overtaken = client[u].overtaken
                         /\ (client'[u].pcb => client[u].pcb) /\ (conn'[u].args => conn[u].args)
                         /\ (client[u].pcb /\ ~client'[u].pcb => u = cur /\ State(u) = "reset")
  <2>1. CASE UNCHANGED <<client, conn>>
    BY <1>1, <2>1 DEF Life, State
  <2>2. CASE /\ client' = [client EXCEPT ![cur].pcb = FALSE]
             /\ conn' = [conn EXCEPT ![cur].args = FALSE] /\ task.e.kind = "error"
    <3>1. State(cur) = "reset"
      BY <1>4, <2>2 DEF Told, Truthful
    <3> QED BY <1>0, <1>1, <2>2, <3>1 DEF Args, ClientOK, ConnOK, Life, State
  <2> QED BY <1>2, <2>1, <2>2
<1> QED BY <1>1, <1>3, <1>4, <1>5 DEF RunDoes

(* What a callback of the program does.                                    *)
LEMMA ReactFacts == ASSUME Basics, Task!React PROVE ReactDoes
<1> USE DEF Basics
<1>0. Args
  BY ArgsOK
<1>1. UNCHANGED <<queue, slots, client, conn, lwip, sentCount>> /\ task.pc = "react"
  BY DEF Task!React, Task!At
<1>2. cur \in Clients /\ Life(cur) = "live"
  BY <1>0, <1>1 DEF Args, Held, Stages
<1>3. /\ (task'.e = task.e /\ cur' = cur) \/ task'.pc = "idle"
      /\ \/ task'.pc = "after"
         \/ client[cur].pcb /\ task'.pc = "api" /\ task'.api \in {"write", "ack"}
  <2>1. \A p : Task!Goto(p) => task'.pc = p /\ task'.e = task.e /\ cur' = cur
    BY <1>0 DEF Args, TaskRecords, Task!Goto, cur
  <2>2. \A f : Task!Call(f) => task'.pc = "api" /\ task'.api = f /\ task'.e = task.e /\
          cur' = cur
    BY <1>0 DEF Args, TaskRecords, Task!Call, cur
  <2> QED BY <1>0, <1>1, <2>1, <2>2 DEF Task!React, cur, Args, TaskRecords, Task!TaskIdle
<1> QED BY <1>1, <1>2, <1>3 DEF ReactDoes

(* What the return of a call does.                                         *)
LEMMA ReturnFacts == ASSUME Basics, Task!Return PROVE ReturnDoes
<1> USE DEF Basics
<1>0. Args
  BY ArgsOK
<1>1. UNCHANGED <<queue, slots, client, conn, lwip, sentCount>> /\ task.pc = "return"
  BY DEF Task!Return, Task!At
<1>2. cur \in Clients /\ Life(cur) = "live"
  BY <1>0, <1>1 DEF Args, Held, Stages
<1>3. /\ (task'.e = task.e /\ cur' = cur) \/ task'.pc = "idle"
      /\ \/ task'.pc = "idle" /\ task.api = "recved"
         \/ task'.pc \in {"after", "close"} /\ task.api \in {"write", "ack"}
         \/ task'.pc = "discard" /\ task.api \in {"close", "abort"}
  <2>1. \A p : Task!Goto(p) => task'.pc = p /\ task'.e = task.e /\ cur' = cur
    BY <1>0 DEF Args, TaskRecords, Task!Goto, cur
  <2>2. \A f : Task!Call(f) => task'.pc = "api" /\ task'.api = f /\ task'.e = task.e /\
          cur' = cur
    BY <1>0 DEF Args, TaskRecords, Task!Call, cur
  <2> QED BY <1>0, <1>1, <2>1, <2>2 DEF Task!Return, cur, Args, TaskRecords, Task!TaskIdle, Held
<1> QED BY <1>1, <1>2, <1>3 DEF ReturnDoes

(* What the rest of a handler does.                                        *)
LEMMA AfterFacts == ASSUME Basics, Task!After PROVE AfterDoes
<1> USE DEF Basics
<1>0. Args
  BY ArgsOK
<1>1. UNCHANGED <<queue, slots, client, conn, lwip, sentCount>> /\ task.pc = "after"
  BY DEF Task!After, Task!At
<1>2. cur \in Clients /\ Life(cur) = "live"
  BY <1>0, <1>1 DEF Args, Held, Stages
<1>3. /\ (task'.e = task.e /\ cur' = cur) \/ task'.pc = "idle"
      /\ \/ task'.pc = "idle"
         \/ client[cur].pcb /\ task'.pc = "api" /\ task'.api = "recved"
  <2>1. \A p : Task!Goto(p) => task'.pc = p /\ task'.e = task.e /\ cur' = cur
    BY <1>0 DEF Args, TaskRecords, Task!Goto, cur
  <2>2. \A f : Task!Call(f) => task'.pc = "api" /\ task'.api = f /\ task'.e = task.e /\
          cur' = cur
    BY <1>0 DEF Args, TaskRecords, Task!Call, cur
  <2> QED BY <1>0, <1>1, <2>1, <2>2 DEF Task!After, cur, Args, TaskRecords, Task!TaskIdle
<1> QED BY <1>1, <1>2, <1>3 DEF AfterDoes

(* What abort() does.                                                      *)
LEMMA AbortFacts == ASSUME Basics, Task!Abort PROVE AbortDoes
<1> USE DEF Basics
<1>0. Args
  BY ArgsOK
<1>1. UNCHANGED <<queue, slots, client, conn, lwip, sentCount>> /\ task.pc = "abort"
  BY DEF Task!Abort, Task!At
<1>2. cur \in Clients /\ Life(cur) = "live"
  BY <1>0, <1>1 DEF Args, Held, Stages
<1>3. /\ (task'.e = task.e /\ cur' = cur) \/ task'.pc = "idle"
      /\ \/ task'.pc = "discard" /\ ~client[cur].pcb
         \/ client[cur].pcb /\ task'.pc = "api" /\ task'.api = "abort"
  <2>1. \A p : Task!Goto(p) => task'.pc = p /\ task'.e = task.e /\ cur' = cur
    BY <1>0 DEF Args, TaskRecords, Task!Goto, cur
  <2>2. \A f : Task!Call(f) => task'.pc = "api" /\ task'.api = f /\ task'.e = task.e /\
          cur' = cur
    BY <1>0 DEF Args, TaskRecords, Task!Call, cur
  <2> QED BY <1>0, <1>1, <2>1, <2>2 DEF Task!Abort, cur, Args, TaskRecords, Task!TaskIdle
<1> QED BY <1>1, <1>2, <1>3 DEF AbortDoes

(* What _close() does.                                                     *)
LEMMA CloseFacts == ASSUME Basics, Task!Close PROVE CloseDoes
<1> USE DEF Basics
<1>0. Args
  BY ArgsOK
<1>1. UNCHANGED <<queue, slots, client, lwip, sentCount>> /\ task.pc = "close"
  BY DEF Task!Close, Task!At
<1>2. cur \in Clients /\ Life(cur) = "live"
  BY <1>0, <1>1 DEF Args, Held, Stages
<1>3. /\ task'.e = task.e /\ cur' = cur
      /\ \/ task'.pc = "after" /\ UNCHANGED conn
         \/ client[cur].pcb /\ task'.pc = "clear" /\ conn' = [conn EXCEPT ![cur].args = FALSE]
  <2>1. \A p : Task!Goto(p) => task'.pc = p /\ task'.e = task.e /\ cur' = cur
    BY <1>0 DEF Args, TaskRecords, Task!Goto, cur
  <2>2. \A f : Task!Call(f) => task'.pc = "api" /\ task'.api = f /\ task'.e = task.e /\
          cur' = cur
    BY <1>0 DEF Args, TaskRecords, Task!Call, cur
  <2> QED BY <1>0, <1>1, <2>1 DEF Task!Close, cur
<1>4. \A u \in Clients : Life(u)' = Life(u) /\ State(u)' = State(u) /\ (conn'[u].args =>
        conn[u].args)
  BY <1>0, <1>1, <1>3 DEF Args, ConnOK, Life, State
<1> QED BY <1>1, <1>2, <1>3, <1>4 DEF CloseDoes

(* What _tcp_clear_events() does.                                          *)
LEMMA ClearEventsFacts == ASSUME Basics, Task!ClearEvents PROVE ClearEventsDoes
<1> USE DEF Basics
<1>0. Args
  BY ArgsOK
<1>1. UNCHANGED <<slots, client, conn, lwip, sentCount>> /\ task.pc = "clear"
  BY DEF Task!ClearEvents, Task!At
<1>2. cur \in Clients /\ Life(cur) = "live"
  BY <1>0, <1>1 DEF Args, Held, Stages
<1>3. /\ task'.e = task.e /\ cur' = cur
      /\ \/ task'.pc = "discard" /\ task.e.kind = "fin"
         \/ task'.pc = "tcp_close" /\ task.e.kind # "fin"
  <2>1. \A p : Task!Goto(p) => task'.pc = p /\ task'.e = task.e /\ cur' = cur
    BY <1>0 DEF Args, TaskRecords, Task!Goto, cur
  <2>2. \A f : Task!Call(f) => task'.pc = "api" /\ task'.api = f /\ task'.e = task.e /\
          cur' = cur
    BY <1>0 DEF Args, TaskRecords, Task!Call, cur
  <2> QED BY <1>0, <1>1, <2>1, <2>2 DEF Task!ClearEvents, cur
<1>4. Task!Clear(cur) \in Packet /\ Task!Clear(cur).arg = cur /\
        Task!Clear(cur).kind = "clear" /\ Task!Clear(cur).n = 0
  BY <1>2 DEF Task!Clear, Packet
<1>5. PushedFront(Task!Clear(cur))
  BY <1>4, FrontShape DEF Task!ClearEvents, Task!cleared, cur, TaskTypes
<1> QED BY <1>1, <1>2, <1>3, <1>4, <1>5, Members DEF ClearEventsDoes

(* What _tcp_close does.                                                   *)
LEMMA TcpCloseFacts == ASSUME Basics, Task!TcpClose PROVE TcpCloseDoes
<1> USE DEF Basics
<1>0. Args
  BY ArgsOK
<1>1. UNCHANGED <<queue, slots, conn, lwip, sentCount>> /\ task.pc = "tcp_close"
  BY DEF Task!TcpClose, Task!At
<1>2. cur \in Clients /\ Life(cur) = "live"
  BY <1>0, <1>1 DEF Args, Held, Stages
<1>3. /\ task'.e = task.e /\ cur' = cur
      /\ \/ UNCHANGED client /\ task'.pc = "api" /\ task'.api = "close"
         \/ /\ ~client[cur].pcb /\ task'.pc = "abort"
            /\ client' = [client EXCEPT ![cur].overtaken = TRUE]
  <2>1. \A p : Task!Goto(p) => task'.pc = p /\ task'.e = task.e /\ cur' = cur
    BY <1>0 DEF Args, TaskRecords, Task!Goto, cur
  <2>2. \A f : Task!Call(f) => task'.pc = "api" /\ task'.api = f /\ task'.e = task.e /\
          cur' = cur
    BY <1>0 DEF Args, TaskRecords, Task!Call, cur
  <2> QED BY <1>0, <1>1, <2>1, <2>2 DEF Task!TcpClose, cur
<1>4. \A u \in Clients : /\ Life(u)' = Life(u) /\ client'[u].slot = client[u].slot
                         /\ client'[u].pcb = client[u].pcb
                         /\ (client[u].overtaken => client'[u].overtaken)
  BY <1>0, <1>2, <1>3 DEF Args, ClientOK, Life
<1>5. task'.pc = "abort" => client'[cur].overtaken
  BY <1>0, <1>2, <1>3 DEF Args, ClientOK
<1> QED BY <1>1, <1>2, <1>3, <1>4, <1>5 DEF TcpCloseDoes

(* What _discard_cb does.                                                  *)
LEMMA DiscardFacts == ASSUME Basics, Task!Discard PROVE DiscardDoes
<1> USE DEF Basics
<1>0. Args
  BY ArgsOK
<1>1. UNCHANGED <<queue, slots, conn, lwip, sentCount>> /\ task.pc = "discard" /\
        task'.pc = "idle"
  BY DEF Task!Discard, Task!At, Task!TaskIdle
<1>2. cur \in Clients /\ Life(cur) = "live"
  BY <1>0, <1>1 DEF Args, Held, Stages
<1> QED BY <1>1, <1>2 DEF Task!Discard, DiscardDoes, cur

(* What First and Rest, the walk through the queue, does.                  *)
LEMMA WalkFacts == ASSUME Basics, Task!First \/ Task!Rest PROVE WalkDoes
<1> USE DEF Basics
<1>0. Args
  BY ArgsOK
<1>1. UNCHANGED <<slots, client, conn, lwip, sentCount>> /\ task.pc \in {"first", "rest"}
  BY DEF Task!First, Task!Rest, Task!At
<1>2. CASE queue = <<>>
  BY <1>1, <1>2 DEF Task!First, Task!Rest, Task!TaskIdle, WalkDoes
<1>3. CASE queue # <<>>
  <2>1. Head(queue) = queue[1] /\ 1 \in 1..Len(queue)
    BY <1>3, PopShape, Shapes DEF TaskTypes
  <2>2. CASE task.pc = "rest" /\ queue[1] = task.first
    BY <1>1, <2>1, <2>2 DEF Task!First, Task!Rest, Task!TaskIdle, WalkDoes, Task!At
  <2>3. CASE ~(task.pc = "rest" /\ queue[1] = task.first)
    <3>1. /\ queue' = Tail(queue)
          /\ \/ Task!Matches(queue[1]) /\ task' = task
             \/ /\ ~Task!Matches(queue[1]) /\ task.pc = "first"
                /\ task' = [task EXCEPT !.pc = "back", !.first = queue[1], !.packet = queue[1]]
             \/ /\ ~Task!Matches(queue[1]) /\ task.pc = "rest"
                /\ task' = [task EXCEPT !.pc = "back", !.packet = queue[1]]
      BY <1>1, <1>3, <2>1, <2>3 DEF Task!First, Task!Rest, Task!At
    <3>2. Popped
      BY <1>3, <3>1, PopShape DEF TaskTypes
    <3>3. \A i \in 1..Len(queue') : \E j \in 1..Len(queue) : queue'[i] = queue[j]
      BY <3>2, MembersLeft
    <3>4. \/ Task!Matches(queue[1]) /\ task' = task
          \/ /\ ~Task!Matches(queue[1]) /\ task'.pc = "back" /\ task'.packet = queue[1]
             /\ task'.e = task.e /\ cur' = cur
             /\ task'.first = IF task.pc = "first" THEN queue[1] ELSE task.first
      <4>2. CASE task.pc = "first" /\ task' = [task EXCEPT !.pc = "back", !.first = queue[1], !.packet = queue[1]]
        <5>1. task'.pc = "back" /\ task'.packet = queue[1] /\ task'.e = task.e /\
                task'.first = queue[1]
          BY <1>0, <4>2 DEF Args, TaskRecords
        <5> QED BY <3>1, <4>2, <5>1 DEF cur
      <4>3. CASE task.pc = "rest" /\ task' = [task EXCEPT !.pc = "back", !.packet = queue[1]]
        <5>1. task'.pc = "back" /\ task'.packet = queue[1] /\ task'.e = task.e /\
                task'.first = task.first
          BY <1>0, <4>3 DEF Args, TaskRecords
        <5> QED BY <3>1, <4>3, <5>1 DEF cur
      <4> QED BY <3>1, <4>2, <4>3
    <3> QED BY <1>1, <2>1, <2>3, <3>2, <3>3, <3>4 DEF WalkDoes
  <2> QED BY <2>2, <2>3
<1> QED BY <1>2, <1>3

(* What putting a packet back does.                                        *)
LEMMA BackFacts == ASSUME Basics, Task!Back PROVE BackDoes
<1> USE DEF Basics
<1>0. Args
  BY ArgsOK
<1>1. UNCHANGED <<slots, client, conn, lwip, sentCount>> /\ task.pc = "back"
  BY DEF Task!Back, Task!At
<1>2. task'.pc = "rest" /\ task'.e = task.e /\ cur' = cur /\ task'.first = task.first
  BY <1>0 DEF Task!Back, Task!Goto, Args, TaskRecords, cur
<1>3. task.packet \in Packet
  BY <1>1 DEF TaskTypes, TaskOK, InType, IsEvent, IsClear
<1>4. PushedBack(task.packet)
  BY <1>3, BackShape DEF Task!Back, TaskTypes
<1> QED BY <1>1, <1>2, <1>4, Members DEF BackDoes

-------------------------------------------------------------------------------
(* The first layer: what the lives, the connections and the slots have to  *)
(* do with each other.  One lemma per action.                              *)
LEMMA AcceptBasics ==
  ASSUME Basics, NEW u \in Clients, NEW slot \in Task!freeSlots, AcceptDoes(u, slot)
  PROVE  BasicsNext
<1> USE DEF Basics, AcceptDoes
<1>0. Args
  BY ArgsOK DEF Basics
<1>1. Lives'
  BY <1>0 DEF Args, ClientOK, ConnOK, SlotsOK, Lives, Life, State, closing, cur
<1>2. Held'
  BY <1>0 DEF Args, ClientOK, ConnOK, SlotsOK, Held, Life, State, closing, cur, Stages
<1>3. Sents'
  BY <1>0
    DEF Args, ClientOK, ConnOK, SlotsOK, Sents, Life, State, Truthful, Told, Unheard, cur,
        Held
<1>4. SlotsInv'
  BY <1>0
    DEF Args, ClientOK, ConnOK, SlotsOK, SlotsInv, Task!slotOpen, State, Task!freeSlots,
        Task!NoSlot
<1>5. Guard'
  <2> SUFFICES ASSUME calling PROVE Guarded(cur)'
    BY DEF Guard, calling
  <2>1. cur' = cur /\ cur # u /\ cur \in Clients /\ Guarded(cur)
    BY <1>0, <1>2 DEF Held, Args, Stages, Guard, calling, cur
  <2>2. client'[cur] = client[cur] /\ State(cur)' = State(cur)
    BY <2>1 DEF State
  <2>3. \A d \in Clients : State(d) # "closed" /\ client[d].slot = client[cur].slot /\
          client[cur].slot # Task!NoSlot => client'[d].slot = client[cur].slot /\
            State(d)' # "closed"
    BY <1>0 DEF Args, ClientOK, ConnOK, State, Life, Lives
  <2>4. CASE client[cur].slot = slot
    <3>1. client'[u].slot = slot /\ State(u)' = "open"
      BY <1>0 DEF Args, ClientOK, ConnOK, State
    <3> QED BY <2>1, <2>2, <2>4, <3>1 DEF Guarded
  <2>5. CASE client[cur].slot # slot
    <3>1. Task!slotOpen(cur)' = Task!slotOpen(cur)
      BY <1>0, <2>1, <2>2, <2>5 DEF Task!slotOpen, Args, ClientOK, SlotsOK
    <3> QED BY <2>1, <2>2, <2>3, <3>1 DEF Guarded
  <2> QED BY <2>4, <2>5
<1> QED BY <1>1, <1>2, <1>3, <1>4, <1>5 DEF BasicsNext

(* It keeps the first layer: an event that lwIP reports.                   *)
LEMMA CallbackBasics ==
  ASSUME Basics, NEW u \in Clients, NEW k \in {"recv", "sent", "poll", "fin"},
         CallbackDoes(u, k)
  PROVE  BasicsNext
<1> USE DEF Basics, CallbackDoes
<1>0. Args
  BY ArgsOK DEF Basics
<1>1. Lives'
  BY <1>0 DEF Args, ClientOK, ConnOK, SlotsOK, Lives, Life, State, closing, cur
<1>2. Held'
  BY <1>0 DEF Args, ClientOK, ConnOK, SlotsOK, Held, Life, State, closing, cur, Stages, Lives
<1>3. Sents'
  BY <1>0 DEF Args, ClientOK, ConnOK, SlotsOK, Sents, Life, State, Truthful, Told, Unheard, cur
<1>4. SlotsInv'
  BY <1>0 DEF Args, ClientOK, ConnOK, SlotsOK, SlotsInv, Task!slotOpen, State
<1>5. Guard'
  BY <1>0 DEF Args, ClientOK, ConnOK, SlotsOK, Guard, calling, Guarded, Task!slotOpen, State, cur
<1> QED BY <1>1, <1>2, <1>3, <1>4, <1>5 DEF BasicsNext

(* It keeps the first layer: an error.                                     *)
LEMMA ErrorBasics == ASSUME Basics, NEW u \in Clients, ErrorDoes(u) PROVE BasicsNext
<1> USE DEF Basics, ErrorDoes
<1>0. Args
  BY ArgsOK DEF Basics
<1>1. Lives'
  BY <1>0 DEF Args, ClientOK, ConnOK, SlotsOK, Lives, Life, State, closing, cur
<1>2. Held'
  BY <1>0 DEF Args, ClientOK, ConnOK, SlotsOK, Held, Life, State, closing, cur, Stages, Lives
<1>3. Sents'
  BY <1>0 DEF Args, ClientOK, ConnOK, SlotsOK, Sents, Life, State, Truthful, Told, Unheard, cur
<1>4. SlotsInv'
  BY <1>0 DEF Args, ClientOK, ConnOK, SlotsOK, SlotsInv, Task!slotOpen, State
<1>5. Guard'
  BY <1>0 DEF Args, ClientOK, ConnOK, SlotsOK, Guard, calling, Guarded, Task!slotOpen, State, cur
<1> QED BY <1>1, <1>2, <1>3, <1>4, <1>5 DEF BasicsNext

(* It keeps the first layer: the end of lwIP_fin.                          *)
LEMMA FinBasics == ASSUME Basics, NEW u \in Clients, FinDoes(u) PROVE BasicsNext
<1> USE DEF Basics, FinDoes
<1>0. Args
  BY ArgsOK DEF Basics
<1>1. Lives'
  BY <1>0 DEF Args, ClientOK, ConnOK, SlotsOK, Lives, Life, State, closing, cur
<1>2. Held'
  BY <1>0 DEF Args, ClientOK, ConnOK, SlotsOK, Held, Life, State, closing, cur, Stages
<1>3. Sents'
  BY <1>0 DEF Args, ClientOK, ConnOK, SlotsOK, Sents, Life, State, Truthful, Told, Unheard, cur
<1>4. SlotsInv'
  BY <1>0 DEF Args, ClientOK, ConnOK, SlotsOK, SlotsInv, Task!slotOpen, State
<1>5. Guard'
  BY <1>0
    DEF Args, ClientOK, ConnOK, SlotsOK, Guard, calling, Guarded, Task!slotOpen, State, cur,
        Task!NoSlot, SlotsInv
<1> QED BY <1>1, <1>2, <1>3, <1>4, <1>5 DEF BasicsNext

(* It keeps the first layer: sending an event.                             *)
LEMMA SendBasics == ASSUME Basics, SendDoes PROVE BasicsNext
<1> USE DEF Basics, SendDoes
<1>0. Args
  BY ArgsOK DEF Basics
<1>1. Lives'
  BY <1>0 DEF Args, ClientOK, ConnOK, SlotsOK, Lives, Life, State, closing, cur
<1>2. Held'
  BY <1>0 DEF Args, ClientOK, ConnOK, SlotsOK, Held, Life, State, closing, cur, Stages
<1>3. Sents'
  BY <1>0 DEF Args, ClientOK, ConnOK, SlotsOK, Sents, Life, State, Truthful, Told, Unheard, cur
<1>4. SlotsInv'
  BY <1>0 DEF Args, ClientOK, ConnOK, SlotsOK, SlotsInv, Task!slotOpen, State
<1>5. Guard'
  BY <1>0 DEF Args, ClientOK, ConnOK, SlotsOK, Guard, calling, Guarded, Task!slotOpen, State, cur
<1> QED BY <1>1, <1>2, <1>3, <1>4, <1>5 DEF BasicsNext

(* It keeps the first layer: a call that the lwIP thread executes.         *)
LEMMA ApiBasics == ASSUME Basics, NEW failed \in BOOLEAN, ApiDoes(failed) PROVE BasicsNext
<1> USE DEF Basics, ApiDoes
<1>0. Args
  BY ArgsOK DEF Basics
<1>1. Lives'
  BY <1>0 DEF Args, ClientOK, ConnOK, SlotsOK, Lives, Life, State, closing, cur
<1>2. Held'
  BY <1>0 DEF Args, ClientOK, ConnOK, SlotsOK, Held, Life, State, closing, cur, Stages, SlotsInv
<1>3. Sents'
  BY <1>0 DEF Args, ClientOK, ConnOK, SlotsOK, Sents, Life, State, Truthful, Told, Unheard, cur
<1>4. SlotsInv'
  BY <1>0 DEF Args, ClientOK, ConnOK, SlotsOK, SlotsInv, Task!slotOpen, State
<1>5. Guard'
  BY <1>0 DEF Args, ClientOK, ConnOK, SlotsOK, Guard, calling, Guarded, Task!slotOpen, State, cur
<1> QED BY <1>1, <1>2, <1>3, <1>4, <1>5 DEF BasicsNext

(* It keeps the first layer: taking an event.                              *)
LEMMA GetBasics == ASSUME Basics, GetDoes PROVE BasicsNext
<1> USE DEF Basics, GetDoes
<1>0. Args
  BY ArgsOK DEF Basics
<1>h. 1 \in 1..Len(queue) =>
         queue[1].arg \in Clients /\ Life(queue[1].arg) # "none" /\ Told(queue[1])
  BY <1>0 DEF Args, Held, Sents
<1>2. Lives'
  BY <1>0, <1>h DEF Args, ClientOK, ConnOK, SlotsOK, Lives, Life, State, closing, cur
<1>3. Held'
  BY <1>0, <1>h DEF Args, ClientOK, ConnOK, SlotsOK, Held, Life, State, closing, cur, Stages
<1>4. Sents'
  BY <1>0, <1>h
    DEF Args, ClientOK, ConnOK, SlotsOK, Sents, Life, State, Truthful, Told, Unheard, cur
<1>5. SlotsInv'
  BY <1>0, <1>h DEF Args, ClientOK, ConnOK, SlotsOK, SlotsInv, Task!slotOpen, State
<1>6. Guard'
  BY <1>0, <1>h DEF Args, ClientOK, ConnOK, SlotsOK, Guard, calling, Guarded, Task!slotOpen, State, cur
<1> QED BY <1>2, <1>3, <1>4, <1>5, <1>6 DEF BasicsNext

(* It keeps the first layer: the start of a handler.                       *)
LEMMA RunBasics == ASSUME Basics, RunDoes PROVE BasicsNext
<1> USE DEF Basics, RunDoes
<1>0. Args
  BY ArgsOK DEF Basics
<1>1. Lives'
  BY <1>0 DEF Args, ClientOK, ConnOK, SlotsOK, Lives, Life, State, closing, cur
<1>2. Held'
  BY <1>0
    DEF Args, ClientOK, ConnOK, SlotsOK, Held, Life, State, closing, cur, Stages, Told,
        Truthful
<1>3. Sents'
  <2>1. \A e : e.arg \in Clients /\ Truthful(e) => Truthful(e)'
    BY DEF Truthful
  <2>2. \A u \in Clients : Unheard(u) => Unheard(u)'
    BY DEF Unheard
  <2>3. \A e : e.arg \in Clients /\ Told(e) => Told(e)'
    BY <2>1, <2>2 DEF Told
  <2>4. UNCHANGED <<queue, lwip>> /\ (task'.pc = "idle" \/ (task'.e = task.e /\ cur' = cur)) /\
          task'.pc # "back"
    OBVIOUS
  <2>5. Sents /\ Told(task.e) /\ cur \in Clients /\ task.e.arg = cur
    OBVIOUS
  <2> HIDE DEF RunDoes, Basics
  <2>6. task'.pc # "idle" => Told(task.e)'
    <3>1. task'.e = task.e => (Told(task.e)' <=> Told(task.e)')
      OBVIOUS
    <3> QED BY <2>3, <2>4, <2>5 DEF Told, Truthful, Unheard
  <2> QED BY <1>0, <2>1, <2>3, <2>4, <2>5, <2>6 DEF Args, Sents
<1>4. SlotsInv'
  BY <1>0 DEF Args, ClientOK, ConnOK, SlotsOK, SlotsInv, Task!slotOpen, State
<1>5. Guard'
  BY <1>0 DEF Args, ClientOK, ConnOK, SlotsOK, Guard, calling, Guarded, Task!slotOpen, State, cur
<1> QED BY <1>1, <1>2, <1>3, <1>4, <1>5 DEF BasicsNext

(* It keeps the first layer: a callback of the program.                    *)
LEMMA ReactBasics == ASSUME Basics, ReactDoes PROVE BasicsNext
<1> USE DEF Basics, ReactDoes
<1>0. Args
  BY ArgsOK DEF Basics
<1>1. Lives'
  BY <1>0 DEF Args, ClientOK, ConnOK, SlotsOK, Lives, Life, State, closing, cur
<1>2. Held'
  BY <1>0 DEF Args, ClientOK, ConnOK, SlotsOK, Held, Life, State, closing, cur, Stages, Lives
<1>3. Sents'
  BY <1>0 DEF Args, ClientOK, ConnOK, SlotsOK, Sents, Life, State, Truthful, Told, Unheard, cur
<1>4. SlotsInv'
  BY <1>0 DEF Args, ClientOK, ConnOK, SlotsOK, SlotsInv, Task!slotOpen, State
<1>5. Guard'
  BY <1>0
    DEF Args, ClientOK, ConnOK, SlotsOK, Guard, calling, Guarded, Task!slotOpen, State, cur, Lives,
        closing, Life
<1> QED BY <1>1, <1>2, <1>3, <1>4, <1>5 DEF BasicsNext

(* It keeps the first layer: the return of a call.                         *)
LEMMA ReturnBasics == ASSUME Basics, ReturnDoes PROVE BasicsNext
<1> USE DEF Basics, ReturnDoes
<1>0. Args
  BY ArgsOK DEF Basics
<1>1. Lives'
  BY <1>0 DEF Args, ClientOK, ConnOK, SlotsOK, Lives, Life, State, closing, cur
<1>2. Held'
  BY <1>0 DEF Args, ClientOK, ConnOK, SlotsOK, Held, Life, State, closing, cur, Stages, Lives
<1>3. Sents'
  BY <1>0 DEF Args, ClientOK, ConnOK, SlotsOK, Sents, Life, State, Truthful, Told, Unheard, cur
<1>4. SlotsInv'
  BY <1>0 DEF Args, ClientOK, ConnOK, SlotsOK, SlotsInv, Task!slotOpen, State
<1>5. Guard'
  BY <1>0
    DEF Args, ClientOK, ConnOK, SlotsOK, Guard, calling, Guarded, Task!slotOpen, State, cur, Lives,
        closing, Life
<1> QED BY <1>1, <1>2, <1>3, <1>4, <1>5 DEF BasicsNext

(* It keeps the first layer: the rest of a handler.                        *)
LEMMA AfterBasics == ASSUME Basics, AfterDoes PROVE BasicsNext
<1> USE DEF Basics, AfterDoes
<1>0. Args
  BY ArgsOK DEF Basics
<1>1. Lives'
  BY <1>0 DEF Args, ClientOK, ConnOK, SlotsOK, Lives, Life, State, closing, cur
<1>2. Held'
  BY <1>0 DEF Args, ClientOK, ConnOK, SlotsOK, Held, Life, State, closing, cur, Stages, Lives
<1>3. Sents'
  BY <1>0 DEF Args, ClientOK, ConnOK, SlotsOK, Sents, Life, State, Truthful, Told, Unheard, cur
<1>4. SlotsInv'
  BY <1>0 DEF Args, ClientOK, ConnOK, SlotsOK, SlotsInv, Task!slotOpen, State
<1>5. Guard'
  BY <1>0
    DEF Args, ClientOK, ConnOK, SlotsOK, Guard, calling, Guarded, Task!slotOpen, State, cur, Lives,
        closing, Life
<1> QED BY <1>1, <1>2, <1>3, <1>4, <1>5 DEF BasicsNext

(* It keeps the first layer: abort().                                      *)
LEMMA AbortBasics == ASSUME Basics, AbortDoes PROVE BasicsNext
<1> USE DEF Basics, AbortDoes
<1>0. Args
  BY ArgsOK DEF Basics
<1>1. Lives'
  BY <1>0 DEF Args, ClientOK, ConnOK, SlotsOK, Lives, Life, State, closing, cur
<1>2. Held'
  BY <1>0 DEF Args, ClientOK, ConnOK, SlotsOK, Held, Life, State, closing, cur, Stages, Lives
<1>3. Sents'
  BY <1>0 DEF Args, ClientOK, ConnOK, SlotsOK, Sents, Life, State, Truthful, Told, Unheard, cur
<1>4. SlotsInv'
  BY <1>0 DEF Args, ClientOK, ConnOK, SlotsOK, SlotsInv, Task!slotOpen, State
<1>5. Guard'
  BY <1>0
    DEF Args, ClientOK, ConnOK, SlotsOK, Guard, calling, Guarded, Task!slotOpen, State, cur, Lives,
        closing, Life
<1> QED BY <1>1, <1>2, <1>3, <1>4, <1>5 DEF BasicsNext

(* It keeps the first layer: _close().                                     *)
LEMMA CloseBasics == ASSUME Basics, CloseDoes PROVE BasicsNext
<1> USE DEF Basics, CloseDoes
<1>0. Args
  BY ArgsOK DEF Basics
<1>1. Lives'
  BY <1>0 DEF Args, ClientOK, ConnOK, SlotsOK, Lives, Life, State, closing, cur
<1>2. Held'
  BY <1>0
    DEF Args, ClientOK, ConnOK, SlotsOK, Held, Life, State, closing, cur, Stages, Lives,
        Sents, Told, Truthful
<1>3. Sents'
  BY <1>0 DEF Args, ClientOK, ConnOK, SlotsOK, Sents, Life, State, Truthful, Told, Unheard, cur
<1>4. SlotsInv'
  BY <1>0 DEF Args, ClientOK, ConnOK, SlotsOK, SlotsInv, Task!slotOpen, State
<1>5. Guard'
  BY <1>0
    DEF Args, ClientOK, ConnOK, SlotsOK, Guard, calling, Guarded, Task!slotOpen, State, cur, Lives,
        closing, Life
<1> QED BY <1>1, <1>2, <1>3, <1>4, <1>5 DEF BasicsNext

(* It keeps the first layer: _tcp_clear_events().                          *)
LEMMA ClearEventsBasics == ASSUME Basics, ClearEventsDoes PROVE BasicsNext
<1> USE DEF Basics, ClearEventsDoes
<1>0. Args
  BY ArgsOK DEF Basics
<1>1. Lives'
  BY <1>0 DEF Args, ClientOK, ConnOK, SlotsOK, Lives, Life, State, closing, cur
<1>2. Held'
  BY <1>0 DEF Args, ClientOK, ConnOK, SlotsOK, Held, Life, State, closing, cur, Stages
<1>3. Sents'
  BY <1>0 DEF Args, ClientOK, ConnOK, SlotsOK, Sents, Life, State, Truthful, Told, Unheard, cur
<1>4. SlotsInv'
  BY <1>0 DEF Args, ClientOK, ConnOK, SlotsOK, SlotsInv, Task!slotOpen, State
<1>5. Guard'
  BY <1>0 DEF Args, ClientOK, ConnOK, SlotsOK, Guard, calling, Guarded, Task!slotOpen, State, cur
<1> QED BY <1>1, <1>2, <1>3, <1>4, <1>5 DEF BasicsNext

(* It keeps the first layer: _tcp_close.                                   *)
LEMMA TcpCloseBasics == ASSUME Basics, TcpCloseDoes PROVE BasicsNext
<1> USE DEF Basics, TcpCloseDoes
<1>0. Args
  BY ArgsOK DEF Basics
<1>1. Lives'
  BY <1>0 DEF Args, ClientOK, ConnOK, SlotsOK, Lives, Life, State, closing, cur
<1>2. Held'
  BY <1>0 DEF Args, ClientOK, ConnOK, SlotsOK, Held, Life, State, closing, cur, Stages, Lives
<1>3. Sents'
  BY <1>0 DEF Args, ClientOK, ConnOK, SlotsOK, Sents, Life, State, Truthful, Told, Unheard, cur
<1>4. SlotsInv'
  BY <1>0 DEF Args, ClientOK, ConnOK, SlotsOK, SlotsInv, Task!slotOpen, State
<1>5. Guard'
  BY <1>0
    DEF Args, ClientOK, ConnOK, SlotsOK, Guard, calling, Guarded, Task!slotOpen, State, cur, Lives,
        closing, Life
<1> QED BY <1>1, <1>2, <1>3, <1>4, <1>5 DEF BasicsNext

(* It keeps the first layer: _discard_cb.                                  *)
LEMMA DiscardBasics == ASSUME Basics, DiscardDoes PROVE BasicsNext
<1> USE DEF Basics, DiscardDoes
<1>0. Args
  BY ArgsOK DEF Basics
<1>1. Lives'
  BY <1>0 DEF Args, ClientOK, ConnOK, SlotsOK, Lives, Life, State, closing, cur, Held
<1>2. Held'
  BY <1>0 DEF Args, ClientOK, ConnOK, SlotsOK, Held, Life, State, closing, cur, Stages
<1>3. Sents'
  BY <1>0 DEF Args, ClientOK, ConnOK, SlotsOK, Sents, Life, State, Truthful, Told, Unheard, cur
<1>4. SlotsInv'
  BY <1>0 DEF Args, ClientOK, ConnOK, SlotsOK, SlotsInv, Task!slotOpen, State
<1>5. Guard'
  BY <1>0 DEF Args, ClientOK, ConnOK, SlotsOK, Guard, calling, Guarded, Task!slotOpen, State, cur
<1> QED BY <1>1, <1>2, <1>3, <1>4, <1>5 DEF BasicsNext

(* It keeps the first layer: First and Rest, the walk through the queue,.  *)
LEMMA WalkBasics == ASSUME Basics, WalkDoes PROVE BasicsNext
<1> USE DEF Basics, WalkDoes
<1>0. Args
  BY ArgsOK DEF Basics
<1>h. 1 \in 1..Len(queue) =>
         queue[1].arg \in Clients /\ Life(queue[1].arg) # "none" /\ Told(queue[1])
  BY <1>0 DEF Args, Held, Sents
<1>2. Lives'
  BY <1>0, <1>h DEF Args, ClientOK, ConnOK, SlotsOK, Lives, Life, State, closing, cur
<1>3. Held'
  <2>1. CASE task'.pc = "idle"
    BY <1>0, <2>1 DEF Args, Held, Life, State, closing, cur, Stages, Sweep
  <2>2. CASE task' = task
    BY <1>0, <2>2 DEF Args, Held, Life, State, closing, cur, Stages, Sweep
  <2>3. CASE 1 \in 1..Len(queue) /\ task'.pc = "back" /\ task'.packet = queue[1] /\
               task'.e = task.e /\ cur' = cur
    BY <1>0, <1>h, <2>3 DEF Args, Held, Life, State, closing, cur, Stages, Sweep
  <2> QED BY <2>1, <2>2, <2>3
<1>4. Sents'
  <2>1. CASE task'.pc = "idle"
    BY <1>0, <2>1 DEF Args, Sents, Life, State, Truthful, Told, Unheard, cur
  <2>2. CASE task' = task
    BY <1>0, <2>2 DEF Args, Sents, Life, State, Truthful, Told, Unheard, cur
  <2>3. CASE 1 \in 1..Len(queue) /\ task'.pc = "back" /\ task'.packet = queue[1] /\
               task'.e = task.e /\ cur' = cur
    BY <1>0, <1>h, <2>3 DEF Args, Sents, Life, State, Truthful, Told, Unheard, cur
  <2> QED BY <2>1, <2>2, <2>3
<1>5. SlotsInv'
  BY <1>0, <1>h DEF Args, ClientOK, ConnOK, SlotsOK, SlotsInv, Task!slotOpen, State
<1>6. Guard'
  BY <1>0, <1>h DEF Args, ClientOK, ConnOK, SlotsOK, Guard, calling, Guarded, Task!slotOpen, State, cur
<1> QED BY <1>2, <1>3, <1>4, <1>5, <1>6 DEF BasicsNext

(* It keeps the first layer: putting a packet back.                        *)
LEMMA BackBasics == ASSUME Basics, BackDoes PROVE BasicsNext
<1> USE DEF Basics, BackDoes
<1>0. Args
  BY ArgsOK DEF Basics
<1>1. Lives'
  BY <1>0 DEF Args, ClientOK, ConnOK, SlotsOK, Lives, Life, State, closing, cur
<1>2. Held'
  BY <1>0 DEF Args, ClientOK, ConnOK, SlotsOK, Held, Life, State, closing, cur, Stages
<1>3. Sents'
  BY <1>0 DEF Args, ClientOK, ConnOK, SlotsOK, Sents, Life, State, Truthful, Told, Unheard, cur
<1>4. SlotsInv'
  BY <1>0 DEF Args, ClientOK, ConnOK, SlotsOK, SlotsInv, Task!slotOpen, State
<1>5. Guard'
  BY <1>0 DEF Args, ClientOK, ConnOK, SlotsOK, Guard, calling, Guarded, Task!slotOpen, State, cur
<1> QED BY <1>1, <1>2, <1>3, <1>4, <1>5 DEF BasicsNext

-------------------------------------------------------------------------------
(* The second layer: the numbers that tell packets apart, and what has     *)
(* been silenced.                                                          *)
CloseApi == task.pc = "tcp_close" \/ (task.pc = "api" /\ task.api = "close")
aborting == task.pc = "api" /\ task.api = "abort"
clearing == closing \/ task.pc \in {"abort", "discard"} \/ aborting

(* The packet that clears the queue of the client's events was put there.  *)
HasCleared(u) == \/ Life(u) = "deleted"
                 \/ task.pc \in Stages /\ u = cur /\ (clearing \/ CloseApi)

(* Such a client must not get the event, unless a reset ended its          *)
(* connection or the event is the one of the _lwip_fin that overtook       *)
(* _close.                                                                 *)
Muted(e) == /\ HasCleared(e.arg) /\ State(e.arg) # "reset"
            /\ ~(e.kind = "fin" /\ client[e.arg].overtaken)

(* lwIP sends nothing more of the client, and holds nothing of it but the  *)
(* event of the _lwip_fin that overtook _close.                            *)
Silenced(u) ==
  /\ ~conn[u].args
  /\ lwip.pc # "idle" /\ lwip.e.arg = u => lwip.e.kind = "fin" /\ client[u].overtaken

InQueue(x) == \E i \in 1..Len(queue) : queue[i] = x
NoneTwice == \A i, j \in 1..Len(queue) : i # j => queue[i] # queue[j]

(* A packet got its number before the lwIP thread's event did.             *)
Older(e) == e.n <= sentCount /\ (lwip.pc # "idle" => e.n < sentCount)
StillOlder(e) == e.n <= sentCount' /\ (lwip'.pc # "idle" => e.n < sentCount')

(* No packet is in the queue twice, nor both there and in the task's hand. *)
Distinct ==
  /\ lwip.pc # "idle" => lwip.e.n = sentCount
  /\ \A i \in 1..Len(queue) : Older(queue[i])
  /\ task.pc \in {"back", "rest"} => Older(task.first)
  /\ task.pc = "back" => Older(task.packet)
  /\ NoneTwice
  /\ task.pc = "back" => ~InQueue(task.packet)

(* A client that is deleted, or about to be, is silent.                    *)
Mute ==
  /\ \A u \in Clients : Life(u) = "deleted" /\ State(u) # "reset" => Silenced(u)
  /\ clearing /\ State(cur) # "reset" => Silenced(cur)
  /\ task.pc = "clear" \/ CloseApi => ~conn[cur].args

(* A packet that clears the queue is of such a client, and is in the queue *)
(* when tcp_close() is called.                                             *)
Clears ==
  /\ \A i \in 1..Len(queue) : queue[i].kind = "clear" => HasCleared(queue[i].arg)
  /\ task.pc = "back" /\ task.packet.kind = "clear" => HasCleared(task.packet.arg)
  /\ CloseApi => InQueue(Task!Clear(cur))

(* Nothing is known of a client before its accept event is in the queue.   *)
Fresh ==
  lwip.pc = "send" /\ lwip.e.kind = "accept" =>
    /\ \A i \in 1..Len(queue) : queue[i].arg # lwip.e.arg
    /\ task.pc # "idle" => cur # lwip.e.arg
    /\ task.pc = "back" => task.packet.arg # lwip.e.arg

(* The second layer.                                                       *)
Marks == Basics /\ Distinct /\ Mute /\ Clears /\ Fresh
MarksNext == (Distinct /\ Mute /\ Clears /\ Fresh)'

(* What the types say of the numbers.                                      *)
Counts == /\ sentCount \in Nat /\ (lwip.pc # "idle" => sentCount >= 1)
          /\ \A i \in 1..Len(queue) : queue[i].n \in Nat
          /\ task.pc \in {"back", "rest"} => task.first.n \in Nat
          /\ task.pc = "back" => task.packet.n \in Nat

(* What the types say of the numbers.                                      *)
LEMMA CountsOK == TaskTypes => Counts
BY DEF TaskTypes, QueueOK, LwipOK, TaskOK, InType, IsEvent, IsClear, Packet, Counts

(* A packet that was taken is not in the queue any more.                   *)
LEMMA PopDistinct ==
  ASSUME Popped, 1 \in 1..Len(queue), NoneTwice
  PROVE  NoneTwice' /\ ~(\E i \in 1..Len(queue') : queue'[i] = queue[1])
<1>1. \A i \in 1..Len(queue') : queue'[i] = queue[i + 1] /\ i + 1 \in 1..Len(queue) /\ i + 1 # 1
  BY DEF Popped
<1>2. \A i, j \in 1..Len(queue') : i # j => i + 1 # j + 1
  BY DEF Popped
<1> QED BY <1>1, <1>2 DEF NoneTwice

(* A packet that is not in the queue may be put there.                     *)
LEMMA PushDistinct ==
  ASSUME NEW x, PushedBack(x) \/ PushedFront(x), NoneTwice, ~InQueue(x)
  PROVE  NoneTwice'
<1>1. CASE PushedBack(x)
  <2>1. \A i \in 1..Len(queue') : i \in 1..Len(queue) \/ i = Len(queue) + 1
    BY <1>1 DEF PushedBack
  <2> QED BY <1>1, <2>1 DEF PushedBack, NoneTwice, InQueue
<1>2. CASE PushedFront(x)
  <2>1. \A i \in 1..Len(queue') : i = 1 \/ (i \in 2..Len(queue') /\ i - 1 \in 1..Len(queue))
    BY <1>2 DEF PushedFront
  <2>2. \A i, j \in 1..Len(queue') : i # j => i - 1 # j - 1
    BY <1>2 DEF PushedFront
  <2> QED BY <1>2, <2>1, <2>2 DEF PushedFront, NoneTwice, InQueue
<1> QED BY <1>1, <1>2

(* What is in the queue stays when a packet is put there.                  *)
LEMMA PushKeeps ==
  ASSUME NEW x, PushedBack(x) \/ PushedFront(x), NEW y, InQueue(y)
  PROVE  \E i \in 1..Len(queue') : queue'[i] = y
<1> PICK i \in 1..Len(queue) : queue[i] = y
  BY DEF InQueue
<1>1. CASE PushedBack(x)
  BY <1>1 DEF PushedBack
<1>2. CASE PushedFront(x)
  <2>1. i + 1 \in 2..Len(queue') /\ i + 1 \in 1..Len(queue') /\ (i + 1) - 1 = i
    BY <1>2 DEF PushedFront
  <2> QED BY <1>2, <2>1 DEF PushedFront
<1> QED BY <1>1, <1>2

(* It keeps the second layer: accept().                                    *)
LEMMA AcceptMarks ==
  ASSUME Marks, NEW u \in Clients, NEW slot \in Task!freeSlots, AcceptDoes(u, slot)
  PROVE  MarksNext
<1> USE DEF Marks, Basics, AcceptDoes
<1>0. Args
  BY ArgsOK DEF Basics
<1>n. Counts
  BY CountsOK DEF Basics
<1>2. Distinct'
  BY <1>0, <1>n DEF Args, ClientOK, ConnOK, SlotsOK, Distinct, Older, InQueue, Counts, NoneTwice
<1>3. Mute'
  BY <1>0, <1>n
    DEF Args, ClientOK, ConnOK, SlotsOK, Mute, Silenced, Unheard, clearing, closing, aborting,
        CloseApi, Life, State, cur, Held
<1>4. Clears'
  BY <1>0, <1>n
    DEF Args, ClientOK, ConnOK, SlotsOK, Clears, HasCleared, clearing, closing, aborting,
        CloseApi, Life, State, Stages, cur, InQueue, Task!Clear
<1>5. Fresh'
  BY <1>0, <1>n DEF Args, ClientOK, ConnOK, SlotsOK, Fresh, Life, State, cur, Stages, Held
<1> QED BY <1>2, <1>3, <1>4, <1>5 DEF MarksNext

(* It keeps the second layer: an event that lwIP reports.                  *)
LEMMA CallbackMarks ==
  ASSUME Marks, NEW u \in Clients, NEW k \in {"recv", "sent", "poll", "fin"}, CallbackDoes(u, k)
  PROVE  MarksNext
<1> USE DEF Marks, Basics, CallbackDoes
<1>0. Args
  BY ArgsOK DEF Basics
<1>n. Counts
  BY CountsOK DEF Basics
<1>2. Distinct'
  <2>1. lwip.pc = "idle" /\ UNCHANGED <<queue, task>> /\ sentCount' = sentCount + 1 /\
          lwip'.e.n = sentCount'
    OBVIOUS
  <2>2. Distinct
    OBVIOUS
  <2> HIDE DEF CallbackDoes, Marks
  <2> QED BY <1>n, <2>1, <2>2 DEF Counts, Distinct, Older, InQueue, NoneTwice
<1>3. Mute'
  BY <1>0, <1>n
    DEF Args, ClientOK, ConnOK, SlotsOK, Mute, Silenced, Unheard, clearing, closing, aborting,
        CloseApi, Life, State, cur
<1>4. Clears'
  BY <1>0, <1>n
    DEF Args, ClientOK, ConnOK, SlotsOK, Clears, HasCleared, clearing, closing, aborting,
        CloseApi, Life, State, Stages, cur, InQueue, Task!Clear
<1>5. Fresh'
  BY <1>0, <1>n DEF Args, ClientOK, ConnOK, SlotsOK, Fresh, Life, State, cur, Stages
<1> QED BY <1>2, <1>3, <1>4, <1>5 DEF MarksNext

(* It keeps the second layer: an error.                                    *)
LEMMA ErrorMarks == ASSUME Marks, NEW u \in Clients, ErrorDoes(u) PROVE MarksNext
<1> USE DEF Marks, Basics, ErrorDoes
<1>0. Args
  BY ArgsOK DEF Basics
<1>n. Counts
  BY CountsOK DEF Basics
<1>2. Distinct'
  BY <1>0, <1>n DEF Args, ClientOK, ConnOK, SlotsOK, Distinct, Older, InQueue, Counts, NoneTwice
<1>3. Mute'
  BY <1>0, <1>n
    DEF Args, ClientOK, ConnOK, SlotsOK, Mute, Silenced, Unheard, clearing, closing, aborting,
        CloseApi, Life, State, cur
<1>4. Clears'
  BY <1>0, <1>n
    DEF Args, ClientOK, ConnOK, SlotsOK, Clears, HasCleared, clearing, closing, aborting,
        CloseApi, Life, State, Stages, cur, InQueue, Task!Clear
<1>5. Fresh'
  BY <1>0, <1>n DEF Args, ClientOK, ConnOK, SlotsOK, Fresh, Life, State, cur, Stages
<1> QED BY <1>2, <1>3, <1>4, <1>5 DEF MarksNext

(* It keeps the second layer: the end of lwIP_fin.                         *)
LEMMA FinMarks == ASSUME Marks, NEW u \in Clients, FinDoes(u) PROVE MarksNext
<1> USE DEF Marks, Basics, FinDoes
<1>0. Args
  BY ArgsOK DEF Basics
<1>n. Counts
  BY CountsOK DEF Basics
<1>2. Distinct'
  BY <1>0, <1>n DEF Args, ClientOK, ConnOK, SlotsOK, Distinct, Older, InQueue, Counts, NoneTwice
<1>3. Mute'
  BY <1>0, <1>n
    DEF Args, ClientOK, ConnOK, SlotsOK, Mute, Silenced, Unheard, clearing, closing, aborting,
        CloseApi, Life, State, cur
<1>4. Clears'
  BY <1>0, <1>n
    DEF Args, ClientOK, ConnOK, SlotsOK, Clears, HasCleared, clearing, closing, aborting,
        CloseApi, Life, State, Stages, cur, InQueue, Task!Clear
<1>5. Fresh'
  BY <1>0, <1>n DEF Args, ClientOK, ConnOK, SlotsOK, Fresh, Life, State, cur, Stages
<1> QED BY <1>2, <1>3, <1>4, <1>5 DEF MarksNext

(* It keeps the second layer: sending an event.                            *)
LEMMA SendMarks == ASSUME Marks, SendDoes PROVE MarksNext
<1> USE DEF Marks, Basics, SendDoes
<1>0. Args
  BY ArgsOK DEF Basics
<1>n. Counts
  BY CountsOK DEF Basics
<1>d. NoneTwice'
  <2>1. ~InQueue(lwip.e)
    BY <1>n DEF Distinct, Older, InQueue, Counts
  <2> QED BY <2>1, PushDistinct DEF Distinct
<1>k. CloseApi => InQueue(Task!Clear(cur))'
  BY PushKeeps DEF Clears, InQueue, CloseApi, cur, Task!Clear
<1>4. Distinct'
  <2>1. lwip'.pc = "idle" /\ lwip.pc = "send" /\ UNCHANGED <<task, sentCount>>
    OBVIOUS
  <2>2. \A i \in 1..Len(queue') : queue'[i] = lwip.e \/
          \E j \in 1..Len(queue) : queue'[i] = queue[j]
    OBVIOUS
  <2> HIDE DEF SendDoes
  <2>3. lwip.e.n = sentCount /\ \A e : Older(e) => StillOlder(e) /\ e.n < sentCount
    BY <1>n, <2>1 DEF Distinct, Older, StillOlder, Counts
  <2>4. StillOlder(lwip.e)
    BY <1>n, <2>1, <2>3 DEF Older, StillOlder, Counts
  <2>5. \A i \in 1..Len(queue') : StillOlder(queue'[i])
    BY <2>2, <2>3, <2>4 DEF Distinct
  <2>6. task.pc = "back" => ~InQueue(task.packet)'
    BY <1>n, <2>1, <2>2, <2>3 DEF Distinct, InQueue, Counts
  <2> QED BY <1>d, <2>1, <2>3, <2>5, <2>6 DEF Distinct, StillOlder, Older
<1>5. Mute'
  BY <1>0, <1>n, <1>d, <1>k
    DEF Args, ClientOK, ConnOK, SlotsOK, Mute, Silenced, Unheard, clearing, closing, aborting,
        CloseApi, Life, State, cur
<1>6. Clears'
  <2>1. lwip.e.kind # "clear"
    BY DEF TaskTypes, LwipOK, IsEvent
  <2>2. (CloseApi' <=> CloseApi) /\ \A u : HasCleared(u)' <=> HasCleared(u)
    BY DEF CloseApi, HasCleared, clearing, closing, aborting, Life, cur
  <2>3. \A i \in 1..Len(queue') : queue'[i].kind = "clear" => HasCleared(queue'[i].arg)
    BY <2>1 DEF Clears
  <2>4. UNCHANGED task
    OBVIOUS
  <2> HIDE DEF SendDoes
  <2> QED BY <1>k, <2>2, <2>3, <2>4 DEF Clears
<1>7. Fresh'
  BY <1>0, <1>n, <1>d, <1>k DEF Args, ClientOK, ConnOK, SlotsOK, Fresh, Life, State, cur, Stages
<1> QED BY <1>4, <1>5, <1>6, <1>7 DEF MarksNext

(* It keeps the second layer: a call that the lwIP thread executes.        *)
LEMMA ApiMarks == ASSUME Marks, NEW failed \in BOOLEAN, ApiDoes(failed) PROVE MarksNext
<1> USE DEF Marks, Basics, ApiDoes
<1>0. Args
  BY ArgsOK DEF Basics
<1>n. Counts
  BY CountsOK DEF Basics
<1>2. Distinct'
  BY <1>0, <1>n DEF Args, ClientOK, ConnOK, SlotsOK, Distinct, Older, InQueue, Counts, NoneTwice
<1>3. Mute'
  BY <1>0, <1>n
    DEF Args, ClientOK, ConnOK, SlotsOK, Mute, Silenced, Unheard, clearing, closing, aborting,
        CloseApi, Life, State, cur
<1>4. Clears'
  BY <1>0, <1>n
    DEF Args, ClientOK, ConnOK, SlotsOK, Clears, HasCleared, clearing, closing, aborting,
        CloseApi, Life, State, Stages, cur, InQueue, Task!Clear
<1>5. Fresh'
  BY <1>0, <1>n DEF Args, ClientOK, ConnOK, SlotsOK, Fresh, Life, State, cur, Stages
<1> QED BY <1>2, <1>3, <1>4, <1>5 DEF MarksNext

(* It keeps the second layer: taking an event.                             *)
LEMMA GetMarks == ASSUME Marks, GetDoes PROVE MarksNext
<1> USE DEF Marks, Basics, GetDoes
<1>0. Args
  BY ArgsOK DEF Basics
<1>n. Counts
  BY CountsOK DEF Basics
<1>h. 1 \in 1..Len(queue) =>
         queue[1].arg \in Clients /\ Life(queue[1].arg) # "none" /\ Told(queue[1])
  BY <1>0 DEF Args, Held, Sents
<1>d. NoneTwice'
  BY <1>h, PopDistinct DEF Distinct
<1>4. Distinct'
  BY <1>0, <1>n, <1>h, <1>d
    DEF Args, ClientOK, ConnOK, SlotsOK, Distinct, Older, InQueue, Counts
<1>5. Mute'
  BY <1>0, <1>n, <1>h, <1>d
    DEF Args, ClientOK, ConnOK, SlotsOK, Mute, Silenced, Unheard, clearing, closing, aborting,
        CloseApi, Life, State, cur
<1>6. Clears'
  BY <1>0, <1>n, <1>h, <1>d
    DEF Args, ClientOK, ConnOK, SlotsOK, Clears, HasCleared, clearing, closing, aborting,
        CloseApi, Life, State, Stages, cur, InQueue, Task!Clear
<1>7. Fresh'
  BY <1>0, <1>n, <1>h, <1>d DEF Args, ClientOK, ConnOK, SlotsOK, Fresh, Life, State, cur, Stages
<1> QED BY <1>4, <1>5, <1>6, <1>7 DEF MarksNext

(* It keeps the second layer: the start of a handler.                      *)
LEMMA RunMarks == ASSUME Marks, RunDoes PROVE MarksNext
<1> USE DEF Marks, Basics, RunDoes
<1>0. Args
  BY ArgsOK DEF Basics
<1>n. Counts
  BY CountsOK DEF Basics
<1>2. Distinct'
  BY <1>0, <1>n DEF Args, ClientOK, ConnOK, SlotsOK, Distinct, Older, InQueue, Counts, NoneTwice
<1>3. Mute'
  BY <1>0, <1>n
    DEF Args, ClientOK, ConnOK, SlotsOK, Mute, Silenced, Unheard, clearing, closing, aborting,
        CloseApi, Life, State, cur, Told, Truthful
<1>4. Clears'
  BY <1>0, <1>n
    DEF Args, ClientOK, ConnOK, SlotsOK, Clears, HasCleared, clearing, closing, aborting,
        CloseApi, Life, State, Stages, cur, InQueue, Task!Clear
<1>5. Fresh'
  BY <1>0, <1>n DEF Args, ClientOK, ConnOK, SlotsOK, Fresh, Life, State, cur, Stages
<1> QED BY <1>2, <1>3, <1>4, <1>5 DEF MarksNext

(* It keeps the second layer: a callback of the program.                   *)
LEMMA ReactMarks == ASSUME Marks, ReactDoes PROVE MarksNext
<1> USE DEF Marks, Basics, ReactDoes
<1>0. Args
  BY ArgsOK DEF Basics
<1>n. Counts
  BY CountsOK DEF Basics
<1>2. Distinct'
  BY <1>0, <1>n DEF Args, ClientOK, ConnOK, SlotsOK, Distinct, Older, InQueue, Counts, NoneTwice
<1>3. Mute'
  BY <1>0, <1>n
    DEF Args, ClientOK, ConnOK, SlotsOK, Mute, Silenced, Unheard, clearing, closing, aborting,
        CloseApi, Life, State, cur
<1>4. Clears'
  BY <1>0, <1>n
    DEF Args, ClientOK, ConnOK, SlotsOK, Clears, HasCleared, clearing, closing, aborting,
        CloseApi, Life, State, Stages, cur, InQueue, Task!Clear
<1>5. Fresh'
  BY <1>0, <1>n DEF Args, ClientOK, ConnOK, SlotsOK, Fresh, Life, State, cur, Stages
<1> QED BY <1>2, <1>3, <1>4, <1>5 DEF MarksNext

(* It keeps the second layer: the return of a call.                        *)
LEMMA ReturnMarks == ASSUME Marks, ReturnDoes PROVE MarksNext
<1> USE DEF Marks, Basics, ReturnDoes
<1>0. Args
  BY ArgsOK DEF Basics
<1>n. Counts
  BY CountsOK DEF Basics
<1>2. Distinct'
  BY <1>0, <1>n DEF Args, ClientOK, ConnOK, SlotsOK, Distinct, Older, InQueue, Counts, NoneTwice
<1>3. Mute'
  BY <1>0, <1>n
    DEF Args, ClientOK, ConnOK, SlotsOK, Mute, Silenced, Unheard, clearing, closing, aborting,
        CloseApi, Life, State, cur
<1>4. Clears'
  BY <1>0, <1>n
    DEF Args, ClientOK, ConnOK, SlotsOK, Clears, HasCleared, clearing, closing, aborting,
        CloseApi, Life, State, Stages, cur, InQueue, Task!Clear
<1>5. Fresh'
  BY <1>0, <1>n DEF Args, ClientOK, ConnOK, SlotsOK, Fresh, Life, State, cur, Stages
<1> QED BY <1>2, <1>3, <1>4, <1>5 DEF MarksNext

(* It keeps the second layer: the rest of a handler.                       *)
LEMMA AfterMarks == ASSUME Marks, AfterDoes PROVE MarksNext
<1> USE DEF Marks, Basics, AfterDoes
<1>0. Args
  BY ArgsOK DEF Basics
<1>n. Counts
  BY CountsOK DEF Basics
<1>2. Distinct'
  BY <1>0, <1>n DEF Args, ClientOK, ConnOK, SlotsOK, Distinct, Older, InQueue, Counts, NoneTwice
<1>3. Mute'
  BY <1>0, <1>n
    DEF Args, ClientOK, ConnOK, SlotsOK, Mute, Silenced, Unheard, clearing, closing, aborting,
        CloseApi, Life, State, cur
<1>4. Clears'
  BY <1>0, <1>n
    DEF Args, ClientOK, ConnOK, SlotsOK, Clears, HasCleared, clearing, closing, aborting,
        CloseApi, Life, State, Stages, cur, InQueue, Task!Clear
<1>5. Fresh'
  BY <1>0, <1>n DEF Args, ClientOK, ConnOK, SlotsOK, Fresh, Life, State, cur, Stages
<1> QED BY <1>2, <1>3, <1>4, <1>5 DEF MarksNext

(* It keeps the second layer: abort().                                     *)
LEMMA AbortMarks == ASSUME Marks, AbortDoes PROVE MarksNext
<1> USE DEF Marks, Basics, AbortDoes
<1>0. Args
  BY ArgsOK DEF Basics
<1>n. Counts
  BY CountsOK DEF Basics
<1>2. Distinct'
  BY <1>0, <1>n DEF Args, ClientOK, ConnOK, SlotsOK, Distinct, Older, InQueue, Counts, NoneTwice
<1>3. Mute'
  BY <1>0, <1>n
    DEF Args, ClientOK, ConnOK, SlotsOK, Mute, Silenced, Unheard, clearing, closing, aborting,
        CloseApi, Life, State, cur
<1>4. Clears'
  BY <1>0, <1>n
    DEF Args, ClientOK, ConnOK, SlotsOK, Clears, HasCleared, clearing, closing, aborting,
        CloseApi, Life, State, Stages, cur, InQueue, Task!Clear
<1>5. Fresh'
  BY <1>0, <1>n DEF Args, ClientOK, ConnOK, SlotsOK, Fresh, Life, State, cur, Stages
<1> QED BY <1>2, <1>3, <1>4, <1>5 DEF MarksNext

(* It keeps the second layer: _close().                                    *)
LEMMA CloseMarks == ASSUME Marks, CloseDoes PROVE MarksNext
<1> USE DEF Marks, Basics, CloseDoes
<1>0. Args
  BY ArgsOK DEF Basics
<1>n. Counts
  BY CountsOK DEF Basics
<1>2. Distinct'
  BY <1>0, <1>n DEF Args, ClientOK, ConnOK, SlotsOK, Distinct, Older, InQueue, Counts, NoneTwice
<1>3. Mute'
  BY <1>0, <1>n
    DEF Args, ClientOK, ConnOK, SlotsOK, Mute, Silenced, Unheard, clearing, closing, aborting,
        CloseApi, Life, State, cur
<1>4. Clears'
  BY <1>0, <1>n
    DEF Args, ClientOK, ConnOK, SlotsOK, Clears, HasCleared, clearing, closing, aborting,
        CloseApi, Life, State, Stages, cur, InQueue, Task!Clear
<1>5. Fresh'
  BY <1>0, <1>n DEF Args, ClientOK, ConnOK, SlotsOK, Fresh, Life, State, cur, Stages
<1> QED BY <1>2, <1>3, <1>4, <1>5 DEF MarksNext

(* It keeps the second layer: _tcp_clear_events().                         *)
LEMMA ClearEventsMarks == ASSUME Marks, ClearEventsDoes PROVE MarksNext
<1> USE DEF Marks, Basics, ClearEventsDoes
<1>0. Args
  BY ArgsOK DEF Basics
<1>n. Counts
  BY CountsOK DEF Basics
<1>d. NoneTwice'
  <2>1. ~InQueue(Task!Clear(cur))
    BY DEF Clears, InQueue, HasCleared, clearing, closing, aborting, CloseApi
  <2> QED BY <2>1, PushDistinct DEF Distinct
<1>k. InQueue(Task!Clear(cur))'
  <2>1. queue'[1] = Task!Clear(cur) /\ 1 \in 1..Len(queue') /\
          Task!Clear(cur)' = Task!Clear(cur)
    BY DEF PushedFront, Task!Clear
  <2> QED BY <2>1 DEF InQueue
<1>4. Distinct'
  <2>1. StillOlder(Task!Clear(cur))
    BY <1>n DEF Older, StillOlder, Counts, Distinct
  <2>2. UNCHANGED <<lwip, sentCount>> /\ task'.pc \notin {"back", "rest"}
    OBVIOUS
  <2>3. \A i \in 1..Len(queue') : queue'[i] = Task!Clear(cur) \/
          \E j \in 1..Len(queue) : queue'[i] = queue[j]
    OBVIOUS
  <2> HIDE DEF ClearEventsDoes
  <2>4. \A e : Older(e) => StillOlder(e)
    BY <2>2 DEF Older, StillOlder
  <2>5. \A i \in 1..Len(queue') : StillOlder(queue'[i])
    BY <2>1, <2>3, <2>4 DEF Distinct
  <2> QED BY <1>d, <2>2, <2>5 DEF Distinct, StillOlder, Older
<1>5. Mute'
  BY <1>0, <1>n, <1>d, <1>k
    DEF Args, ClientOK, ConnOK, SlotsOK, Mute, Silenced, Unheard, clearing, closing, aborting,
        CloseApi, Life, State, cur, Sents, Told
<1>6. Clears'
  <2>1. \A i \in 1..Len(queue') : queue'[i] = Task!Clear(cur) \/
          \E j \in 1..Len(queue) : queue'[i] = queue[j]
    OBVIOUS
  <2>2. HasCleared(cur)' /\ task'.pc # "back" /\ cur' = cur /\ Task!Clear(cur).arg = cur
    BY DEF HasCleared, clearing, CloseApi, Stages, Life
  <2>3. \A u \in Clients : HasCleared(u) => HasCleared(u)'
    BY DEF HasCleared, clearing, closing, aborting, CloseApi, Life
  <2>4. ASSUME NEW i \in 1..Len(queue'), queue'[i].kind = "clear"
        PROVE  \E u \in Clients : u = queue'[i].arg /\ HasCleared(u)'
    BY <1>0, <2>1, <2>2, <2>3, <2>4 DEF Clears, Args
  <2>5. CloseApi' => InQueue(Task!Clear(cur))'
    BY <1>k
  <2> QED BY <2>2, <2>4, <2>5 DEF Clears
<1>7. Fresh'
  <2>1. UNCHANGED lwip /\ cur' = cur /\ task'.pc # "back" /\ task.pc # "idle" /\
          Task!Clear(cur).arg = cur
    OBVIOUS
  <2>2. \A i \in 1..Len(queue') : queue'[i] = Task!Clear(cur) \/
          \E j \in 1..Len(queue) : queue'[i] = queue[j]
    OBVIOUS
  <2>3. Fresh
    OBVIOUS
  <2> HIDE DEF ClearEventsDoes, Marks
  <2>4. lwip.pc = "send" /\ lwip.e.kind = "accept" =>
          \A i \in 1..Len(queue') : queue'[i].arg # lwip.e.arg
    BY <2>1, <2>2, <2>3 DEF Fresh
  <2> QED BY <2>1, <2>3, <2>4 DEF Fresh
<1> QED BY <1>4, <1>5, <1>6, <1>7 DEF MarksNext

(* It keeps the second layer: _tcp_close.                                  *)
LEMMA TcpCloseMarks == ASSUME Marks, TcpCloseDoes PROVE MarksNext
<1> USE DEF Marks, Basics, TcpCloseDoes
<1>0. Args
  BY ArgsOK DEF Basics
<1>n. Counts
  BY CountsOK DEF Basics
<1>2. Distinct'
  BY <1>0, <1>n DEF Args, ClientOK, ConnOK, SlotsOK, Distinct, Older, InQueue, Counts, NoneTwice
<1>3. Mute'
  <2>1. ~conn[cur].args
    BY DEF Mute, CloseApi
  <2>2. \A u \in Clients : Silenced(u) => Silenced(u)'
    BY DEF Silenced
  <2>3. ASSUME task'.pc = "abort", State(cur) # "reset" PROVE Silenced(cur)'
    <3>1. State(cur) = "closed"
      BY <1>0, <2>3 DEF Lives, Args, ConnOK, State, Life
    <3>2. lwip.pc # "idle" /\ lwip.e.arg = cur => lwip.e.kind = "fin"
      <4>1. lwip.pc \in {"idle", "send", "fin"}
        BY DEF TaskTypes, LwipOK
      <4> QED BY <3>1, <4>1 DEF Held
    <3> QED BY <2>1, <2>3, <3>2 DEF Silenced
  <2>4. \A u \in Clients : Life(u)' = "deleted" /\ State(u)' # "reset" => Silenced(u)'
    BY <2>2 DEF Mute, State
  <2>5. (clearing /\ State(cur) # "reset")' => Silenced(cur)'
    BY <2>3 DEF clearing, closing, aborting, State, cur
  <2> QED BY <2>1, <2>4, <2>5 DEF Mute
<1>4. Clears'
  BY <1>0, <1>n
    DEF Args, ClientOK, ConnOK, SlotsOK, Clears, HasCleared, clearing, closing, aborting,
        CloseApi, Life, State, Stages, cur, InQueue, Task!Clear
<1>5. Fresh'
  BY <1>0, <1>n DEF Args, ClientOK, ConnOK, SlotsOK, Fresh, Life, State, cur, Stages
<1> QED BY <1>2, <1>3, <1>4, <1>5 DEF MarksNext

(* It keeps the second layer: _discard_cb.                                 *)
LEMMA DiscardMarks == ASSUME Marks, DiscardDoes PROVE MarksNext
<1> USE DEF Marks, Basics, DiscardDoes
<1>0. Args
  BY ArgsOK DEF Basics
<1>n. Counts
  BY CountsOK DEF Basics
<1>2. Distinct'
  BY <1>0, <1>n DEF Args, ClientOK, ConnOK, SlotsOK, Distinct, Older, InQueue, Counts, NoneTwice
<1>3. Mute'
  BY <1>0, <1>n
    DEF Args, ClientOK, ConnOK, SlotsOK, Mute, Silenced, Unheard, clearing, closing, aborting,
        CloseApi, Life, State, cur
<1>4. Clears'
  BY <1>0, <1>n
    DEF Args, ClientOK, ConnOK, SlotsOK, Clears, HasCleared, clearing, closing, aborting,
        CloseApi, Life, State, Stages, cur, InQueue, Task!Clear
<1>5. Fresh'
  BY <1>0, <1>n DEF Args, ClientOK, ConnOK, SlotsOK, Fresh, Life, State, cur, Stages
<1> QED BY <1>2, <1>3, <1>4, <1>5 DEF MarksNext

(* It keeps the second layer: First and Rest, the walk through the queue,. *)
LEMMA WalkMarks == ASSUME Marks, WalkDoes PROVE MarksNext
<1> USE DEF Marks, Basics, WalkDoes
<1>0. Args
  BY ArgsOK DEF Basics
<1>n. Counts
  BY CountsOK DEF Basics
<1>h. 1 \in 1..Len(queue) =>
         queue[1].arg \in Clients /\ Life(queue[1].arg) # "none" /\ Told(queue[1])
  BY <1>0 DEF Args, Held, Sents
<1>d. NoneTwice' /\ (Popped => ~(\E i \in 1..Len(queue') : queue'[i] = queue[1]))
  <2>1. CASE UNCHANGED queue /\ ~Popped
    BY <2>1 DEF Distinct, NoneTwice
  <2>2. CASE Popped
    <3>1. 1 \in 1..Len(queue)
      BY <2>2 DEF Popped
    <3> QED BY <2>2, <3>1, PopDistinct DEF Distinct
  <2>3. UNCHANGED queue => ~Popped
    BY DEF Popped
  <2> QED BY <2>1, <2>2, <2>3
<1>4. Distinct'
  BY <1>0, <1>n, <1>h, <1>d
    DEF Args, ClientOK, ConnOK, SlotsOK, Distinct, Older, InQueue, Counts
<1>5. Mute'
  BY <1>0, <1>n, <1>h, <1>d
    DEF Args, ClientOK, ConnOK, SlotsOK, Mute, Silenced, Unheard, clearing, closing, aborting,
        CloseApi, Life, State, cur
<1>6. Clears'
  BY <1>0, <1>n, <1>h, <1>d
    DEF Args, ClientOK, ConnOK, SlotsOK, Clears, HasCleared, clearing, closing, aborting,
        CloseApi, Life, State, Stages, cur, InQueue, Task!Clear
<1>7. Fresh'
  BY <1>0, <1>n, <1>h, <1>d DEF Args, ClientOK, ConnOK, SlotsOK, Fresh, Life, State, cur, Stages
<1> QED BY <1>4, <1>5, <1>6, <1>7 DEF MarksNext

(* It keeps the second layer: putting a packet back.                       *)
LEMMA BackMarks == ASSUME Marks, BackDoes PROVE MarksNext
<1> USE DEF Marks, Basics, BackDoes
<1>0. Args
  BY ArgsOK DEF Basics
<1>n. Counts
  BY CountsOK DEF Basics
<1>d. NoneTwice'
  BY PushDistinct DEF Distinct
<1>3. Distinct'
  BY <1>0, <1>n, <1>d DEF Args, ClientOK, ConnOK, SlotsOK, Distinct, Older, InQueue, Counts
<1>4. Mute'
  BY <1>0, <1>n, <1>d
    DEF Args, ClientOK, ConnOK, SlotsOK, Mute, Silenced, Unheard, clearing, closing, aborting,
        CloseApi, Life, State, cur
<1>5. Clears'
  BY <1>0, <1>n, <1>d
    DEF Args, ClientOK, ConnOK, SlotsOK, Clears, HasCleared, clearing, closing, aborting,
        CloseApi, Life, State, Stages, cur, InQueue, Task!Clear
<1>6. Fresh'
  BY <1>0, <1>n, <1>d DEF Args, ClientOK, ConnOK, SlotsOK, Fresh, Life, State, cur, Stages
<1> QED BY <1>3, <1>4, <1>5, <1>6 DEF MarksNext

-------------------------------------------------------------------------------
(* The third layer: the order of the queue.                                *)
(* While the walk turns the queue round, the packets from f on are put back *)
(* or new and those before f are still to be visited: the ones put back     *)
(* come first in the order of the queue.                                    *)
Before(f, i, j) == (i >= f /\ j < f) \/ (i < j /\ (i >= f <=> j >= f))
Ring(f) ==
  IF task.pc \in {"back", "rest"}
  THEN /\ f <= Len(queue) => queue[f] = task.first
       /\ f = Len(queue) + 1 <=> task.pc = "back" /\ task.packet = task.first
       /\ \A j \in 1..(f - 1) : j <= Len(queue) => queue[j] # task.first
  ELSE f = Len(queue) + 1

(* The task is removing the events of the client.                          *)
Swept(u) == task.pc \in {"run"} \cup Sweep /\ task.e = Task!Clear(u)

(* An event of the client at j will be removed before the task takes it:   *)
(* the walk has yet to visit it, or a packet before it clears the queue.   *)
Covered(f, u, j) ==
  \/ Swept(u) /\ j < f
  \/ \E i \in 1..Len(queue) : queue[i] = Task!Clear(u) /\ Before(f, i, j)
  \/ task.pc = "back" /\ task.packet = Task!Clear(u) /\ j < f

(* So it is with every event of a muted client in the queue, and with the  *)
(* one in the task's hand.                                                 *)
Ahead(f) ==
  \A j \in 1..Len(queue) :
    queue[j].kind # "clear" /\ Muted(queue[j]) => Covered(f, queue[j].arg, j)
HandAhead(f) ==
  task.pc = "back" /\ task.packet.kind # "clear" /\ Muted(task.packet) =>
    \E i \in f..Len(queue) : queue[i] = Task!Clear(task.packet.arg)

(* The third layer: the queue can be cut so.                               *)
Order == \E f \in 1..(Len(queue) + 1) : Ring(f) /\ Ahead(f) /\ HandAhead(f)

(* The step mutes nobody.                                                  *)
NoneMuted == \A e : e.arg \in Clients /\ Muted(e)' => Muted(e)

(* It mutes nobody: accept().                                              *)
LEMMA AcceptMutes ==
  ASSUME Marks, NEW u \in Clients, NEW slot \in Task!freeSlots, AcceptDoes(u, slot)
  PROVE  NoneMuted
<1> USE DEF Marks, Basics, AcceptDoes
<1>0. Args
  BY ArgsOK DEF Basics
<1>1. NoneMuted
  BY <1>0
    DEF Args, ClientOK, ConnOK, SlotsOK, NoneMuted, Muted, HasCleared, clearing, closing,
        aborting, CloseApi, Life, State, Stages, cur, Held, Mute, Clears
<1> QED BY <1>1 DEF NoneMuted

(* It mutes nobody: an event that lwIP reports.                            *)
LEMMA CallbackMutes ==
  ASSUME Marks, NEW u \in Clients, NEW k \in {"recv", "sent", "poll", "fin"}, CallbackDoes(u, k)
  PROVE  NoneMuted
<1> USE DEF Marks, Basics, CallbackDoes
<1>0. Args
  BY ArgsOK DEF Basics
<1>1. NoneMuted
  BY <1>0
    DEF Args, ClientOK, ConnOK, SlotsOK, NoneMuted, Muted, HasCleared, clearing, closing,
        aborting, CloseApi, Life, State, Stages, cur, Held, Mute, Clears
<1> QED BY <1>1 DEF NoneMuted

(* It mutes nobody: an error.                                              *)
LEMMA ErrorMutes == ASSUME Marks, NEW u \in Clients, ErrorDoes(u) PROVE NoneMuted
<1> USE DEF Marks, Basics, ErrorDoes
<1>0. Args
  BY ArgsOK DEF Basics
<1>1. NoneMuted
  BY <1>0
    DEF Args, ClientOK, ConnOK, SlotsOK, NoneMuted, Muted, HasCleared, clearing, closing,
        aborting, CloseApi, Life, State, Stages, cur, Held, Mute, Clears
<1> QED BY <1>1 DEF NoneMuted

(* It mutes nobody: the end of lwIP_fin.                                   *)
LEMMA FinMutes == ASSUME Marks, NEW u \in Clients, FinDoes(u) PROVE NoneMuted
<1> USE DEF Marks, Basics, FinDoes
<1>0. Args
  BY ArgsOK DEF Basics
<1>1. NoneMuted
  BY <1>0
    DEF Args, ClientOK, ConnOK, SlotsOK, NoneMuted, Muted, HasCleared, clearing, closing,
        aborting, CloseApi, Life, State, Stages, cur, Held, Mute, Clears
<1> QED BY <1>1 DEF NoneMuted

(* It mutes nobody: sending an event.                                      *)
LEMMA SendMutes == ASSUME Marks, SendDoes PROVE NoneMuted
<1> USE DEF Marks, Basics, SendDoes
<1>0. Args
  BY ArgsOK DEF Basics
<1>1. NoneMuted
  BY <1>0
    DEF Args, ClientOK, ConnOK, SlotsOK, NoneMuted, Muted, HasCleared, clearing, closing,
        aborting, CloseApi, Life, State, Stages, cur, Held, Mute, Clears
<1> QED BY <1>1 DEF NoneMuted

(* It mutes nobody: a call that the lwIP thread executes.                  *)
LEMMA ApiMutes == ASSUME Marks, NEW failed \in BOOLEAN, ApiDoes(failed) PROVE NoneMuted
<1> USE DEF Marks, Basics, ApiDoes
<1>0. Args
  BY ArgsOK DEF Basics
<1>1. NoneMuted
  BY <1>0
    DEF Args, ClientOK, ConnOK, SlotsOK, NoneMuted, Muted, HasCleared, clearing, closing,
        aborting, CloseApi, Life, State, Stages, cur, Held, Mute, Clears
<1> QED BY <1>1 DEF NoneMuted

(* It mutes nobody: taking an event.                                       *)
LEMMA GetMutes == ASSUME Marks, GetDoes PROVE NoneMuted
<1> USE DEF Marks, Basics, GetDoes
<1>0. Args
  BY ArgsOK DEF Basics
<1>1. NoneMuted
  BY <1>0
    DEF Args, ClientOK, ConnOK, SlotsOK, NoneMuted, Muted, HasCleared, clearing, closing,
        aborting, CloseApi, Life, State, Stages, cur, Held, Mute, Clears
<1> QED BY <1>1 DEF NoneMuted

(* It mutes nobody: the start of a handler.                                *)
LEMMA RunMutes == ASSUME Marks, RunDoes PROVE NoneMuted
<1> USE DEF Marks, Basics, RunDoes
<1>0. Args
  BY ArgsOK DEF Basics
<1>1. NoneMuted
  BY <1>0
    DEF Args, ClientOK, ConnOK, SlotsOK, NoneMuted, Muted, HasCleared, clearing, closing,
        aborting, CloseApi, Life, State, Stages, cur, Told, Truthful
<1> QED BY <1>1 DEF NoneMuted

(* It mutes nobody: a callback of the program.                             *)
LEMMA ReactMutes == ASSUME Marks, ReactDoes PROVE NoneMuted
<1> USE DEF Marks, Basics, ReactDoes
<1>0. Args
  BY ArgsOK DEF Basics
<1>1. NoneMuted
  BY <1>0
    DEF Args, ClientOK, ConnOK, SlotsOK, NoneMuted, Muted, HasCleared, clearing, closing,
        aborting, CloseApi, Life, State, Stages, cur, Held, Mute, Clears
<1> QED BY <1>1 DEF NoneMuted

(* It mutes nobody: the return of a call.                                  *)
LEMMA ReturnMutes == ASSUME Marks, ReturnDoes PROVE NoneMuted
<1> USE DEF Marks, Basics, ReturnDoes
<1>0. Args
  BY ArgsOK DEF Basics
<1>1. NoneMuted
  BY <1>0
    DEF Args, ClientOK, ConnOK, SlotsOK, NoneMuted, Muted, HasCleared, clearing, closing,
        aborting, CloseApi, Life, State, Stages, cur, Held, Mute, Clears
<1> QED BY <1>1 DEF NoneMuted

(* It mutes nobody: the rest of a handler.                                 *)
LEMMA AfterMutes == ASSUME Marks, AfterDoes PROVE NoneMuted
<1> USE DEF Marks, Basics, AfterDoes
<1>0. Args
  BY ArgsOK DEF Basics
<1>1. NoneMuted
  BY <1>0
    DEF Args, ClientOK, ConnOK, SlotsOK, NoneMuted, Muted, HasCleared, clearing, closing,
        aborting, CloseApi, Life, State, Stages, cur, Held, Mute, Clears
<1> QED BY <1>1 DEF NoneMuted

(* It mutes nobody: abort().                                               *)
LEMMA AbortMutes == ASSUME Marks, AbortDoes PROVE NoneMuted
<1> USE DEF Marks, Basics, AbortDoes
<1>0. Args
  BY ArgsOK DEF Basics
<1>1. NoneMuted
  BY <1>0
    DEF Args, ClientOK, ConnOK, SlotsOK, NoneMuted, Muted, HasCleared, clearing, closing,
        aborting, CloseApi, Life, State, Stages, cur, Held, Mute, Clears
<1> QED BY <1>1 DEF NoneMuted

(* It mutes nobody: _close().                                              *)
LEMMA CloseMutes == ASSUME Marks, CloseDoes PROVE NoneMuted
<1> USE DEF Marks, Basics, CloseDoes
<1>0. Args
  BY ArgsOK DEF Basics
<1>1. NoneMuted
  BY <1>0
    DEF Args, ClientOK, ConnOK, SlotsOK, NoneMuted, Muted, HasCleared, clearing, closing,
        aborting, CloseApi, Life, State, Stages, cur, Held, Mute, Clears
<1> QED BY <1>1 DEF NoneMuted

(* It mutes nobody: _tcp_close.                                            *)
LEMMA TcpCloseMutes == ASSUME Marks, TcpCloseDoes PROVE NoneMuted
<1> USE DEF Marks, Basics, TcpCloseDoes
<1>0. Args
  BY ArgsOK DEF Basics
<1>1. NoneMuted
  BY <1>0
    DEF Args, ClientOK, ConnOK, SlotsOK, NoneMuted, Muted, HasCleared, clearing, closing,
        aborting, CloseApi, Life, State, Stages, cur, Held, Mute, Clears
<1> QED BY <1>1 DEF NoneMuted

(* It mutes nobody: _discard_cb.                                           *)
LEMMA DiscardMutes == ASSUME Marks, DiscardDoes PROVE NoneMuted
<1> USE DEF Marks, Basics, DiscardDoes
<1>0. Args
  BY ArgsOK DEF Basics
<1>1. NoneMuted
  BY <1>0
    DEF Args, ClientOK, ConnOK, SlotsOK, NoneMuted, Muted, HasCleared, clearing, closing,
        aborting, CloseApi, Life, State, Stages, cur, Held, Mute, Clears
<1> QED BY <1>1 DEF NoneMuted

(* It mutes nobody: First and Rest, the walk through the queue,.           *)
LEMMA WalkMutes == ASSUME Marks, WalkDoes PROVE NoneMuted
<1> USE DEF Marks, Basics, WalkDoes
<1>0. Args
  BY ArgsOK DEF Basics
<1>1. NoneMuted
  BY <1>0
    DEF Args, ClientOK, ConnOK, SlotsOK, NoneMuted, Muted, HasCleared, clearing, closing,
        aborting, CloseApi, Life, State, Stages, cur, Held, Mute, Clears
<1> QED BY <1>1 DEF NoneMuted

(* It mutes nobody: putting a packet back.                                 *)
LEMMA BackMutes == ASSUME Marks, BackDoes PROVE NoneMuted
<1> USE DEF Marks, Basics, BackDoes
<1>0. Args
  BY ArgsOK DEF Basics
<1>1. NoneMuted
  BY <1>0
    DEF Args, ClientOK, ConnOK, SlotsOK, NoneMuted, Muted, HasCleared, clearing, closing,
        aborting, CloseApi, Life, State, Stages, cur, Held, Mute, Clears
<1> QED BY <1>1 DEF NoneMuted

(* The lwIP thread acts and the queue stays. *)
LEMMA OrderSame ==
  ASSUME Args, Order, NoneMuted, UNCHANGED <<queue, task>>
  PROVE  Order'
<1>1. PICK f \in 1..(Len(queue) + 1) : Ring(f) /\ Ahead(f) /\ HandAhead(f)
  BY DEF Order
<1>2. Ring(f)'
  BY <1>1 DEF Ring
<1>3. Ahead(f)'
  <2> SUFFICES ASSUME NEW j \in 1..Len(queue'), queue'[j].kind # "clear", Muted(queue[j])'
               PROVE  Covered(f, queue[j].arg, j)'
    BY DEF Ahead
  <2>1. Covered(f, queue[j].arg, j)
    BY <1>1 DEF Ahead, Args, NoneMuted
  <2> QED BY <2>1 DEF Covered, Swept, Task!Clear
<1>4. HandAhead(f)'
  BY <1>1 DEF HandAhead, Args, NoneMuted, Task!Clear
<1> QED BY <1>1, <1>2, <1>3, <1>4 DEF Order

(* The task acts, and neither the queue nor a walk is concerned. *)
LEMMA OrderAside ==
  ASSUME Args, Order, NoneMuted, UNCHANGED queue,
         task.pc \notin {"back", "rest"}, task'.pc \notin {"back", "rest"},
         \A u \in Clients : Swept(u) => Swept(u)'
  PROVE  Order'
<1>1. PICK f \in 1..(Len(queue) + 1) : Ring(f) /\ Ahead(f) /\ HandAhead(f)
  BY DEF Order
<1>2. Ring(f)'
  BY <1>1 DEF Ring
<1>3. Ahead(f)'
  <2> SUFFICES ASSUME NEW j \in 1..Len(queue'), queue'[j].kind # "clear", Muted(queue[j])'
               PROVE  Covered(f, queue[j].arg, j)'
    BY DEF Ahead
  <2>0. queue[j].arg \in Clients
    BY DEF Args
  <2>1. Covered(f, queue[j].arg, j)
    BY <1>1, <2>0 DEF Ahead, NoneMuted
  <2> QED BY <2>0, <2>1 DEF Covered, Task!Clear
<1>4. HandAhead(f)'
  BY <1>1 DEF HandAhead
<1> QED BY <1>1, <1>2, <1>3, <1>4 DEF Order

(* The task takes the next packet. *)
LEMMA OrderGet ==
  ASSUME Marks, Order, NoneMuted, GetDoes
  PROVE  Order'
<1> USE DEF GetDoes
<1>0. Args /\ Len(queue') = Len(queue) - 1 /\ Len(queue) \in Nat \ {0}
  BY ArgsOK DEF Basics, Marks, Popped
<1>1. Ahead(Len(queue) + 1)
  BY DEF Order, Ring
<1> DEFINE f == Len(queue)
<1>2. ASSUME NEW g, g = Len(queue) PROVE Ring(g)' /\ HandAhead(g)'
  BY <1>0, <1>2 DEF Ring, HandAhead
<1>3. ASSUME NEW g, g = Len(queue) PROVE Ahead(g)'
  <2> SUFFICES ASSUME NEW j \in 1..Len(queue'), queue'[j].kind # "clear", Muted(queue[j])'
               PROVE  Covered(g, queue[j].arg, j)'
    BY DEF Ahead
  <2>1. queue'[j] = queue[j + 1] /\ j + 1 \in 1..Len(queue)
    BY <1>0 DEF Popped
  <2>2. PICK u \in Clients : u = queue'[j].arg
    BY <1>0, <2>1 DEF Args
  <2>3. Covered(Len(queue) + 1, u, j + 1)
    BY <1>1, <2>1, <2>2 DEF Ahead, NoneMuted
  <2>4. PICK i \in 1..Len(queue) : queue[i] = Task!Clear(u) /\ i < j + 1
    BY <1>0, <2>3 DEF Covered, Swept, Before, Sweep
  <2>5. CASE i = 1
    <3>1. Swept(u)' /\ j < g
      BY <1>0, <1>3, <2>4, <2>5 DEF Swept, Task!Clear
    <3> QED BY <2>2, <3>1 DEF Covered
  <2>6. CASE i # 1
    <3>1. i - 1 \in 1..Len(queue') /\ queue'[i - 1] = Task!Clear(u) /\ i - 1 < j /\
            i - 1 < g /\ j < g
      BY <1>0, <1>3, <2>4, <2>6 DEF Popped
    <3> QED BY <1>3, <2>2, <3>1 DEF Covered, Before, Task!Clear
  <2> QED BY <2>5, <2>6
<1>4. PICK g : g = Len(queue)
  OBVIOUS
<1>5. g \in 1..(Len(queue') + 1)
  BY <1>0, <1>4
<1> QED BY <1>2, <1>3, <1>4, <1>5 DEF Order

(* A packet at the end of the queue, which the lwIP thread sent. *)
LEMMA OrderSendBack ==
  ASSUME Marks, Order, NoneMuted, SendDoes, PushedBack(lwip.e)
  PROVE  Order'
<1>0. Args /\ Len(queue) \in Nat /\ Len(queue') = Len(queue) + 1 /\ UNCHANGED task
  BY ArgsOK DEF Basics, Marks, PushedBack, SendDoes
<1>1. PICK f \in 1..(Len(queue) + 1) : Ring(f) /\ Ahead(f) /\ HandAhead(f)
  BY DEF Order
<1>2. PICK u \in Clients : u = lwip.e.arg
  BY DEF SendDoes
<1>a. PICK x : x = lwip.e
  OBVIOUS
<1>3. Muted(x)' => CloseApi /\ u = cur
  <2>1. Muted(x)' => Muted(lwip.e)
    BY <1>2, <1>a DEF NoneMuted
  <2> QED BY <1>2, <2>1 DEF Muted, HasCleared, Marks, Mute, Silenced, SendDoes
<1>4. PICK g \in 1..(Len(queue') + 1) : g = IF f <= Len(queue) THEN f ELSE Len(queue) + 2
  BY <1>0
<1>5. Ring(g)'
  <2>1. task.pc \in {"back", "rest"} => lwip.e # task.first
    <3>1. Counts
      BY CountsOK DEF Basics, Marks
    <3> QED BY <3>1 DEF Marks, Distinct, Older, SendDoes, Counts
  <2>2. CASE task.pc \notin {"back", "rest"}
    BY <1>0, <1>1, <1>4, <2>2 DEF Ring
  <2>3. CASE task.pc \in {"back", "rest"} /\ f <= Len(queue)
    <3>1. \A j \in 1..(f - 1) : queue'[j] # task.first
      BY <1>0, <1>1, <2>3 DEF Ring, PushedBack
    <3> QED BY <1>0, <1>1, <1>4, <2>3, <3>1 DEF Ring, PushedBack
  <2>4. CASE task.pc \in {"back", "rest"} /\ f = Len(queue) + 1
    <3>1. \A j \in 1..(Len(queue) + 1) : queue'[j] # task.first
      BY <1>0, <1>1, <2>1, <2>4 DEF Ring, PushedBack
    <3> QED BY <1>0, <1>1, <1>4, <2>4, <3>1 DEF Ring, PushedBack
  <2> QED BY <1>0, <2>2, <2>3, <2>4
<1>6. HandAhead(g)'
  <2> SUFFICES ASSUME task.pc = "back", task.packet.kind # "clear", Muted(task.packet)'
               PROVE  \E i \in g..Len(queue') : queue'[i] = Task!Clear(task.packet.arg)
    BY <1>0 DEF HandAhead, Task!Clear
  <2>1. PICK i \in f..Len(queue) : queue[i] = Task!Clear(task.packet.arg)
    BY <1>0, <1>1 DEF HandAhead, Args, NoneMuted
  <2>2. g = f /\ i \in 1..Len(queue) /\ i \in g..Len(queue')
    BY <1>0, <1>4, <2>1
  <2> QED BY <1>0, <2>1, <2>2 DEF PushedBack
<1>7. Ahead(g)'
  <2> SUFFICES ASSUME NEW j \in 1..Len(queue'), queue'[j].kind # "clear", Muted(queue[j])'
               PROVE  Covered(g, queue[j].arg, j)'
    BY DEF Ahead
  <2>1. CASE j \in 1..Len(queue)
    <3>1. PICK d \in Clients : d = queue[j].arg /\ queue'[j] = queue[j]
      BY <1>0, <2>1 DEF PushedBack, Args
    <3>2. Covered(f, d, j)
      BY <1>1, <2>1, <3>1 DEF Ahead, NoneMuted
    <3>3. CASE \E i \in 1..Len(queue) : queue[i] = Task!Clear(d) /\ Before(f, i, j)
      <4>1. PICK i \in 1..Len(queue) : queue[i] = Task!Clear(d) /\ Before(f, i, j)
        BY <3>3
      <4>2. i \in 1..Len(queue') /\ queue'[i] = Task!Clear(d) /\ Before(g, i, j)
        BY <1>0, <1>4, <2>1, <4>1 DEF PushedBack, Before
      <4> QED BY <3>1, <4>2 DEF Covered, Task!Clear
    <3>4. CASE (Swept(d) \/ (task.pc = "back" /\ task.packet = Task!Clear(d))) /\ j < f
      BY <1>0, <1>4, <2>1, <3>1, <3>4 DEF Covered, Swept, Task!Clear
    <3> QED BY <3>2, <3>3, <3>4 DEF Covered
  <2>2. CASE j = Len(queue) + 1
    <3>0. queue'[j] = lwip.e /\ queue'[j] = x
      BY <1>a, <2>2 DEF PushedBack
    <3>1. queue'[j] = lwip.e /\ CloseApi /\ u = cur
      BY <1>3, <3>0
    <3>2. PICK i \in 1..Len(queue) : queue[i] = Task!Clear(u)
      BY <3>1 DEF Marks, Clears, InQueue
    <3>3. i \in 1..Len(queue') /\ queue'[i] = Task!Clear(u) /\ i < j /\ g = Len(queue) + 2
      BY <1>0, <1>1, <1>4, <2>2, <3>1, <3>2 DEF PushedBack, Ring, CloseApi
    <3>4. Before(g, i, j)
      BY <1>0, <2>2, <3>3 DEF Before
    <3> QED BY <1>2, <3>1, <3>3, <3>4 DEF Covered, Task!Clear
  <2> QED BY <1>0, <2>1, <2>2
<1> QED BY <1>4, <1>5, <1>6, <1>7 DEF Order

(* A packet at the front of the queue: the walk and the order move by one. *)
LEMMA OrderFront ==
  ASSUME Args, Order, NEW x, PushedFront(x), UNCHANGED <<task.pc, task.e, task.first, task.packet>>,
         task.pc \in {"back", "rest"} => x # task.first,
         NoneMuted, x.kind # "clear" => ~Muted(x)'
  PROVE  Order'
<1>0. Len(queue) \in Nat /\ Len(queue') = Len(queue) + 1
  BY DEF PushedFront
<1>1. PICK f \in 1..(Len(queue) + 1) : Ring(f) /\ Ahead(f) /\ HandAhead(f)
  BY DEF Order
<1>2. PICK g \in 1..(Len(queue') + 1) : g = f + 1
  BY <1>0
<1>3. Ring(g)'
  <2>1. CASE task.pc \in {"back", "rest"}
    <3>1. g <= Len(queue') => queue'[g] = task.first
      BY <1>0, <1>1, <1>2, <2>1 DEF Ring, PushedFront
    <3>2. \A j \in 1..(g - 1) : j <= Len(queue') => queue'[j] # task.first
      <4> SUFFICES ASSUME NEW j \in 1..(g - 1), j <= Len(queue') PROVE queue'[j] # task.first
        OBVIOUS
      <4>1. CASE j = 1
        BY <2>1, <4>1 DEF PushedFront
      <4>2. CASE j # 1
        <5>1. j \in 2..Len(queue') /\ j - 1 \in 1..(f - 1) /\ j - 1 <= Len(queue)
          BY <1>0, <1>2, <4>2
        <5> QED BY <1>1, <2>1, <5>1 DEF PushedFront, Ring
      <4> QED BY <4>1, <4>2
    <3> QED BY <1>0, <1>1, <1>2, <2>1, <3>1, <3>2 DEF Ring
  <2>2. CASE task.pc \notin {"back", "rest"}
    BY <1>0, <1>1, <1>2, <2>2 DEF Ring
  <2> QED BY <2>1, <2>2
<1>4. HandAhead(g)'
  <2> SUFFICES ASSUME task.pc = "back", task.packet.kind # "clear", Muted(task.packet)'
               PROVE  \E i \in g..Len(queue') : queue'[i] = Task!Clear(task.packet.arg)
    BY DEF HandAhead, Task!Clear
  <2>1. PICK i \in f..Len(queue) : queue[i] = Task!Clear(task.packet.arg)
    BY <1>1 DEF HandAhead, Args, NoneMuted
  <2>2. i + 1 \in g..Len(queue') /\ i + 1 \in 2..Len(queue') /\ (i + 1) - 1 = i
    BY <1>0, <1>2, <2>1
  <2> QED BY <2>1, <2>2 DEF PushedFront
<1>5. Ahead(g)'
  <2> SUFFICES ASSUME NEW j \in 1..Len(queue'), queue'[j].kind # "clear", Muted(queue[j])'
               PROVE  Covered(g, queue[j].arg, j)'
    BY DEF Ahead
  <2>1. j # 1
    BY DEF PushedFront
  <2>2. PICK k \in 1..Len(queue) : k = j - 1 /\ queue'[j] = queue[k] /\ j = k + 1
    BY <1>0, <2>1 DEF PushedFront
  <2>3. PICK d \in Clients : d = queue[k].arg
    BY DEF Args
  <2>4. Covered(f, d, k)
    BY <1>1, <2>2, <2>3 DEF Ahead, NoneMuted
  <2>5. CASE \E i \in 1..Len(queue) : queue[i] = Task!Clear(d) /\ Before(f, i, k)
    <3>1. PICK i \in 1..Len(queue) : queue[i] = Task!Clear(d) /\ Before(f, i, k)
      BY <2>5
    <3>2. i + 1 \in 2..Len(queue') /\ i + 1 \in 1..Len(queue') /\ (i + 1) - 1 = i /\
            Before(g, i + 1, j)
      BY <1>0, <1>2, <2>2, <3>1 DEF Before
    <3>3. queue'[i + 1] = Task!Clear(d)
      BY <3>1, <3>2 DEF PushedFront
    <3> QED BY <2>2, <2>3, <3>2, <3>3 DEF Covered, Task!Clear
  <2>6. CASE (Swept(d) \/ (task.pc = "back" /\ task.packet = Task!Clear(d))) /\ k < f
    <3>1. j < g
      BY <1>0, <1>2, <2>2, <2>6
    <3>2. (Swept(d) => Swept(d)') /\ Task!Clear(d)' = Task!Clear(d)
      BY DEF Swept, Task!Clear
    <3> QED BY <2>2, <2>3, <2>6, <3>1, <3>2 DEF Covered
  <2> QED BY <2>4, <2>5, <2>6 DEF Covered
<1> QED BY <1>2, <1>3, <1>4, <1>5 DEF Order

(* The walk takes the first packet. *)
LEMMA OrderFirst ==
  ASSUME Marks, Order, NoneMuted, WalkDoes, task.pc = "first"
  PROVE  Order'
<1> USE DEF WalkDoes
<1>0. Args /\ Len(queue) \in Nat /\ (Popped => Len(queue') = Len(queue) - 1)
  BY ArgsOK DEF Basics, Marks, Popped
<1>1. Ahead(Len(queue) + 1)
  BY DEF Order, Ring
<1>2. CASE queue = <<>> /\ UNCHANGED queue /\ task'.pc = "idle"
  <2>1. Len(queue) = 0 /\ Len(queue') = 0
    BY <1>2
  <2>2. Ring(1)' /\ Ahead(1)' /\ HandAhead(1)'
    BY <1>2, <2>1 DEF Ring, Ahead, HandAhead
  <2> QED BY <2>1, <2>2 DEF Order
<1>3. CASE Popped /\ 1 \in 1..Len(queue)
  <2>0. PICK g \in 1..(Len(queue') + 1) : g = Len(queue) /\ Len(queue') = g - 1 /\ g \in Nat
    BY <1>3 DEF Popped
  <2>a. \A i \in 1..Len(queue') : queue'[i] = queue[i + 1] /\ i + 1 \in 1..Len(queue)
    BY <1>3 DEF Popped
  <2>b. /\ Task!Matches(queue[1]) /\ task' = task
        \/ /\ ~Task!Matches(queue[1]) /\ task'.pc = "back" /\ task'.packet = queue[1]
           /\ task'.e = task.e /\ task'.first = queue[1]
    BY <1>3 DEF Popped
  <2>c. task.e = Task!Clear(cur) /\ cur \in Clients
    BY <1>0 DEF Marks, Basics, TaskTypes, TaskOK, Sweep, IsClear, Args, cur
  <2>1. Ring(g)'
    <3>1. CASE task' = task
      BY <2>0, <3>1 DEF Ring
    <3>2. CASE task'.pc = "back" /\ task'.packet = queue[1] /\ task'.first = queue[1]
      <4>1. \A j \in 1..Len(queue') : queue'[j] # queue[1]
        BY <1>3, PopDistinct DEF Marks, Distinct
      <4> QED BY <2>0, <3>2, <4>1 DEF Ring
    <3> QED BY <2>b, <3>1, <3>2
  <2>2. Ahead(g)'
    <3> SUFFICES ASSUME NEW j \in 1..Len(queue'), queue'[j].kind # "clear", Muted(queue[j])'
                 PROVE  Covered(g, queue[j].arg, j)'
      BY DEF Ahead
    <3>1. PICK d \in Clients : d = queue'[j].arg /\ queue'[j] = queue[j + 1]
      BY <1>0, <2>a DEF Args
    <3>2. Covered(Len(queue) + 1, d, j + 1)
      BY <1>1, <2>a, <3>1 DEF Ahead, NoneMuted
    <3>3. CASE Swept(d)
      <4>1. Swept(d)' /\ j < g
        BY <2>0, <2>b, <3>3 DEF Swept, Sweep, Task!Clear
      <4> QED BY <3>1, <4>1 DEF Covered
    <3>4. CASE ~Swept(d)
      <4>1. PICK i \in 1..Len(queue) : queue[i] = Task!Clear(d) /\ i < j + 1
        BY <2>0, <3>2, <3>4 DEF Covered, Before
      <4>2. CASE i = 1
        <5>1. ~Task!Matches(queue[1])
          BY <2>c, <3>4, <4>1, <4>2 DEF Task!Matches, Swept, Sweep, Task!Clear, cur
        <5>2. task'.pc = "back" /\ task'.packet = Task!Clear(d) /\ j < g
          BY <2>0, <2>b, <4>1, <4>2, <5>1
        <5> QED BY <3>1, <5>2 DEF Covered, Task!Clear
      <4>3. CASE i # 1
        <5>1. i - 1 \in 1..Len(queue') /\ queue'[i - 1] = Task!Clear(d) /\ i - 1 < j /\
                i - 1 < g /\ j < g
          BY <2>0, <4>1, <4>3 DEF Popped, Before
        <5> QED BY <2>0, <3>1, <5>1 DEF Covered, Before, Task!Clear
      <4> QED BY <4>2, <4>3
    <3> QED BY <3>3, <3>4
  <2>3. HandAhead(g)'
    <3> SUFFICES ASSUME task'.pc = "back", task'.packet.kind # "clear", Muted(task.packet)'
                 PROVE  FALSE
      BY DEF HandAhead
    <3>1. ~Task!Matches(queue[1]) /\ task'.packet = queue[1]
      BY <2>b
    <3>2. PICK d \in Clients : d = queue[1].arg
      BY <1>0, <1>3 DEF Args
    <3>3. Covered(Len(queue) + 1, d, 1)
      BY <1>1, <1>3, <3>1, <3>2 DEF Ahead, NoneMuted
    <3>4. Swept(d)
      BY <2>0, <3>3 DEF Covered, Before
    <3> QED BY <2>c, <3>1, <3>2, <3>4 DEF Swept, Task!Matches, Task!Clear
  <2> QED BY <2>0, <2>1, <2>2, <2>3 DEF Order
<1> QED BY <1>2, <1>3

(* The walk puts a packet back. *)
LEMMA OrderBack ==
  ASSUME Marks, Order, NoneMuted, BackDoes
  PROVE  Order'
<1> USE DEF BackDoes
<1>0. Args /\ Len(queue) \in Nat /\ Len(queue') = Len(queue) + 1 /\ task.packet.arg \in Clients
  BY ArgsOK DEF Basics, Marks, PushedBack, Args
<1>1. PICK f \in 1..(Len(queue) + 1) : Ring(f) /\ Ahead(f) /\ HandAhead(f)
  BY DEF Order
<1>a. /\ queue'[Len(queue) + 1] = task.packet /\ Len(queue) + 1 \in 1..Len(queue')
      /\ \A i \in 1..Len(queue) : queue'[i] = queue[i] /\ i \in 1..Len(queue')
  BY <1>0 DEF PushedBack
<1>2. Ring(f)'
  <2>1. \A j \in 1..(f - 1) : queue'[j] # task.first
    BY <1>0, <1>1, <1>a DEF Ring
  <2>2. queue'[f] = task.first
    BY <1>0, <1>1, <1>a DEF Ring
  <2> QED BY <1>0, <2>1, <2>2 DEF Ring
<1>3. HandAhead(f)'
  BY DEF HandAhead
<1>4. Ahead(f)'
  <2> SUFFICES ASSUME NEW j \in 1..Len(queue'), queue'[j].kind # "clear", Muted(queue[j])'
               PROVE  Covered(f, queue[j].arg, j)'
    BY DEF Ahead
  <2>1. CASE j \in 1..Len(queue)
    <3>1. PICK d \in Clients : d = queue[j].arg /\ queue'[j] = queue[j]
      BY <1>0, <1>a, <2>1 DEF Args
    <3>2. Covered(f, d, j)
      BY <1>1, <2>1, <3>1 DEF Ahead, NoneMuted
    <3>3. CASE \E i \in 1..Len(queue) : queue[i] = Task!Clear(d) /\ Before(f, i, j)
      BY <1>a, <3>1, <3>3 DEF Covered, Task!Clear, Before
    <3>4. CASE Swept(d) /\ j < f
      BY <3>1, <3>4 DEF Covered, Swept, Sweep, Task!Clear
    <3>5. CASE task.packet = Task!Clear(d) /\ j < f
      <4>1. Before(f, Len(queue) + 1, j)
        BY <1>0, <3>5 DEF Before
      <4> QED BY <1>a, <3>1, <3>5, <4>1 DEF Covered, Task!Clear
    <3> QED BY <3>2, <3>3, <3>4, <3>5 DEF Covered
  <2>2. CASE j = Len(queue) + 1
    <3>1. PICK d \in Clients : d = task.packet.arg /\ queue'[j] = task.packet
      BY <1>0, <1>a, <2>2
    <3>2. PICK i \in f..Len(queue) : queue[i] = Task!Clear(d)
      BY <1>1, <3>1 DEF HandAhead, NoneMuted
    <3>3. i \in 1..Len(queue') /\ queue'[i] = Task!Clear(d) /\ Before(f, i, j)
      BY <1>0, <1>a, <2>2, <3>2 DEF Before
    <3> QED BY <3>1, <3>3 DEF Covered, Task!Clear
  <2> QED BY <1>0, <2>1, <2>2
<1> QED BY <1>0, <1>2, <1>3, <1>4 DEF Order

(* The walk goes on, or ends where it began. *)
LEMMA OrderRest ==
  ASSUME Marks, Order, NoneMuted, WalkDoes, task.pc = "rest"
  PROVE  Order'
<1> USE DEF WalkDoes
<1>0. Args /\ Len(queue) \in Nat
  BY ArgsOK DEF Basics, Marks, Args
<1>1. PICK f \in 1..Len(queue) : Ring(f) /\ Ahead(f)
  BY <1>0 DEF Order, Ring
<1>2. queue[f] = task.first /\ \A j \in 1..(f - 1) : queue[j] # task.first
  BY <1>0, <1>1 DEF Ring
<1>c. task.e = Task!Clear(cur) /\ cur \in Clients
  BY <1>0 DEF Marks, Basics, TaskTypes, TaskOK, Sweep, IsClear, Args, cur
<1>3. CASE UNCHANGED queue /\ task'.pc = "idle"
  <2>1. f = 1
    <3>1. queue # <<>>
      BY <1>0, <1>1
    <3>2. queue[1] = task.first
      <4>1. UNCHANGED queue => ~Popped
        BY DEF Popped
      <4> QED BY <1>3, <3>1, <4>1
    <3> QED BY <1>0, <1>1, <1>2, <3>2
  <2>2. PICK g \in 1..(Len(queue) + 1) : g = Len(queue) + 1
    BY <1>0
  <2>3. Ring(g)' /\ HandAhead(g)'
    BY <1>3, <2>2 DEF Ring, HandAhead
  <2>4. Ahead(g)'
    <3> SUFFICES ASSUME NEW j \in 1..Len(queue'), queue'[j].kind # "clear", Muted(queue[j])'
                 PROVE  Covered(g, queue[j].arg, j)'
      BY DEF Ahead
    <3>1. PICK d \in Clients : d = queue[j].arg
      BY <1>0, <1>3 DEF Args
    <3>2. Covered(1, d, j)
      BY <1>1, <1>3, <2>1, <3>1 DEF Ahead, NoneMuted
    <3>3. PICK i \in 1..Len(queue) : queue[i] = Task!Clear(d) /\ Before(1, i, j)
      BY <1>3, <3>2 DEF Covered
    <3>4. Before(g, i, j) /\ i \in 1..Len(queue') /\ queue'[i] = Task!Clear(d)
      BY <1>0, <1>3, <2>2, <3>3 DEF Before
    <3> QED BY <1>3, <3>1, <3>4 DEF Covered, Task!Clear
  <2> QED BY <1>3, <2>2, <2>3, <2>4 DEF Order
<1>4. CASE Popped /\ 1 \in 1..Len(queue) /\ queue[1] # task.first
  <2>0. f # 1
    BY <1>2, <1>4
  <2>1. PICK g \in 1..(Len(queue') + 1) : g = f - 1 /\ f = g + 1 /\ g <= Len(queue') /\
               Len(queue) = Len(queue') + 1 /\ Len(queue') \in Nat
    BY <1>0, <1>1, <1>4, <2>0 DEF Popped
  <2>a. \A i \in 1..Len(queue') : queue'[i] = queue[i + 1] /\ i + 1 \in 1..Len(queue)
    BY <1>4 DEF Popped
  <2>b. \/ Task!Matches(queue[1]) /\ task' = task
        \/ /\ ~Task!Matches(queue[1]) /\ task'.pc = "back" /\ task'.packet = queue[1]
           /\ task'.e = task.e /\ task'.first = task.first
    <3>1. UNCHANGED queue => ~Popped
      BY DEF Popped
    <3> QED BY <1>4, <3>1
  <2>2. Ring(g)'
    <3>1. queue'[g] = task'.first
      BY <1>2, <2>1, <2>a, <2>b
    <3>2. \A j \in 1..(g - 1) : j <= Len(queue') => queue'[j] # task'.first
      BY <1>2, <2>1, <2>a, <2>b
    <3>3. task'.pc = "back" => task'.packet # task'.first
      BY <1>4, <2>b
    <3> QED BY <2>1, <2>b, <3>1, <3>2, <3>3 DEF Ring
  <2>3. Ahead(g)'
    <3> SUFFICES ASSUME NEW j \in 1..Len(queue'), queue'[j].kind # "clear", Muted(queue[j])'
                 PROVE  Covered(g, queue[j].arg, j)'
      BY DEF Ahead
    <3>1. PICK d \in Clients : d = queue'[j].arg /\ queue'[j] = queue[j + 1]
      BY <1>0, <2>a DEF Args
    <3>2. Covered(f, d, j + 1)
      BY <1>1, <2>a, <3>1 DEF Ahead, NoneMuted
    <3>3. CASE Swept(d) /\ j + 1 < f
      <4>1. Swept(d)' /\ j < g
        BY <2>1, <2>b, <3>3 DEF Swept, Sweep, Task!Clear
      <4> QED BY <3>1, <4>1 DEF Covered
    <3>4. CASE ~(Swept(d) /\ j + 1 < f)
      <4>1. PICK i \in 1..Len(queue) : queue[i] = Task!Clear(d) /\ Before(f, i, j + 1)
        BY <3>2, <3>4 DEF Covered
      <4>2. CASE i = 1
        <5>0. j + 1 < f
          BY <2>1, <4>1, <4>2 DEF Before
        <5>1. ~Task!Matches(queue[1])
          BY <1>c, <3>4, <4>1, <4>2, <5>0 DEF Task!Matches, Swept, Sweep, Task!Clear, cur
        <5>2. task'.pc = "back" /\ task'.packet = Task!Clear(d) /\ j < g
          BY <2>1, <2>b, <4>1, <4>2, <5>0, <5>1
        <5> QED BY <3>1, <5>2 DEF Covered, Task!Clear
      <4>3. CASE i # 1
        <5>1. PICK k \in 1..Len(queue') : i = k + 1
          <6>1. i - 1 \in 1..Len(queue') /\ i = (i - 1) + 1
            BY <2>1, <4>3
          <6> QED BY <6>1
        <5>2. queue'[k] = Task!Clear(d) /\ Before(g, k, j)
          BY <2>1, <2>a, <4>1, <5>1 DEF Before
        <5> QED BY <3>1, <5>2 DEF Covered, Task!Clear
      <4> QED BY <4>2, <4>3
    <3> QED BY <3>3, <3>4
  <2>4. HandAhead(g)'
    <3> SUFFICES ASSUME task'.pc = "back", task'.packet.kind # "clear", Muted(task.packet)'
                 PROVE  \E i \in g..Len(queue') : queue'[i] = Task!Clear(task.packet.arg)'
      BY DEF HandAhead
    <3>1. ~Task!Matches(queue[1]) /\ task'.packet = queue[1]
      BY <2>b
    <3>2. PICK d \in Clients : d = queue[1].arg
      BY <1>0, <1>4 DEF Args
    <3>3. Covered(f, d, 1)
      BY <1>1, <1>4, <3>1, <3>2 DEF Ahead, NoneMuted
    <3>4. ~Swept(d)
      BY <1>c, <3>1, <3>2 DEF Swept, Task!Matches, Task!Clear
    <3>5. PICK i \in 1..Len(queue) : queue[i] = Task!Clear(d) /\ Before(f, i, 1)
      BY <3>3, <3>4 DEF Covered
    <3>6. PICK k \in g..Len(queue') : i = k + 1
      BY <2>1, <3>5 DEF Before
    <3>7. queue'[k] = Task!Clear(d)
      BY <2>1, <2>a, <3>5, <3>6
    <3> QED BY <3>1, <3>2, <3>7 DEF Task!Clear
  <2> QED BY <2>1, <2>2, <2>3, <2>4 DEF Order
<1> QED
  <2>1. queue # <<>>
    BY <1>0, <1>1
  <2> QED BY <1>3, <1>4, <2>1

(* The invariant.  What the task runs is of no muted client. *)
Silent == task.pc = "run" /\ task.e.kind # "clear" => ~Muted(task.e)
TaskInv == Marks /\ Order /\ Silent

(* The initial states satisfy the invariant.                               *)
LEMMA InitTaskInv == Task!Init => TaskInv
<1> SUFFICES ASSUME Task!Init PROVE TaskInv
  OBVIOUS
<1> USE DEF Task!Init, Task!TaskIdle, Task!LwipIdle
<1>1. queue = <<>> /\ Len(queue) = 0 /\ task.pc = "idle" /\ lwip.pc = "idle" /\ sentCount = 0
  OBVIOUS
<1>2. TaskTypes
  <2>1. QueueOK
    BY <1>1 DEF QueueOK
  <2>2. LwipOK
    BY TaskAssumption DEF LwipOK, SlotsOK, ClientOK, ConnOK
  <2>3. TaskOK
    BY DEF TaskOK, TaskRecords, Stages, Sweep
  <2> QED BY <2>1, <2>2, <2>3 DEF TaskTypes
<1>3. Lives /\ Held /\ Sents /\ SlotsInv /\ Guard
  <2>1. \A u \in Clients : Life(u) = "none" /\ State(u) = "none" /\ ~client[u].pcb /\
          client[u].slot = Task!NoSlot
    BY DEF Life, State
  <2> HIDE DEF Task!Init
  <2>2. Lives
    BY <1>1, <2>1 DEF Lives
  <2>3. Held
    BY <1>1, <2>1 DEF Held, closing, Stages
  <2>4. Sents
    BY <1>1 DEF Sents
  <2>5. SlotsInv
    <3>1. \A u \in Clients : State(u) # "open"
      BY <2>1
    <3> QED BY <3>1 DEF SlotsInv
  <2>6. Guard
    BY <1>1 DEF Guard, calling
  <2> QED BY <2>2, <2>3, <2>4, <2>5, <2>6
<1>4. Distinct /\ Mute /\ Clears /\ Fresh
  <2>1. \A u \in Clients : Life(u) # "deleted"
    BY DEF Life
  <2> HIDE DEF Task!Init
  <2> QED BY <1>1, <2>1
    DEF Distinct, NoneTwice, Mute, Clears, Fresh, clearing, closing, aborting, CloseApi
<1>5. Ring(1) /\ Ahead(1) /\ HandAhead(1)
  <2> HIDE DEF Task!Init
  <2> QED BY <1>1 DEF Ring, Ahead, HandAhead
<1>6. Order
  BY <1>1, <1>5 DEF Order
<1>7. Silent
  BY <1>1 DEF Silent
<1> QED BY <1>2, <1>3, <1>4, <1>6, <1>7 DEF TaskInv, Marks, Basics

(* What the task takes next is of no muted client.                         *)
LEMMA SilentGet == ASSUME Marks, Order, NoneMuted, GetDoes PROVE Silent'
<1> SUFFICES ASSUME task'.e.kind # "clear", Muted(task.e)' PROVE FALSE
  BY DEF Silent
<1>0. Args
  BY ArgsOK DEF Basics, Marks
<1>1. PICK d \in Clients : d = cur' /\ d = queue[1].arg /\ task'.e = queue[1]
  BY <1>0 DEF GetDoes, Args
<1>2. Covered(Len(queue) + 1, d, 1)
  <2>1. Ahead(Len(queue) + 1)
    BY DEF Order, Ring, GetDoes
  <2>2. Muted(queue[1])
    <3>1. PICK e : e = task'.e /\ e = queue[1] /\ e.arg \in Clients
      BY <1>1
    <3>2. Muted(e)'
      BY <3>1 DEF Muted, HasCleared
    <3> QED BY <3>1, <3>2 DEF NoneMuted
  <2> QED BY <1>1, <2>1, <2>2 DEF Ahead, GetDoes
<1>3. PICK i \in 1..Len(queue) : Before(Len(queue) + 1, i, 1)
  BY <1>2 DEF Covered, Swept, Sweep, GetDoes
<1> QED BY <1>0, <1>3 DEF Before, Args

OrderNext == (Order /\ Silent)'

(* It keeps the order: accept().                                           *)
LEMMA AcceptOrder ==
  ASSUME Marks, Order, Silent, NEW u \in Clients, NEW slot \in Task!freeSlots, AcceptDoes(u, slot)
  PROVE  OrderNext
<1>1. Args /\ NoneMuted
  BY ArgsOK, AcceptMutes DEF Basics, Marks
<1>2. UNCHANGED <<queue, task>>
  BY DEF AcceptDoes
<1>3. Order'
  BY <1>1, <1>2, OrderSame
<1>4. Silent'
  BY <1>1, <1>2 DEF Silent, NoneMuted, Muted, HasCleared, Args, cur, Silent
<1> QED BY <1>3, <1>4 DEF OrderNext

(* It keeps the order: an event that lwIP reports.                         *)
LEMMA CallbackOrder ==
  ASSUME Marks, Order, Silent, NEW u \in Clients, NEW k \in {"recv", "sent", "poll", "fin"},
         CallbackDoes(u, k)
  PROVE  OrderNext
<1>1. Args /\ NoneMuted
  BY ArgsOK, CallbackMutes DEF Basics, Marks
<1>2. UNCHANGED <<queue, task>>
  BY DEF CallbackDoes
<1>3. Order'
  BY <1>1, <1>2, OrderSame
<1>4. Silent'
  BY <1>1, <1>2 DEF Silent, NoneMuted, Muted, HasCleared, Args, cur, Silent
<1> QED BY <1>3, <1>4 DEF OrderNext

(* It keeps the order: an error.                                           *)
LEMMA ErrorOrder == ASSUME Marks, Order, Silent, NEW u \in Clients, ErrorDoes(u) PROVE OrderNext
<1>1. Args /\ NoneMuted
  BY ArgsOK, ErrorMutes DEF Basics, Marks
<1>2. UNCHANGED <<queue, task>>
  BY DEF ErrorDoes
<1>3. Order'
  BY <1>1, <1>2, OrderSame
<1>4. Silent'
  BY <1>1, <1>2 DEF Silent, NoneMuted, Muted, HasCleared, Args, cur, Silent
<1> QED BY <1>3, <1>4 DEF OrderNext

(* It keeps the order: the end of lwIP_fin.                                *)
LEMMA FinOrder == ASSUME Marks, Order, Silent, NEW u \in Clients, FinDoes(u) PROVE OrderNext
<1>1. Args /\ NoneMuted
  BY ArgsOK, FinMutes DEF Basics, Marks
<1>2. UNCHANGED <<queue, task>>
  BY DEF FinDoes
<1>3. Order'
  BY <1>1, <1>2, OrderSame
<1>4. Silent'
  BY <1>1, <1>2 DEF Silent, NoneMuted, Muted, HasCleared, Args, cur, Silent
<1> QED BY <1>3, <1>4 DEF OrderNext

(* It keeps the order: sending an event.                                   *)
LEMMA SendOrder == ASSUME Marks, Order, Silent, SendDoes PROVE OrderNext
<1>1. Args /\ NoneMuted
  BY ArgsOK, SendMutes DEF Basics, Marks
<1>2. Order'
  <2>1. CASE PushedBack(lwip.e)
    BY <1>1, <2>1, OrderSendBack
  <2>2. CASE PushedFront(lwip.e) /\ lwip.e.kind = "accept"
    <3>1. task.pc \in {"back", "rest"} => lwip.e # task.first
      <4>1. Counts
        BY CountsOK DEF Basics, Marks
      <4> QED BY <4>1 DEF Marks, Distinct, Older, SendDoes, Counts
    <3>2. ~Muted(lwip.e)
      BY <2>2 DEF SendDoes, Muted, HasCleared, Marks, Mute, Silenced, Fresh, Stages
    <3>3. ~(\E e : e = lwip.e /\ Muted(e)')
      BY <1>1, <3>2 DEF NoneMuted, SendDoes
    <3>4. UNCHANGED task /\ lwip.e.arg \in Clients
      BY DEF SendDoes
    <3>5. PICK x : x = lwip.e
      OBVIOUS
    <3>6. PushedFront(x) /\ (task.pc \in {"back", "rest"} => x # task.first) /\ ~Muted(x)'
      BY <2>2, <3>1, <3>3, <3>4, <3>5 DEF PushedFront
    <3> QED BY <1>1, <3>4, <3>6, OrderFront DEF NoneMuted
  <2> QED BY <2>1, <2>2 DEF SendDoes
<1>3. Silent'
  BY <1>1 DEF Silent, SendDoes, NoneMuted, Muted, HasCleared, Args, cur
<1> QED BY <1>2, <1>3 DEF OrderNext

(* It keeps the order: a call that the lwIP thread executes.               *)
LEMMA ApiOrder ==
  ASSUME Marks, Order, Silent, NEW failed \in BOOLEAN, ApiDoes(failed)
  PROVE  OrderNext
<1>1. Args /\ NoneMuted
  BY ArgsOK, ApiMutes DEF Basics, Marks
<1>2. UNCHANGED queue /\ task.pc \notin {"back", "rest"} /\ task'.pc \notin {"back", "rest"} /\
        task'.pc # "run"
  BY DEF ApiDoes
<1>3. \A u \in Clients : Swept(u) => Swept(u)'
  BY DEF ApiDoes, Swept, Sweep, Task!Clear
<1>4. Order'
  BY <1>1, <1>2, <1>3, OrderAside
<1>5. Silent'
  BY <1>2 DEF Silent
<1> QED BY <1>4, <1>5 DEF OrderNext

(* It keeps the order: taking an event.                                    *)
LEMMA GetOrder == ASSUME Marks, Order, Silent, GetDoes PROVE OrderNext
<1>1. Args /\ NoneMuted
  BY ArgsOK, GetMutes DEF Basics, Marks
<1>2. Order'
  BY <1>1, OrderGet
<1>3. Silent'
  BY <1>1, SilentGet
<1> QED BY <1>2, <1>3 DEF OrderNext

(* It keeps the order: the start of a handler.                             *)
LEMMA RunOrder == ASSUME Marks, Order, Silent, RunDoes PROVE OrderNext
<1>1. Args /\ NoneMuted
  BY ArgsOK, RunMutes DEF Basics, Marks
<1>2. UNCHANGED queue /\ task.pc \notin {"back", "rest"} /\ task'.pc \notin {"back", "rest"} /\
        task'.pc # "run"
  BY DEF RunDoes
<1>3. \A u \in Clients : Swept(u) => Swept(u)'
  <2>1. \A u \in Clients : Swept(u) => task.e.kind = "clear"
    BY DEF Swept, Task!Clear
  <2>2. \A u \in Clients : Task!Clear(u)' = Task!Clear(u)
    BY DEF Task!Clear
  <2> QED BY <2>1, <2>2 DEF RunDoes, Swept, Sweep
<1>4. Order'
  BY <1>1, <1>2, <1>3, OrderAside
<1>5. Silent'
  BY <1>2 DEF Silent
<1> QED BY <1>4, <1>5 DEF OrderNext

(* It keeps the order: a callback of the program.                          *)
LEMMA ReactOrder == ASSUME Marks, Order, Silent, ReactDoes PROVE OrderNext
<1>1. Args /\ NoneMuted
  BY ArgsOK, ReactMutes DEF Basics, Marks
<1>2. UNCHANGED queue /\ task.pc \notin {"back", "rest"} /\ task'.pc \notin {"back", "rest"} /\
        task'.pc # "run"
  BY DEF ReactDoes
<1>3. \A u \in Clients : Swept(u) => Swept(u)'
  BY DEF ReactDoes, Swept, Sweep, Task!Clear
<1>4. Order'
  BY <1>1, <1>2, <1>3, OrderAside
<1>5. Silent'
  BY <1>2 DEF Silent
<1> QED BY <1>4, <1>5 DEF OrderNext

(* It keeps the order: the return of a call.                               *)
LEMMA ReturnOrder == ASSUME Marks, Order, Silent, ReturnDoes PROVE OrderNext
<1>1. Args /\ NoneMuted
  BY ArgsOK, ReturnMutes DEF Basics, Marks
<1>2. UNCHANGED queue /\ task.pc \notin {"back", "rest"} /\ task'.pc \notin {"back", "rest"} /\
        task'.pc # "run"
  BY DEF ReturnDoes
<1>3. \A u \in Clients : Swept(u) => Swept(u)'
  BY DEF ReturnDoes, Swept, Sweep, Task!Clear
<1>4. Order'
  BY <1>1, <1>2, <1>3, OrderAside
<1>5. Silent'
  BY <1>2 DEF Silent
<1> QED BY <1>4, <1>5 DEF OrderNext

(* It keeps the order: the rest of a handler.                              *)
LEMMA AfterOrder == ASSUME Marks, Order, Silent, AfterDoes PROVE OrderNext
<1>1. Args /\ NoneMuted
  BY ArgsOK, AfterMutes DEF Basics, Marks
<1>2. UNCHANGED queue /\ task.pc \notin {"back", "rest"} /\ task'.pc \notin {"back", "rest"} /\
        task'.pc # "run"
  BY DEF AfterDoes
<1>3. \A u \in Clients : Swept(u) => Swept(u)'
  BY DEF AfterDoes, Swept, Sweep, Task!Clear
<1>4. Order'
  BY <1>1, <1>2, <1>3, OrderAside
<1>5. Silent'
  BY <1>2 DEF Silent
<1> QED BY <1>4, <1>5 DEF OrderNext

(* It keeps the order: abort().                                            *)
LEMMA AbortOrder == ASSUME Marks, Order, Silent, AbortDoes PROVE OrderNext
<1>1. Args /\ NoneMuted
  BY ArgsOK, AbortMutes DEF Basics, Marks
<1>2. UNCHANGED queue /\ task.pc \notin {"back", "rest"} /\ task'.pc \notin {"back", "rest"} /\
        task'.pc # "run"
  BY DEF AbortDoes
<1>3. \A u \in Clients : Swept(u) => Swept(u)'
  BY DEF AbortDoes, Swept, Sweep, Task!Clear
<1>4. Order'
  BY <1>1, <1>2, <1>3, OrderAside
<1>5. Silent'
  BY <1>2 DEF Silent
<1> QED BY <1>4, <1>5 DEF OrderNext

(* It keeps the order: _close().                                           *)
LEMMA CloseOrder == ASSUME Marks, Order, Silent, CloseDoes PROVE OrderNext
<1>1. Args /\ NoneMuted
  BY ArgsOK, CloseMutes DEF Basics, Marks
<1>2. UNCHANGED queue /\ task.pc \notin {"back", "rest"} /\ task'.pc \notin {"back", "rest"} /\
        task'.pc # "run"
  BY DEF CloseDoes
<1>3. \A u \in Clients : Swept(u) => Swept(u)'
  BY DEF CloseDoes, Swept, Sweep, Task!Clear
<1>4. Order'
  BY <1>1, <1>2, <1>3, OrderAside
<1>5. Silent'
  BY <1>2 DEF Silent
<1> QED BY <1>4, <1>5 DEF OrderNext

(* The packet that clears the queue goes to its front, before every event of the client. *)
LEMMA OrderClear == ASSUME Marks, Order, ClearEventsDoes PROVE Order'
<1> USE DEF ClearEventsDoes
<1>0. Args /\ Len(queue) \in Nat /\ Len(queue') = Len(queue) + 1
  BY ArgsOK DEF Basics, Marks, PushedFront
<1>1. Ahead(Len(queue) + 1)
  BY DEF Order, Ring
<1>2. PICK g \in 1..(Len(queue') + 1) : g = Len(queue) + 2
  BY <1>0
<1>3. Ring(g)' /\ HandAhead(g)'
  BY <1>0, <1>2 DEF Ring, HandAhead
<1>4. \A e : e.arg # cur /\ Muted(e)' => Muted(e)
  BY DEF Muted, HasCleared, Life, State
<1>5. Ahead(g)'
  <2> SUFFICES ASSUME NEW j \in 1..Len(queue'), queue'[j].kind # "clear", Muted(queue[j])'
               PROVE  Covered(g, queue[j].arg, j)'
    BY DEF Ahead
  <2>1. j # 1
    BY DEF PushedFront
  <2>2. PICK k \in 1..Len(queue) : k = j - 1 /\ queue'[j] = queue[k] /\ j = k + 1
    BY <1>0, <2>1 DEF PushedFront
  <2>3. PICK d \in Clients : d = queue[k].arg
    BY <1>0 DEF Args
  <2>4. CASE d = cur
    <3>1. 1 \in 1..Len(queue') /\ queue'[1] = Task!Clear(d) /\ Before(g, 1, j)
      BY <1>0, <1>2, <2>2, <2>4 DEF PushedFront, Before
    <3> QED BY <2>2, <2>3, <3>1 DEF Covered, Task!Clear
  <2>5. CASE d # cur
    <3>1. Covered(Len(queue) + 1, d, k)
      BY <1>1, <1>4, <2>2, <2>3, <2>5 DEF Ahead
    <3>2. PICK i \in 1..Len(queue) : queue[i] = Task!Clear(d) /\ Before(Len(queue) + 1, i, k)
      BY <3>1 DEF Covered, Swept, Sweep
    <3>3. i + 1 \in 2..Len(queue') /\ i + 1 \in 1..Len(queue') /\ (i + 1) - 1 = i /\
            Before(g, i + 1, j)
      BY <1>0, <1>2, <2>2, <3>2 DEF Before
    <3>4. queue'[i + 1] = Task!Clear(d)
      BY <3>2, <3>3 DEF PushedFront
    <3> QED BY <2>2, <2>3, <3>3, <3>4 DEF Covered, Task!Clear
  <2> QED BY <2>4, <2>5
<1> QED BY <1>2, <1>3, <1>5 DEF Order

(* It keeps the order: _tcp_clear_events().                                *)
LEMMA ClearEventsOrder == ASSUME Marks, Order, Silent, ClearEventsDoes PROVE OrderNext
<1>1. Args
  BY ArgsOK DEF Basics, Marks
<1>2. Order'
  BY OrderClear
<1>3. Silent'
  BY DEF Silent, ClearEventsDoes
<1> QED BY <1>2, <1>3 DEF OrderNext

(* It keeps the order: _tcp_close.                                         *)
LEMMA TcpCloseOrder == ASSUME Marks, Order, Silent, TcpCloseDoes PROVE OrderNext
<1>1. Args /\ NoneMuted
  BY ArgsOK, TcpCloseMutes DEF Basics, Marks
<1>2. UNCHANGED queue /\ task.pc \notin {"back", "rest"} /\ task'.pc \notin {"back", "rest"} /\
        task'.pc # "run"
  BY DEF TcpCloseDoes
<1>3. \A u \in Clients : Swept(u) => Swept(u)'
  BY DEF TcpCloseDoes, Swept, Sweep, Task!Clear
<1>4. Order'
  BY <1>1, <1>2, <1>3, OrderAside
<1>5. Silent'
  BY <1>2 DEF Silent
<1> QED BY <1>4, <1>5 DEF OrderNext

(* It keeps the order: _discard_cb.                                        *)
LEMMA DiscardOrder == ASSUME Marks, Order, Silent, DiscardDoes PROVE OrderNext
<1>1. Args /\ NoneMuted
  BY ArgsOK, DiscardMutes DEF Basics, Marks
<1>2. UNCHANGED queue /\ task.pc \notin {"back", "rest"} /\ task'.pc \notin {"back", "rest"} /\
        task'.pc # "run"
  BY DEF DiscardDoes
<1>3. \A u \in Clients : Swept(u) => Swept(u)'
  BY DEF DiscardDoes, Swept, Sweep, Task!Clear
<1>4. Order'
  BY <1>1, <1>2, <1>3, OrderAside
<1>5. Silent'
  BY <1>2 DEF Silent
<1> QED BY <1>4, <1>5 DEF OrderNext

(* It keeps the order: First and Rest, the walk through the queue,.        *)
LEMMA WalkOrder == ASSUME Marks, Order, Silent, WalkDoes PROVE OrderNext
<1>1. Args /\ NoneMuted
  BY ArgsOK, WalkMutes DEF Basics, Marks
<1>2. Order'
  BY <1>1, OrderFirst, OrderRest DEF WalkDoes
<1>3. Silent'
  BY DEF Silent, WalkDoes
<1> QED BY <1>2, <1>3 DEF OrderNext

(* It keeps the order: putting a packet back.                              *)
LEMMA BackOrder == ASSUME Marks, Order, Silent, BackDoes PROVE OrderNext
<1>1. Args /\ NoneMuted
  BY ArgsOK, BackMutes DEF Basics, Marks
<1>2. Order'
  BY <1>1, OrderBack
<1>3. Silent'
  BY DEF Silent, BackDoes
<1> QED BY <1>2, <1>3 DEF OrderNext

(* Every step keeps the invariant.                                         *)
LEMMA TaskInvStep == ASSUME TaskInv, [Task!Next]_(Task!vars) PROVE TaskInv'
<1> USE DEF TaskInv, Marks
<1>1. CASE UNCHANGED Task!vars
  <2>1. TaskTypes'
    BY <1>1, TaskTypesStep DEF Basics
  <2>2. BasicsNext
    BY <1>1
      DEF Basics, BasicsNext, Task!vars, Lives, Held, Sents, SlotsInv, Guard, calling, Life, State,
          closing, cur, Told, Truthful, Unheard, Task!slotOpen, Guarded
  <2>3. MarksNext
    BY <1>1
      DEF MarksNext, Task!vars, Distinct, Older, NoneTwice, InQueue, Mute, Silenced,
          Clears, Fresh, clearing, closing, aborting, CloseApi, HasCleared, Life, State,
          cur, Task!Clear
  <2>4. Args /\ NoneMuted
    BY <1>1, ArgsOK
      DEF Task!vars, NoneMuted, Muted, HasCleared, clearing, closing, aborting, CloseApi,
          Life, State, cur, Basics
  <2>5. Order'
    BY <1>1, <2>4, OrderSame DEF Task!vars
  <2>6. Silent'
    BY <1>1
      DEF Silent, Task!vars, Muted, HasCleared, clearing, closing, aborting, CloseApi,
          Life, State, cur
  <2> QED BY <2>1, <2>2, <2>3, <2>5, <2>6 DEF Basics, BasicsNext, MarksNext
<1>2. ASSUME NEW u \in Clients, Task!accept(u) PROVE BasicsNext /\ MarksNext /\ OrderNext
  <2>1. PICK slot \in Task!freeSlots : AcceptDoes(u, slot)
    BY <1>2, AcceptFacts
  <2> QED BY <2>1, AcceptBasics, AcceptMarks, AcceptOrder
<1>3. ASSUME NEW u \in Clients, NEW k \in {"recv", "sent", "poll", "fin"}, Task!Callback(u, k)
      PROVE  BasicsNext /\ MarksNext /\ OrderNext
  <2>1. CallbackDoes(u, k)
    BY <1>3, CallbackFacts
  <2> QED BY <2>1, CallbackBasics, CallbackMarks, CallbackOrder
<1>4. ASSUME NEW u \in Clients, Task!Error(u) PROVE BasicsNext /\ MarksNext /\ OrderNext
  <2>1. ErrorDoes(u)
    BY <1>4, ErrorFacts
  <2> QED BY <2>1, ErrorBasics, ErrorMarks, ErrorOrder
<1>5. ASSUME Task!Fin PROVE BasicsNext /\ MarksNext /\ OrderNext
  <2>1. PICK u \in Clients : FinDoes(u)
    BY <1>5, FinFacts
  <2> QED BY <2>1, FinBasics, FinMarks, FinOrder
<1>6. ASSUME Task!Send PROVE BasicsNext /\ MarksNext /\ OrderNext
  <2>1. SendDoes
    BY <1>6, SendFacts
  <2> QED BY <2>1, SendBasics, SendMarks, SendOrder
<1>7. ASSUME Task!Api PROVE BasicsNext /\ MarksNext /\ OrderNext
  <2>1. PICK failed \in BOOLEAN : ApiDoes(failed)
    BY <1>7, ApiFacts
  <2> QED BY <2>1, ApiBasics, ApiMarks, ApiOrder
<1>8. ASSUME Task!Get PROVE BasicsNext /\ MarksNext /\ OrderNext
  <2>1. GetDoes
    BY <1>8, GetFacts
  <2> QED BY <2>1, GetBasics, GetMarks, GetOrder
<1>9. ASSUME Task!Run PROVE BasicsNext /\ MarksNext /\ OrderNext
  <2>1. RunDoes
    BY <1>9, RunFacts
  <2> QED BY <2>1, RunBasics, RunMarks, RunOrder
<1>10. ASSUME Task!React PROVE BasicsNext /\ MarksNext /\ OrderNext
  <2>1. ReactDoes
    BY <1>10, ReactFacts
  <2> QED BY <2>1, ReactBasics, ReactMarks, ReactOrder
<1>11. ASSUME Task!Return PROVE BasicsNext /\ MarksNext /\ OrderNext
  <2>1. ReturnDoes
    BY <1>11, ReturnFacts
  <2> QED BY <2>1, ReturnBasics, ReturnMarks, ReturnOrder
<1>12. ASSUME Task!After PROVE BasicsNext /\ MarksNext /\ OrderNext
  <2>1. AfterDoes
    BY <1>12, AfterFacts
  <2> QED BY <2>1, AfterBasics, AfterMarks, AfterOrder
<1>13. ASSUME Task!Abort PROVE BasicsNext /\ MarksNext /\ OrderNext
  <2>1. AbortDoes
    BY <1>13, AbortFacts
  <2> QED BY <2>1, AbortBasics, AbortMarks, AbortOrder
<1>14. ASSUME Task!Close PROVE BasicsNext /\ MarksNext /\ OrderNext
  <2>1. CloseDoes
    BY <1>14, CloseFacts
  <2> QED BY <2>1, CloseBasics, CloseMarks, CloseOrder
<1>15. ASSUME Task!ClearEvents PROVE BasicsNext /\ MarksNext /\ OrderNext
  <2>1. ClearEventsDoes
    BY <1>15, ClearEventsFacts
  <2> QED BY <2>1, ClearEventsBasics, ClearEventsMarks, ClearEventsOrder
<1>20. ASSUME Task!TcpClose PROVE BasicsNext /\ MarksNext /\ OrderNext
  <2>1. TcpCloseDoes
    BY <1>20, TcpCloseFacts
  <2> QED BY <2>1, TcpCloseBasics, TcpCloseMarks, TcpCloseOrder
<1>16. ASSUME Task!Discard PROVE BasicsNext /\ MarksNext /\ OrderNext
  <2>1. DiscardDoes
    BY <1>16, DiscardFacts
  <2> QED BY <2>1, DiscardBasics, DiscardMarks, DiscardOrder
<1>17. ASSUME Task!First \/ Task!Rest PROVE BasicsNext /\ MarksNext /\ OrderNext
  <2>1. WalkDoes
    BY <1>17, WalkFacts
  <2> QED BY <2>1, WalkBasics, WalkMarks, WalkOrder
<1>18. ASSUME Task!Back PROVE BasicsNext /\ MarksNext /\ OrderNext
  <2>1. BackDoes
    BY <1>18, BackFacts
  <2> QED BY <2>1, BackBasics, BackMarks, BackOrder
<1>19. CASE Task!Next
  <2>1. TaskTypes'
    BY <1>19, TaskTypesStep DEF Basics
  <2>2. BasicsNext /\ MarksNext /\ OrderNext
    BY <1>19, <1>2, <1>3, <1>4, <1>5, <1>6, <1>7, <1>8, <1>9, <1>10, <1>11, <1>12, <1>13,
        <1>14, <1>15, <1>16, <1>17, <1>18, <1>20
      DEF Task!Next, Task!LwipNext, Task!TaskNext
  <2> QED BY <2>1, <2>2 DEF Basics, BasicsNext, MarksNext, OrderNext
<1> QED BY <1>1, <1>19

(* The invariant implies the two properties.                               *)
LEMMA Implied == TaskInv => ClosedIsSilent /\ SlotGuardsPcb
<1> SUFFICES ASSUME TaskInv PROVE ClosedIsSilent /\ SlotGuardsPcb
  OBVIOUS
<1>0. Args
  BY ArgsOK DEF TaskInv, Marks, Basics
<1>1. ClosedIsSilent
  <2> SUFFICES ASSUME task.pc = "run", task.e.kind # "clear", State(cur) # "reset",
                      ~(task.e.kind = "fin" /\ client[cur].overtaken)
               PROVE  Life(cur) = "live"
    BY DEF ClosedIsSilent, Task!ClosedIsSilent, Life, State, cur
  <2>1. cur \in Clients /\ Life(cur) \in {"none", "live", "deleted"} /\ Life(cur) # "none"
    BY <1>0 DEF Args, ClientOK, Life, TaskInv, Marks, Basics, Held
  <2> QED BY <2>1 DEF TaskInv, Silent, Muted, HasCleared, cur
<1>2. SlotGuardsPcb
  <2> SUFFICES ASSUME task.pc = "api", Task!slotOpen(cur) PROVE Guarded(cur)
    BY DEF SlotGuardsPcb, Task!SlotGuardsPcb, Guarded, State, cur
  <2> QED BY DEF TaskInv, Marks, Basics, Guard, calling
<1> QED BY <1>1, <1>2

(* A step of the other libraries leaves the task alone.                    *)
LEMMA TaskOrStutter == [MCNext]_MCvars => [Task!Next]_(Task!vars)
BY DEF MCNext, OfClient, OfTask, OfBuffer, MCvars, taskVars, Task!vars

(* The instance begins as the task does.                                   *)
LEMMA TaskBegins == MCInit => Task!Init
BY DEF MCInit

(* The invariant of the task.                                              *)
THEOREM TaskInvariant == MCSpec => []TaskInv
<1>1. MCInit => TaskInv
  BY TaskBegins, InitTaskInv
<1>2. TaskInv /\ [MCNext]_MCvars => TaskInv'
  BY TaskOrStutter, TaskInvStep
<1> QED
  BY <1>1, <1>2, PTL DEF MCSpec

(* The queue, the slots, the clients and the threads keep their types, and *)
(* every event in the queue is of a client that was accepted.              *)
THEOREM TaskTypeCorrect == MCSpec => []TaskTypes
<1>1. TaskInv => TaskTypes
  BY DEF TaskInv, Marks, Basics
<1> QED
  BY <1>1, TaskInvariant, PTL

(* No event reaches a client that was closed and deleted, whatever the     *)
(* lwIP thread sends meanwhile, unless a reset ended the connection or the *)
(* event is the one of the _lwip_fin that overtook _close.                 *)
THEOREM NoEventAfterClose == MCSpec => []ClosedIsSilent
BY Implied, TaskInvariant, PTL

(* No call of the task reaches a pcb that lwIP has freed, unless it has    *)
(* no slot of its own.                                                     *)
THEOREM CallsReachLivePcbs == MCSpec => []SlotGuardsPcb
BY Implied, TaskInvariant, PTL

-------------------------------------------------------------------------------
(* The buffered client: what the program reads.                            *)
Reader == [mode : {"free", "none", "string", "bytes"}, size : Nat, buffer : Seq(Nat),
           given : Seq(Nat), received : Nat]

(* The bytes the program was given, those that wait, and those behind.     *)
Whole(s, rest) == (s.given \o s.buffer) \o rest

(* t has what s has, but for the request.                                  *)
Same(s, t) ==
  /\ t \in Reader
  /\ t.given = s.given /\ t.buffer = s.buffer /\ t.received = s.received

(* t is s with n bytes of buf taken, and no byte lost.                     *)
Keeps(s, buf, t, n) ==
  /\ t \in Reader /\ n \in 0..Len(buf)
  /\ t.received = s.received
  /\ Whole(t, Buffer!Beyond(buf, n)) = Whole(s, buf)

LEMMA Joined ==
  ASSUME NEW s \in Seq(Nat), NEW t \in Seq(Nat), NEW u \in Seq(Nat)
  PROVE  (s \o t) \o u = s \o (t \o u)
BY SMTT(20), ConcatAssociative

(* A sequence is what is before a cut and what is beyond it.               *)
LEMMA Cut ==
  ASSUME NEW s \in Seq(Nat), NEW n \in 0..Len(s)
  PROVE  /\ Buffer!First(s, n) \in Seq(Nat) /\ Len(Buffer!First(s, n)) = n
         /\ Buffer!Beyond(s, n) \in Seq(Nat) /\ Len(Buffer!Beyond(s, n)) = Len(s) - n
         /\ Buffer!First(s, n) \o Buffer!Beyond(s, n) = s
<1>0. n \in Nat /\ Len(s) \in Nat /\ n <= Len(s)
  OBVIOUS
<1>1. \A i \in 1..n : s[i] \in Nat
  BY <1>0
<1>2. \A i \in (n + 1)..Len(s) : s[i] \in Nat
  BY <1>0
<1>3. SubSeq(s, 1, n) \in Seq(Nat) /\ Len(SubSeq(s, 1, n)) = n
  BY <1>0, <1>1, SubSeqProperties
<1>4. SubSeq(s, n + 1, Len(s)) \in Seq(Nat) /\ Len(SubSeq(s, n + 1, Len(s))) = Len(s) - n
  BY <1>0, <1>2, SubSeqProperties
<1>5. SubSeq(s, 1, n) \o SubSeq(s, n + 1, Len(s)) = s
  <2>1. 1 \in 1..(Len(s) + 1) /\ n \in (1 - 1)..Len(s) /\ Len(s) \in n..Len(s)
    BY <1>0
  <2>2. SubSeq(s, 1, n) \o SubSeq(s, n + 1, Len(s)) = SubSeq(s, 1, Len(s))
    BY <2>1, ConcatAdjacentSubSeq
  <2> QED BY <2>2, SubSeqFull
<1> QED BY <1>3, <1>4, <1>5 DEF Buffer!First, Buffer!Beyond

(* The cuts at the two ends.                                               *)
LEMMA CutNothing ==
  ASSUME NEW s \in Seq(Nat)
  PROVE  Buffer!First(s, 0) = <<>> /\ Buffer!Beyond(s, 0) = s
<1>1. 0 \in 0..Len(s)
  OBVIOUS
<1>2. Buffer!First(s, 0) = <<>>
  BY <1>1, Cut
<1>3. Buffer!Beyond(s, 0) = s
  BY SubSeqFull DEF Buffer!Beyond
<1> QED BY <1>2, <1>3

LEMMA CutAll ==
  ASSUME NEW s \in Seq(Nat)
  PROVE  Buffer!Beyond(s, Len(s)) = <<>>
<1>1. Len(s) \in 0..Len(s)
  OBVIOUS
<1> QED BY SMTT(20), <1>1, Cut

LEMMA KeepsNothing ==
  ASSUME NEW s \in Reader, NEW buf \in Seq(Nat)
  PROVE  Keeps(s, buf, s, 0)
<1>1. 0 \in 0..Len(buf)
  OBVIOUS
<1> QED BY <1>1, CutNothing DEF Keeps

LEMMA KeepsSame ==
  ASSUME NEW s, NEW buf, NEW t, NEW n, Keeps(s, buf, t, n), NEW u, Same(t, u)
  PROVE  Keeps(s, buf, u, n)
BY DEF Keeps, Same, Whole

LEMMA KeepsTaken ==
  ASSUME NEW s \in Reader, NEW buf \in Seq(Nat), NEW t, Keeps(s, buf, t, 0),
         NEW n \in 0..Len(buf), t.buffer = <<>> \/ n = 0
  PROVE  LET u == Buffer!take(t, Buffer!First(buf, n))
         IN  Keeps(s, buf, u, n) /\ u.buffer = t.buffer /\ u.size = t.size
<1> DEFINE first  == Buffer!First(buf, n)
           beyond == Buffer!Beyond(buf, n)
           u      == Buffer!take(t, first)
<1>1. first \in Seq(Nat) /\ beyond \in Seq(Nat) /\ first \o beyond = buf
  BY Cut
<1>2. t \in Reader /\ t.received = s.received /\ Whole(t, buf) = Whole(s, buf)
  BY CutNothing DEF Keeps
<1>3. t.given \in Seq(Nat) /\ t.buffer \in Seq(Nat)
  BY <1>2 DEF Reader
<1>4. n = 0 => first = <<>>
  BY CutNothing
<1> HIDE DEF first, beyond
<1>5. t.given \o first \in Seq(Nat)
  BY <1>1, <1>3, ConcatProperties
<1>6. /\ u \in Reader /\ u.given = t.given \o first
      /\ u.buffer = t.buffer /\ u.received = t.received /\ u.size = t.size
  BY <1>2, <1>5 DEF Reader, Buffer!take
<1>7. Whole(u, beyond) = Whole(t, buf)
  <2>1. CASE t.buffer = <<>>
    <3>1. Whole(u, beyond) = (t.given \o first) \o beyond
      BY <1>5, <1>6, <2>1, ConcatEmptySeq DEF Whole
    <3>2. Whole(t, buf) = t.given \o buf
      BY <1>3, <2>1, ConcatEmptySeq DEF Whole
    <3>3. (t.given \o first) \o beyond = t.given \o (first \o beyond)
      <4>1. t.given \in Seq(Nat) /\ first \in Seq(Nat) /\ beyond \in Seq(Nat)
        BY <1>1, <1>3
      <4> QED BY <4>1, Joined
    <3> QED BY <3>1, <3>2, <3>3, <1>1
  <2>2. CASE n = 0
    <3>1. u.given = t.given
      BY <1>3, <1>4, <1>6, <2>2, ConcatEmptySeq
    <3>2. beyond = buf
      BY <2>2, CutNothing DEF beyond
    <3> QED BY <3>1, <3>2, <1>6 DEF Whole
  <2> QED BY <2>1, <2>2
<1>8. Keeps(s, buf, u, n)
  BY <1>2, <1>6, <1>7 DEF Keeps, beyond
<1> QED BY <1>6, <1>8 DEF first

LEMMA KeepsBuffer ==
  ASSUME NEW s \in Reader, NEW buf \in Seq(Nat), NEW n \in 0..Len(s.buffer)
  PROVE  LET t == Buffer!takeBuffer(s, n)
         IN  /\ Keeps(s, buf, t, 0)
             /\ t.size = s.size /\ Len(t.buffer) = Len(s.buffer) - n
<1> DEFINE first  == Buffer!First(s.buffer, n)
           beyond == Buffer!Beyond(s.buffer, n)
           t      == Buffer!takeBuffer(s, n)
<1>0. s.given \in Seq(Nat) /\ s.buffer \in Seq(Nat)
  BY DEF Reader
<1>1. /\ first \in Seq(Nat) /\ beyond \in Seq(Nat) /\ first \o beyond = s.buffer
      /\ Len(beyond) = Len(s.buffer) - n
  BY <1>0, Cut
<1>2. s.given \o first \in Seq(Nat)
  <2> HIDE DEF first
  <2> QED BY <1>0, <1>1, ConcatProperties
<1>3. t = [s EXCEPT !.given = s.given \o first, !.buffer = beyond]
  BY DEF Buffer!takeBuffer, Buffer!take, Reader, Buffer!First, Buffer!Beyond
<1> HIDE DEF first, beyond
<1>4. /\ t \in Reader /\ t.given = s.given \o first /\ t.buffer = beyond
      /\ t.received = s.received /\ t.size = s.size
  <2> HIDE DEF t
  <2> QED BY <1>1, <1>2, <1>3 DEF Reader
<1> HIDE DEF t
<1>5. Whole(t, buf) = Whole(s, buf)
  <2>1. (s.given \o first) \o beyond = s.given \o s.buffer
    <3>1. (s.given \o first) \o beyond = s.given \o (first \o beyond)
      BY <1>0, <1>1, Joined
    <3> QED BY <1>1, <3>1
  <2> QED BY <1>4, <2>1 DEF Whole
<1>6. Keeps(s, buf, t, 0)
  <2>1. 0 \in 0..Len(buf)
    OBVIOUS
  <2> QED BY <2>1, <1>4, <1>5, CutNothing DEF Keeps
<1> QED BY <1>1, <1>4, <1>6 DEF t

(* The program's next request.                                             *)
LEMMA Asks ==
  ASSUME NEW s \in Reader, NEW q \in Buffer!Requests
  PROVE  Same(s, Buffer!request(s, q))
<1>1. q.mode \in {"free", "none", "string", "bytes"} /\ q.size \in Nat
  BY BufferAssumption DEF Buffer!Requests
<1> QED BY <1>1 DEF Same, Reader, Buffer!request

LEMMA CountsDown ==
  ASSUME NEW s \in Reader, NEW n \in 0..s.size
  PROVE  LET u == [s EXCEPT !.size = @ - n] IN Same(s, u) /\ u.size = s.size - n
<1>1. s.size \in Nat /\ s.size - n \in Nat
  BY DEF Reader
<1> QED BY <1>1 DEF Same, Reader

LEMMA Least ==
  ASSUME NEW a \in Nat, NEW b \in Nat
  PROVE  /\ Buffer!Min({a, b}) \in Nat
         /\ Buffer!Min({a, b}) <= a /\ Buffer!Min({a, b}) <= b
<1>1. \E x \in {a, b} : \A y \in {a, b} : x <= y
  OBVIOUS
<1>2. LET m == Buffer!Min({a, b}) IN m \in {a, b} /\ \A y \in {a, b} : m <= y
  BY <1>1 DEF Buffer!Min
<1> QED BY <1>2

-------------------------------------------------------------------------------
(* The three ways of _handleRxBuffer.                                      *)
Handled(s, buf, h) == Keeps(s, buf, h.s, h.n)

LEMMA ProgramTakes ==
  ASSUME NEW p \in Buffer!Programs, NEW n \in Nat
  PROVE  Buffer!taken(p, n) \in 0..n /\ p.next \in Buffer!Requests
<1>1. Buffer!Min({1, n}) \in 0..n
  BY Least
<1> QED BY <1>1 DEF Buffer!taken, Buffer!Programs

LEMMA FreeKeeps ==
  ASSUME NEW s \in Reader, NEW buf \in Seq(Nat), NEW p \in Buffer!Programs
  PROVE  Handled(s, buf, Buffer!handleFree(s, buf, p))
<1> DEFINE avail == Len(s.buffer)
           r     == Buffer!taken(p, avail)
           b     == Buffer!takeBuffer(s, r)
           t     == IF avail > 0 THEN Buffer!request(b, p.next) ELSE s
           n     == Buffer!taken(p, Len(buf))
           u     == Buffer!take(t, Buffer!First(buf, n))
<1>0. avail \in Nat /\ s.buffer \in Seq(Nat) /\ Len(buf) \in Nat
  BY DEF Reader
<1>1. r \in 0..avail /\ n \in 0..Len(buf) /\ p.next \in Buffer!Requests
  BY <1>0, ProgramTakes
<1>2. Keeps(s, buf, b, 0) /\ Len(b.buffer) = avail - r
  BY <1>1, KeepsBuffer
<1> HIDE DEF b
<1>3. Keeps(s, buf, t, 0) /\ (r = avail => t.buffer = <<>>)
  <2>1. CASE avail > 0
    <3>1. b \in Reader /\ Same(b, t)
      BY <1>1, <1>2, <2>1, Asks DEF Keeps
    <3>2. Keeps(s, buf, t, 0)
      BY <1>2, <3>1, KeepsSame
    <3>3. b.buffer \in Seq(Nat) /\ t.buffer = b.buffer
      BY <3>1 DEF Reader, Same
    <3>4. r = avail => b.buffer = <<>>
      <4> HIDE DEF avail, r
      <4> QED BY <1>0, <1>1, <1>2, <3>3
    <3> HIDE DEF t
    <3> QED BY <3>2, <3>3, <3>4
  <2>2. CASE ~(avail > 0)
    <3>1. t = s /\ s.buffer = <<>>
      BY <1>0, <2>2
    <3> QED BY <3>1, KeepsNothing
  <2> QED BY <2>1, <2>2
<1> HIDE DEF t
<1>4. CASE r = avail /\ buf # <<>>
  <2>1. Keeps(s, buf, u, n)
    BY <1>1, <1>3, <1>4, KeepsTaken
  <2> HIDE DEF n, u, r, avail
  <2>2. Keeps(s, buf, Buffer!request(u, p.next), n)
    <3>1. u \in Reader
      BY <2>1 DEF Keeps
    <3> QED BY <2>1, <3>1, <1>1, Asks, KeepsSame
  <2>3. Buffer!handleFree(s, buf, p) = [s |-> Buffer!request(u, p.next), n |-> n]
    BY <1>4 DEF Buffer!handleFree, avail, r, b, t, n, u
  <2> QED BY <2>2, <2>3 DEF Handled
<1>5. CASE ~(r = avail /\ buf # <<>>)
  <2>1. Buffer!handleFree(s, buf, p) = [s |-> t, n |-> 0]
    BY <1>5 DEF Buffer!handleFree, t, b
  <2> QED BY <1>3, <2>1 DEF Handled
<1> QED BY <1>4, <1>5

LEMMA BytesKeep ==
  ASSUME NEW s \in Reader, NEW buf \in Seq(Nat), NEW p \in Buffer!Programs
  PROVE  Handled(s, buf, Buffer!handleBytes(s, buf, p))
<1> DEFINE r == Buffer!Min({s.size, Len(s.buffer)})
           b == Buffer!takeBuffer(s, r)
           t == [b EXCEPT !.size = @ - r]
           n == IF t.buffer = <<>> THEN Buffer!Min({t.size, Len(buf)}) ELSE 0
           v == Buffer!take(t, Buffer!First(buf, n))
           u == [v EXCEPT !.size = @ - n]
<1>0. s.size \in Nat /\ s.buffer \in Seq(Nat) /\ Len(s.buffer) \in Nat /\ Len(buf) \in Nat
  BY DEF Reader
<1>1. r \in 0..s.size /\ r \in 0..Len(s.buffer)
  <2>1. r \in Nat /\ r <= s.size /\ r <= Len(s.buffer)
    BY <1>0, Least
  <2> HIDE DEF r
  <2> QED BY <1>0, <2>1
<1>2. Keeps(s, buf, b, 0) /\ b.size = s.size /\ b \in Reader
  BY <1>1, KeepsBuffer DEF Keeps
<1> HIDE DEF r, b
<1>3. Keeps(s, buf, t, 0) /\ t.size \in Nat
  <2>1. Same(b, t)
    BY <1>1, <1>2, CountsDown
  <2> HIDE DEF t
  <2> QED BY <1>2, <2>1, KeepsSame DEF Same, Reader
<1> HIDE DEF t
<1>4. n \in 0..t.size /\ n \in 0..Len(buf) /\ (t.buffer = <<>> \/ n = 0)
  <2>1. CASE t.buffer = <<>>
    <3>1. n \in Nat /\ n <= t.size /\ n <= Len(buf)
      BY <1>0, <1>3, <2>1, Least
    <3> HIDE DEF n
    <3> QED BY <1>0, <1>3, <2>1, <3>1
  <2>2. CASE t.buffer # <<>>
    BY <1>0, <1>3, <2>2
  <2> QED BY <2>1, <2>2
<1> HIDE DEF n
<1>5. Keeps(s, buf, v, n) /\ v.size = t.size /\ v \in Reader
  BY <1>3, <1>4, KeepsTaken DEF Keeps
<1> HIDE DEF v
<1>6. Keeps(s, buf, u, n) /\ u \in Reader
  <2>1. Same(v, u)
    BY <1>4, <1>5, CountsDown
  <2> HIDE DEF u
  <2> QED BY <1>5, <2>1, KeepsSame DEF Same
<1>7. Buffer!handleBytes(s, buf, p)
        = [s |-> IF u.size = 0 THEN Buffer!request(u, p.next) ELSE u, n |-> n]
  BY DEF Buffer!handleBytes, r, b, t, n, v
<1> HIDE DEF u
<1>8. Keeps(s, buf, Buffer!request(u, p.next), n)
  <2>1. p.next \in Buffer!Requests
    BY DEF Buffer!Programs
  <2> QED BY <1>6, <2>1, Asks, KeepsSame
<1> QED BY <1>6, <1>7, <1>8 DEF Handled

(* Induction, for a set of naturals: were n the least to be missing, the   *)
(* successor would be an injection of those up to n into one fewer.        *)
LEMMA SetInduction ==
  ASSUME NEW T, 0 \in T, \A n \in Nat : n \in T => n + 1 \in T
  PROVE  Nat \subseteq T
<1> SUFFICES ASSUME NEW n \in Nat, n \notin T PROVE FALSE
  OBVIOUS
<1> DEFINE A == 0..n \cap T
           f == [x \in A |-> x + 1]
<1>1. IsFiniteSet(A) /\ 0 \in A
  <2>1. IsFiniteSet(0..n)
    BY FS_Interval
  <2>2. A \subseteq 0..n
    OBVIOUS
  <2> QED BY <2>1, <2>2, FS_Subset
<1>2. /\ IsFiniteSet(A \ {0}) /\ Cardinality(A) \in Nat
      /\ Cardinality(A \ {0}) = Cardinality(A) - 1
  BY <1>1, FS_RemoveElement, FS_CardinalityType
<1>3. f \in [A -> A \ {0}]
  <2> SUFFICES ASSUME NEW x \in A PROVE x + 1 \in A \ {0}
    OBVIOUS
  <2>1. x # n /\ x \in Nat /\ x + 1 \in T
    OBVIOUS
  <2> QED BY <2>1
<1>4. \E x, y \in A : x # y /\ f[x] = f[y]
  <2> HIDE DEF A, f
  <2>1. Cardinality(A \ {0}) < Cardinality(A)
    BY <1>2
  <2> QED BY <1>1, <1>2, <1>3, <2>1, FS_PigeonHole
<1> QED BY <1>4

LEMMA LeastOf ==
  ASSUME NEW I, I \subseteq Nat, I # {}
  PROVE  Buffer!Min(I) \in I
<1>1. \E x \in I : \A y \in I : x <= y
  <2> DEFINE T == {n \in Nat : \A i \in I : n <= i}
  <2>1. PICK x \in I : TRUE
    OBVIOUS
  <2>2. 0 \in T /\ x \in Nat /\ x + 1 \notin T
    BY <2>1
  <2>3. PICK n \in Nat : n \in T /\ n + 1 \notin T
    <3>1. (\A n \in Nat : n \in T => n + 1 \in T) => Nat \subseteq T
      <4> HIDE DEF T
      <4> QED BY <2>2, SetInduction
    <3>2. x + 1 \in Nat
      BY <2>2
    <3> HIDE DEF T
    <3> QED BY <2>2, <3>1, <3>2
  <2>4. PICK i \in I : ~(n + 1 <= i)
    BY <2>3
  <2>5. i = n
    BY <2>3, <2>4
  <2> QED BY <2>3, <2>5
<1> QED BY <1>1 DEF Buffer!Min

(* Where a string ends: all of it goes if it does not.                     *)
LEMMA Until ==
  ASSUME NEW bytes \in Seq(Nat)
  PROVE  /\ Buffer!untilTerminator(bytes) \in 0..Len(bytes)
         /\ ~Buffer!ends(bytes) => Buffer!untilTerminator(bytes) = Len(bytes)
<1> DEFINE I  == {i \in 1..Len(bytes) : bytes[i] \in Terminators}
           at == IF I # {} THEN Buffer!Min(I) ELSE 0
<1>1. Buffer!untilTerminator(bytes) = IF at = 0 THEN Len(bytes) ELSE at
  BY DEF Buffer!untilTerminator, Buffer!SelectInSeq
<1>2. I \subseteq Nat /\ Len(bytes) \in Nat
  OBVIOUS
<1>3. I # {} => at \in I
  <2> HIDE DEF I
  <2> QED BY <1>2, LeastOf
<1>4. at \in 0..Len(bytes)
  BY <1>2, <1>3
<1>5. ~Buffer!ends(bytes) => I = {}
  BY DEF Buffer!ends
<1> HIDE DEF I
<1>6. ~Buffer!ends(bytes) => at = 0
  BY <1>5
<1> HIDE DEF at
<1> QED BY <1>1, <1>2, <1>4, <1>6

LEMMA StringKeeps ==
  ASSUME NEW s \in Reader, NEW buf \in Seq(Nat), NEW p \in Buffer!Programs
  PROVE  Handled(s, buf, Buffer!handleString(s, buf, p))
<1> DEFINE r == Buffer!untilTerminator(s.buffer)
           t == Buffer!takeBuffer(s, r)
           n == Buffer!untilTerminator(buf)
           u == Buffer!take(t, Buffer!First(buf, n))
           h == Buffer!handleString(s, buf, p)
<1>0. s.buffer \in Seq(Nat) /\ Len(s.buffer) \in Nat
  BY DEF Reader
<1>1. /\ r \in 0..Len(s.buffer) /\ n \in 0..Len(buf)
      /\ ~Buffer!ends(s.buffer) => r = Len(s.buffer)
  BY <1>0, Until
<1>2. h = IF Buffer!ends(s.buffer) THEN [s |-> Buffer!request(t, p.next), n |-> 0]
          ELSE [s |-> IF Buffer!ends(buf) THEN Buffer!request(u, p.next) ELSE u, n |-> n]
  BY DEF Buffer!handleString
<1>3. p.next \in Buffer!Requests
  BY DEF Buffer!Programs
<1> HIDE DEF r, n
<1>4. Keeps(s, buf, t, 0) /\ t \in Reader /\ Len(t.buffer) = Len(s.buffer) - r
  BY <1>1, KeepsBuffer DEF Keeps
<1> HIDE DEF t
<1>5. CASE Buffer!ends(s.buffer)
  <2>1. Keeps(s, buf, Buffer!request(t, p.next), 0)
    BY <1>3, <1>4, Asks, KeepsSame
  <2> QED BY <1>2, <1>5, <2>1 DEF Handled
<1>6. CASE ~Buffer!ends(s.buffer)
  <2>1. t.buffer = <<>>
    <3>1. t.buffer \in Seq(Nat) /\ Len(t.buffer) = 0
      BY <1>0, <1>1, <1>4, <1>6 DEF Reader
    <3> QED BY <3>1
  <2>2. Keeps(s, buf, u, n) /\ u \in Reader
    BY <1>1, <1>4, <2>1, KeepsTaken DEF Keeps
  <2> HIDE DEF u
  <2>3. Keeps(s, buf, Buffer!request(u, p.next), n)
    BY <1>3, <2>2, Asks, KeepsSame
  <2> QED BY <1>2, <1>6, <2>2, <2>3 DEF Handled
<1> QED BY <1>5, <1>6

LEMMA HandleKeeps ==
  ASSUME NEW s \in Reader, NEW buf \in Seq(Nat), NEW p \in Buffer!Programs
  PROVE  Handled(s, buf, Buffer!handleRxBuffer(s, buf, p))
<1>1. s.mode \in {"free", "none", "string", "bytes"}
  BY DEF Reader
<1>2. CASE s.mode = "none"
  BY <1>2, KeepsNothing DEF Handled, Buffer!handleRxBuffer
<1>3. CASE s.mode = "free"
  BY <1>3, FreeKeeps DEF Buffer!handleRxBuffer
<1>4. CASE s.mode = "bytes"
  BY <1>4, BytesKeep DEF Buffer!handleRxBuffer
<1>5. CASE s.mode = "string"
  BY <1>5, StringKeeps DEF Buffer!handleRxBuffer
<1> QED BY <1>1, <1>2, <1>3, <1>4, <1>5

-------------------------------------------------------------------------------
(* The loop of _rxData: its turns, each a function of the one before.      *)
IsOn(s, buf, p, n, turn) ==
  turn = [k \in 0..n |-> IF k = 0 THEN [s |-> s, rest |-> buf, handled |-> TRUE]
                         ELSE Buffer!handleTurn(turn[k - 1], p)]
OnTurns(s, buf, p) == CHOOSE turn : IsOn(s, buf, p, Len(buf), turn)

LEMMA OnIsDefined ==
  ASSUME NEW s, NEW buf, NEW p, NEW n \in Nat
  PROVE  \E turn : IsOn(s, buf, p, n, turn)
<1> DEFINE first == [s |-> s, rest |-> buf, handled |-> TRUE]
           T == {l \in Nat : \E turn : IsOn(s, buf, p, l, turn)}
<1>1. 0 \in T
  <2> DEFINE t == [k \in 0..0 |-> first]
  <2>1. IsOn(s, buf, p, 0, t)
    BY DEF IsOn
  <2> QED BY <2>1
<1>2. ASSUME NEW l \in Nat, l \in T PROVE l + 1 \in T
  <2>1. PICK t : IsOn(s, buf, p, l, t)
    BY <1>2
  <2> DEFINE u == [k \in 0..(l + 1) |-> IF k = l + 1 THEN Buffer!handleTurn(t[l], p) ELSE t[k]]
             v == [k \in 0..(l + 1) |-> IF k = 0 THEN first ELSE Buffer!handleTurn(u[k - 1], p)]
  <2>2. ASSUME NEW k \in 0..(l + 1) PROVE u[k] = v[k]
    <3>1. CASE k = l + 1
      <4>1. k # 0 /\ k - 1 = l /\ l \in 0..(l + 1) /\ l # l + 1
        BY <3>1
      <4> QED BY <3>1, <4>1
    <3>2. CASE k # l + 1
      <4>1. k \in 0..l
        BY <3>2
      <4>2. t[k] = IF k = 0 THEN first ELSE Buffer!handleTurn(t[k - 1], p)
        BY <2>1, <4>1 DEF IsOn
      <4>3. k # 0 => k - 1 \in 0..(l + 1) /\ k - 1 # l + 1
        BY <4>1
      <4> QED BY <3>2, <4>2, <4>3
    <3> QED BY <3>1, <3>2
  <2>3. u = v
    BY <2>2
  <2>4. IsOn(s, buf, p, l + 1, u)
    BY <2>3 DEF IsOn
  <2> QED BY <2>4
<1>3. n \in T
  <2> HIDE DEF T
  <2> QED BY <1>1, <1>2, SetInduction
<1> QED BY <1>3

(* A turn, and so the loop, loses no byte of what s and rest have.         *)
Going(t, s, rest) ==
  /\ t.s \in Reader /\ t.rest \in Seq(Nat)
  /\ t.s.received = s.received /\ Whole(t.s, t.rest) = Whole(s, rest)

LEMMA TurnGoes ==
  ASSUME NEW s, NEW rest, NEW t, Going(t, s, rest), NEW p \in Buffer!Programs
  PROVE  Going(Buffer!handleTurn(t, p), s, rest)
<1> DEFINE h == Buffer!handleRxBuffer(t.s, t.rest, p)
           u == [s |-> h.s, rest |-> Buffer!Beyond(t.rest, h.n), handled |-> h.n # 0]
<1>1. Buffer!handleTurn(t, p) \in {t, u}
  BY DEF Buffer!handleTurn
<1>2. Keeps(t.s, t.rest, h.s, h.n)
  BY HandleKeeps DEF Going, Handled
<1>3. Buffer!Beyond(t.rest, h.n) \in Seq(Nat)
  BY <1>2, Cut DEF Keeps, Going
<1>4. Going(u, s, rest)
  BY <1>2, <1>3 DEF Going, Keeps
<1> QED BY <1>1, <1>4

LEMMA OnGoes ==
  ASSUME NEW s \in Reader, NEW buf \in Seq(Nat), NEW p \in Buffer!Programs
  PROVE  Going(Buffer!handleOn(s, buf, p), s, buf)
<1> DEFINE n == Len(buf)
           t == OnTurns(s, buf, p)
<1>1. Buffer!handleOn(s, buf, p) = t[n]
  BY DEF Buffer!handleOn, OnTurns, IsOn
<1>2. n \in Nat
  OBVIOUS
<1>3. IsOn(s, buf, p, n, t)
  BY <1>2, OnIsDefined DEF OnTurns
<1> HIDE DEF t, n
<1>4. /\ t[0] = [s |-> s, rest |-> buf, handled |-> TRUE]
      /\ \A k \in 1..n : t[k] = Buffer!handleTurn(t[k - 1], p)
  <2>1. 0 \in 0..n /\ \A k \in 1..n : k \in 0..n /\ k # 0
    BY <1>2
  <2> QED BY <1>3, <2>1 DEF IsOn
<1> DEFINE T == {k \in Nat : k <= n => Going(t[k], s, buf)}
<1>5. 0 \in T
  BY <1>4 DEF Going
<1>6. ASSUME NEW k \in Nat, k \in T PROVE k + 1 \in T
  <2> SUFFICES ASSUME k + 1 <= n PROVE Going(t[k + 1], s, buf)
    OBVIOUS
  <2>1. k <= n /\ k + 1 \in 1..n /\ (k + 1) - 1 = k
    BY <1>2
  <2>2. Going(t[k], s, buf)
    BY <1>6, <2>1
  <2>3. t[k + 1] = Buffer!handleTurn(t[k], p)
    BY <1>4, <2>1
  <2> QED BY <2>2, <2>3, TurnGoes
<1>7. n \in T
  <2> HIDE DEF T
  <2> QED BY <1>2, <1>5, <1>6, SetInduction
<1> QED BY <1>1, <1>2, <1>7

(* _rxData loses no byte of the segment.                                   *)
LEMMA RxDataKeeps ==
  ASSUME NEW s \in Reader, NEW buf \in Seq(Nat), NEW p \in Buffer!Programs
  PROVE  LET r == Buffer!rxData(s, buf, p)
         IN  r \in Reader /\ r.received = s.received /\ r.given \o r.buffer = Whole(s, buf)
<1> DEFINE h     == Buffer!handleRxBuffer(s, buf, p)
           rest1 == Buffer!Beyond(buf, h.n)
           on    == IF s.mode # "none" /\ h.s.buffer = <<>> /\ h.n # 0
                    THEN Buffer!handleOn(h.s, rest1, p) ELSE [s |-> h.s, rest |-> rest1]
           kept  == [on.s EXCEPT !.buffer = @ \o on.rest]
           last  == Buffer!handleRxBuffer(kept, <<>>, p)
<1>1. Buffer!rxData(s, buf, p) = IF kept.buffer # <<>> /\ kept.mode # "none" THEN last.s ELSE kept
  BY DEF Buffer!rxData
<1>2. Keeps(s, buf, h.s, h.n)
  BY HandleKeeps DEF Handled
<1>3. rest1 \in Seq(Nat)
  <2> HIDE DEF h
  <2> QED BY <1>2, Cut DEF Keeps
<1>4. Going(on, s, buf)
  <2>1. Going(Buffer!handleOn(h.s, rest1, p), h.s, rest1)
    <3> HIDE DEF h, rest1
    <3> QED BY <1>2, <1>3, OnGoes DEF Keeps
  <2>2. Going([s |-> h.s, rest |-> rest1], s, buf)
    <3> HIDE DEF h
    <3> QED BY <1>2, <1>3 DEF Keeps, Going
  <2>3. Going(Buffer!handleOn(h.s, rest1, p), s, buf)
    <3> HIDE DEF h
    <3> QED BY <1>2, <2>1 DEF Keeps, Going
  <2> HIDE DEF h, rest1
  <2> QED BY <2>2, <2>3
<1> HIDE DEF h, rest1, on
<1>5. /\ kept \in Reader /\ kept.received = s.received
      /\ kept.given \o kept.buffer = Whole(s, buf)
  <2>1. /\ on.s \in Reader /\ on.rest \in Seq(Nat) /\ on.s.received = s.received
        /\ (on.s.given \o on.s.buffer) \o on.rest = Whole(s, buf)
    BY <1>4 DEF Going, Whole
  <2>2. on.s.given \in Seq(Nat) /\ on.s.buffer \in Seq(Nat)
    BY <2>1 DEF Reader
  <2>3. /\ on.s.buffer \o on.rest \in Seq(Nat)
        /\ on.s.given \o (on.s.buffer \o on.rest) = Whole(s, buf)
    <3>1. on.s.buffer \o on.rest \in Seq(Nat)
      BY <2>1, <2>2, ConcatProperties
    <3>2. (on.s.given \o on.s.buffer) \o on.rest = on.s.given \o (on.s.buffer \o on.rest)
      BY <2>1, <2>2, Joined
    <3> QED BY <2>1, <3>1, <3>2
  <2> DEFINE b == on.s.buffer \o on.rest
  <2>4. kept = [on.s EXCEPT !.buffer = b]
    OBVIOUS
  <2> HIDE DEF b, kept
  <2>5. kept \in Reader /\ kept.received = on.s.received /\ kept.given = on.s.given /\ kept.buffer = b
    <3>1. b \in Seq(Nat)
      BY <2>3 DEF b
    <3> QED BY <2>1, <2>4, <3>1 DEF Reader
  <2> QED BY <2>1, <2>3, <2>5 DEF b
<1> HIDE DEF kept
<1>6. last.s \in Reader /\ last.s.received = s.received /\ last.s.given \o last.s.buffer = Whole(s, buf)
  <2>1. <<>> \in Seq(Nat) /\ Len(<<>>) = 0
    OBVIOUS
  <2>2. Keeps(kept, <<>>, last.s, last.n)
    BY <1>5, <2>1, HandleKeeps DEF Handled
  <2> HIDE DEF last
  <2>3. last.n = 0 /\ last.s \in Reader
    BY <2>1, <2>2 DEF Keeps
  <2>4. Buffer!Beyond(<<>>, last.n) = <<>>
    BY <2>1, <2>3, CutNothing
  <2>5. Whole(last.s, <<>>) = Whole(kept, <<>>)
    BY <2>2, <2>4 DEF Keeps
  <2>6. ASSUME NEW x \in Reader PROVE Whole(x, <<>>) = x.given \o x.buffer
    <3>1. x.given \in Seq(Nat) /\ x.buffer \in Seq(Nat)
      BY DEF Reader
    <3>2. x.given \o x.buffer \in Seq(Nat)
      BY <3>1, ConcatProperties
    <3> QED BY <3>2, ConcatEmptySeq DEF Whole
  <2> QED BY <1>5, <2>2, <2>3, <2>5, <2>6 DEF Keeps
<1> HIDE DEF last
<1> QED BY <1>1, <1>5, <1>6

-------------------------------------------------------------------------------
(* The chain: f[i] is what its first i buffers hold.                       *)
IsFlat(chain, n, f) ==
  f = [i \in 1..n |-> IF i = 1 THEN chain[i] ELSE f[i - 1] \o chain[i]]
Flat(chain) == CHOOSE f : IsFlat(chain, Len(chain), f)

Flattens(chain, f) ==
  /\ f[1] = chain[1]
  /\ \A i \in 2..Len(chain) : f[i] = f[i - 1] \o chain[i]

Chains == Seq(Seq(Nat)) \ {<<>>}

LEMMA FlatIsDefined ==
  ASSUME NEW chain, NEW n \in Nat
  PROVE  \E f : IsFlat(chain, n, f)
<1> DEFINE T == {l \in Nat : \E f : IsFlat(chain, l, f)}
<1>1. 0 \in T
  <2> DEFINE t == [i \in 1..0 |-> chain[1]]
             v == [i \in 1..0 |-> IF i = 1 THEN chain[i] ELSE t[i - 1] \o chain[i]]
  <2>1. t = v
    OBVIOUS
  <2>2. IsFlat(chain, 0, t)
    BY <2>1 DEF IsFlat
  <2> QED BY <2>2
<1>2. ASSUME NEW l \in Nat, l \in T PROVE l + 1 \in T
  <2>1. PICK t : IsFlat(chain, l, t)
    BY <1>2
  <2> DEFINE last == IF l + 1 = 1 THEN chain[l + 1] ELSE t[l] \o chain[l + 1]
             u == [i \in 1..(l + 1) |-> IF i = l + 1 THEN last ELSE t[i]]
             v == [i \in 1..(l + 1) |-> IF i = 1 THEN chain[i] ELSE u[i - 1] \o chain[i]]
  <2>2. ASSUME NEW i \in 1..(l + 1) PROVE u[i] = v[i]
    <3>1. CASE i = l + 1
      <4>1. i # 1 => i - 1 = l /\ l \in 1..(l + 1) /\ l # l + 1
        BY <3>1
      <4> QED BY <3>1, <4>1
    <3>2. CASE i # l + 1
      <4>1. i \in 1..l
        BY <3>2
      <4>2. t[i] = IF i = 1 THEN chain[i] ELSE t[i - 1] \o chain[i]
        BY <2>1, <4>1 DEF IsFlat
      <4>3. i # 1 => i - 1 \in 1..(l + 1) /\ i - 1 # l + 1
        BY <4>1
      <4> QED BY <3>2, <4>2, <4>3
    <3> QED BY <3>1, <3>2
  <2>3. u = v
    BY <2>2
  <2>4. IsFlat(chain, l + 1, u)
    BY <2>3 DEF IsFlat
  <2> QED BY <2>4
<1>3. n \in T
  <2> HIDE DEF T
  <2> QED BY <1>1, <1>2, SetInduction
<1> QED BY <1>3

LEMMA FlatFlattens ==
  ASSUME NEW chain \in Chains
  PROVE  /\ Flattens(chain, Flat(chain))
         /\ Buffer!FlattenSeq(chain) = Flat(chain)[Len(chain)]
<1>1. Len(chain) \in Nat /\ Len(chain) # 0 /\ 1 \in 1..Len(chain)
  BY DEF Chains
<1>2. Buffer!FlattenSeq(chain) = Flat(chain)[Len(chain)]
  BY <1>1 DEF Buffer!FlattenSeq, Flat, IsFlat
<1>3. IsFlat(chain, Len(chain), Flat(chain))
  BY <1>1, FlatIsDefined DEF Flat
<1>4. Flat(chain)[1] = chain[1]
  BY <1>1, <1>3 DEF IsFlat
<1>5. ASSUME NEW i \in 2..Len(chain)
      PROVE  Flat(chain)[i] = Flat(chain)[i - 1] \o chain[i]
  <2>1. i \in 1..Len(chain) /\ i # 1
    BY <1>1
  <2> QED BY <1>3, <2>1 DEF IsFlat
<1> QED BY <1>2, <1>4, <1>5 DEF Flattens

(* Whatever adds the buffers up one by one is what FlattenSeq computes.    *)
LEMMA FlattenIs ==
  ASSUME NEW chain \in Chains, NEW g, Flattens(chain, g)
  PROVE  /\ Buffer!FlattenSeq(chain) = g[Len(chain)]
         /\ \A i \in 1..Len(chain) : g[i] \in Seq(Nat)
<1> DEFINE n == Len(chain)
           f == Flat(chain)
           T == {i \in Nat : i + 1 <= n => f[i + 1] = g[i + 1] /\ g[i + 1] \in Seq(Nat)}
<1>0. n \in Nat \ {0} /\ \A i \in 1..n : chain[i] \in Seq(Nat)
  BY DEF Chains
<1>1. Flattens(chain, f) /\ Buffer!FlattenSeq(chain) = f[n]
  BY FlatFlattens
<1> HIDE DEF f
<1>2. 0 \in T
  <2>1. f[1] = g[1] /\ g[1] = chain[1] /\ 1 \in 1..n
    BY <1>0, <1>1 DEF Flattens
  <2> QED BY <1>0, <2>1
<1>3. ASSUME NEW i \in Nat, i \in T PROVE i + 1 \in T
  <2> SUFFICES ASSUME (i + 1) + 1 <= n
               PROVE  f[(i + 1) + 1] = g[(i + 1) + 1] /\ g[(i + 1) + 1] \in Seq(Nat)
    OBVIOUS
  <2> DEFINE j == (i + 1) + 1
  <2>1. j \in 2..n /\ j \in 1..n /\ j - 1 = i + 1 /\ i + 1 <= n
    BY <1>0
  <2>2. f[i + 1] = g[i + 1] /\ g[i + 1] \in Seq(Nat)
    BY <1>3, <2>1
  <2>3. f[j] = f[i + 1] \o chain[j] /\ g[j] = g[i + 1] \o chain[j]
    <3> HIDE DEF j
    <3> QED BY <1>1, <2>1 DEF Flattens
  <2>4. g[i + 1] \o chain[j] \in Seq(Nat)
    <3> HIDE DEF j
    <3> QED BY <1>0, <2>1, <2>2, ConcatProperties
  <2> QED BY <2>2, <2>3, <2>4
<1>4. ASSUME NEW i \in 1..n PROVE f[i] = g[i] /\ g[i] \in Seq(Nat)
  <2>1. i - 1 \in Nat /\ (i - 1) + 1 = i /\ i <= n
    BY <1>0
  <2>2. i - 1 \in T
    <3> HIDE DEF T
    <3> QED BY <1>2, <1>3, <2>1, SetInduction
  <2> QED BY <2>1, <2>2
<1>5. n \in 1..n
  BY <1>0
<1> QED BY <1>1, <1>4, <1>5

(* What a chain holds when bytes are put into its last buffer ...          *)
LEMMA FlattenLast ==
  ASSUME NEW chain \in Chains, NEW more \in Seq(Nat)
  PROVE  LET d == [chain EXCEPT ![Len(chain)] = @ \o more]
         IN  d \in Chains /\ Buffer!FlattenSeq(d) = Buffer!FlattenSeq(chain) \o more
<1> DEFINE n == Len(chain)
           f == Flat(chain)
           x == chain[n] \o more
           d == [chain EXCEPT ![n] = x]
           g == [i \in 1..n |-> IF i = n THEN f[n] \o more ELSE f[i]]
<1>0. n \in Nat \ {0} /\ \A i \in 1..n : chain[i] \in Seq(Nat)
  BY DEF Chains
<1>1. Flattens(chain, f) /\ Buffer!FlattenSeq(chain) = f[n] /\ \A i \in 1..n : f[i] \in Seq(Nat)
  BY FlatFlattens, FlattenIs
<1> HIDE DEF f
<1>2. x \in Seq(Nat) /\ n \in 1..n
  <2>1. n \in 1..n /\ chain[n] \in Seq(Nat)
    BY <1>0
  <2> QED BY <2>1, ConcatProperties
<1>3. /\ d \in Chains /\ Len(d) = n /\ d[n] = x
      /\ \A i \in 1..n : i # n => d[i] = chain[i]
  <2> HIDE DEF x
  <2> QED BY <1>0, <1>2 DEF Chains
<1> HIDE DEF d
<1>4. g[1] = d[1]
  <2>0. 1 \in 1..n /\ f[1] = chain[1]
    BY <1>0, <1>1 DEF Flattens
  <2> HIDE DEF n
  <2>1. CASE n = 1
    BY <1>3, <2>0, <2>1
  <2>2. CASE n # 1
    BY <1>3, <2>0, <2>2
  <2> QED BY <2>1, <2>2
<1>5. ASSUME NEW i \in 2..n PROVE g[i] = g[i - 1] \o d[i]
  <2>1. i \in 1..n /\ i - 1 \in 1..n /\ i - 1 # n
    BY <1>0
  <2>2. f[i] = f[i - 1] \o chain[i] /\ g[i - 1] = f[i - 1]
    BY <1>1, <2>1 DEF Flattens
  <2>3. CASE i = n
    <3>1. (f[i - 1] \o chain[n]) \o more = f[i - 1] \o x
      <4>1. f[i - 1] \in Seq(Nat) /\ chain[n] \in Seq(Nat)
        BY <1>0, <1>1, <1>2, <2>1
      <4> HIDE DEF n
      <4> QED BY <4>1, Joined
    <3> HIDE DEF x
    <3> QED BY <2>1, <2>2, <2>3, <3>1, <1>3
  <2>4. CASE i # n
    BY <2>1, <2>2, <2>4, <1>3
  <2> QED BY <2>3, <2>4
<1>6. Flattens(d, g)
  <2> HIDE DEF g
  <2> QED BY <1>3, <1>4, <1>5 DEF Flattens
<1>7. Buffer!FlattenSeq(d) = g[n]
  <2> HIDE DEF g
  <2> QED BY <1>3, <1>6, FlattenIs
<1>8. g[n] = f[n] \o more
  BY <1>0
<1> HIDE DEF g
<1> QED BY <1>1, <1>3, <1>7, <1>8 DEF d

(* ... when an empty buffer is added ...                                   *)
LEMMA FlattenAppend ==
  ASSUME NEW chain \in Chains
  PROVE  LET d == Append(chain, <<>>)
         IN  d \in Chains /\ Buffer!FlattenSeq(d) = Buffer!FlattenSeq(chain)
<1> DEFINE n == Len(chain)
           f == Flat(chain)
           d == Append(chain, <<>>)
           g == [i \in 1..(n + 1) |-> IF i = n + 1 THEN f[n] ELSE f[i]]
<1>0. n \in Nat \ {0} /\ \A i \in 1..n : chain[i] \in Seq(Nat)
  BY DEF Chains
<1>1. Flattens(chain, f) /\ Buffer!FlattenSeq(chain) = f[n] /\ \A i \in 1..n : f[i] \in Seq(Nat)
  BY FlatFlattens, FlattenIs
<1> HIDE DEF f
<1>3. /\ d \in Chains /\ Len(d) = n + 1 /\ d[n + 1] = <<>>
      /\ \A i \in 1..n : d[i] = chain[i]
  <2>1. <<>> \in Seq(Nat) /\ chain \in Seq(Seq(Nat))
    BY DEF Chains
  <2>2. /\ d \in Seq(Seq(Nat)) /\ Len(d) = n + 1 /\ d[n + 1] = <<>>
        /\ \A i \in 1..n : d[i] = chain[i]
    BY <2>1, AppendProperties
  <2>3. d # <<>>
    <3> HIDE DEF d
    <3> QED BY <1>0, <2>2
  <2> QED BY <2>2, <2>3 DEF Chains
<1> HIDE DEF d
<1>4. g[1] = d[1]
  BY <1>0, <1>1, <1>3 DEF Flattens
<1>5. ASSUME NEW i \in 2..(n + 1) PROVE g[i] = g[i - 1] \o d[i]
  <2>1. i \in 1..(n + 1) /\ i - 1 \in 1..n /\ i - 1 \in 1..(n + 1) /\ i - 1 # n + 1
    BY <1>0
  <2>2. g[i - 1] = f[i - 1]
    BY <2>1
  <2>3. CASE i = n + 1
    <3>1. n \in 1..n /\ i - 1 = n
      BY <1>0, <2>3
    <3>2. f[n] \o <<>> = f[n]
      BY <1>1, <3>1, ConcatEmptySeq
    <3> QED BY <2>1, <2>2, <2>3, <3>1, <3>2, <1>3
  <2>4. CASE i # n + 1
    <3>1. i \in 2..n /\ i \in 1..n
      BY <2>4
    <3>2. f[i] = f[i - 1] \o chain[i]
      BY <1>1, <3>1 DEF Flattens
    <3> QED BY <2>1, <2>2, <2>4, <3>1, <3>2, <1>3
  <2> QED BY <2>3, <2>4
<1>6. Flattens(d, g)
  <2> HIDE DEF g
  <2> QED BY <1>3, <1>4, <1>5 DEF Flattens
<1>7. Buffer!FlattenSeq(d) = g[n + 1]
  <2> HIDE DEF g
  <2> QED BY <1>3, <1>6, FlattenIs
<1>8. g[n + 1] = f[n]
  BY <1>0
<1> HIDE DEF g
<1> QED BY <1>1, <1>3, <1>7, <1>8 DEF d

(* ... when bytes are taken from its first ...                             *)
LEMMA FlattenFirst ==
  ASSUME NEW chain \in Chains, NEW a \in Seq(Nat), NEW b \in Seq(Nat), chain[1] = a \o b
  PROVE  LET d == [chain EXCEPT ![1] = b]
         IN  d \in Chains /\ Buffer!FlattenSeq(chain) = a \o Buffer!FlattenSeq(d)
<1> DEFINE n == Len(chain)
           d == [chain EXCEPT ![1] = b]
           g == Flat(d)
           h == [i \in 1..n |-> a \o g[i]]
<1>0. n \in Nat \ {0} /\ \A i \in 1..n : chain[i] \in Seq(Nat)
  BY DEF Chains
<1>1. /\ d \in Chains /\ Len(d) = n /\ d[1] = b
      /\ \A i \in 1..n : i # 1 => d[i] = chain[i]
  BY <1>0 DEF Chains
<1> HIDE DEF d
<1>2. Flattens(d, g) /\ Buffer!FlattenSeq(d) = g[n] /\ \A i \in 1..n : g[i] \in Seq(Nat)
  BY <1>1, FlatFlattens, FlattenIs
<1> HIDE DEF g
<1>3. h[1] = chain[1]
  <2>1. 1 \in 1..n /\ g[1] = b
    BY <1>0, <1>1, <1>2 DEF Flattens
  <2> QED BY <2>1
<1>4. ASSUME NEW i \in 2..n PROVE h[i] = h[i - 1] \o chain[i]
  <2>1. i \in 1..n /\ i # 1 /\ i - 1 \in 1..n
    BY <1>0
  <2>2. g[i] = g[i - 1] \o chain[i]
    BY <1>1, <1>2, <2>1 DEF Flattens
  <2>3. a \o (g[i - 1] \o chain[i]) = (a \o g[i - 1]) \o chain[i]
    <3>1. g[i - 1] \in Seq(Nat) /\ chain[i] \in Seq(Nat)
      BY <1>0, <1>2, <2>1
    <3> QED BY <3>1, Joined
  <2> QED BY <2>1, <2>2, <2>3
<1>5. Flattens(chain, h)
  <2> HIDE DEF h
  <2> QED BY <1>3, <1>4 DEF Flattens
<1>6. Buffer!FlattenSeq(chain) = h[n]
  <2> HIDE DEF h
  <2> QED BY <1>5, FlattenIs
<1>7. h[n] = a \o g[n]
  BY <1>0
<1> HIDE DEF h
<1> QED BY <1>1, <1>2, <1>6, <1>7 DEF d

(* ... and when the first is empty and goes.                               *)
LEMMA FlattenTail ==
  ASSUME NEW chain \in Chains, chain[1] = <<>>, Len(chain) > 1
  PROVE  Tail(chain) \in Chains /\ Buffer!FlattenSeq(chain) = Buffer!FlattenSeq(Tail(chain))
<1> DEFINE n == Len(chain)
           d == Tail(chain)
           g == Flat(d)
           h == [i \in 1..n |-> IF i = 1 THEN <<>> ELSE g[i - 1]]
<1>0. n \in Nat \ {0, 1} /\ \A i \in 1..n : chain[i] \in Seq(Nat)
  <2>1. chain \in Seq(Seq(Nat)) /\ n > 1
    BY DEF Chains
  <2>2. n \in Nat /\ \A i \in 1..n : chain[i] \in Seq(Nat)
    BY <2>1
  <2> QED BY <2>1, <2>2
<1>1. /\ d \in Chains /\ Len(d) = n - 1
      /\ \A i \in 1..(n - 1) : d[i] = chain[i + 1]
  <2>1. /\ chain \in Seq(Seq(Nat)) /\ chain # <<>>
    BY DEF Chains
  <2>2. /\ d \in Seq(Seq(Nat)) /\ Len(d) = n - 1
        /\ \A i \in 1..(n - 1) : d[i] = chain[i + 1]
    BY <2>1, HeadTailProperties
  <2>3. d # <<>>
    <3> HIDE DEF d
    <3> QED BY <1>0, <2>2
  <2> QED BY <2>2, <2>3 DEF Chains
<1> HIDE DEF d
<1>2. Flattens(d, g) /\ Buffer!FlattenSeq(d) = g[n - 1] /\ \A i \in 1..(n - 1) : g[i] \in Seq(Nat)
  BY <1>1, FlatFlattens, FlattenIs
<1> HIDE DEF g
<1>3. h[1] = chain[1]
  BY <1>0
<1>4. ASSUME NEW i \in 2..n PROVE h[i] = h[i - 1] \o chain[i]
  <2>1. i \in 1..n /\ i # 1 /\ i - 1 \in 1..n /\ i - 1 \in 1..(n - 1) /\ (i - 1) + 1 = i
    BY <1>0
  <2>2. d[i - 1] = chain[i]
    BY <1>1, <2>1
  <2>3. CASE i = 2
    <3>1. g[1] = chain[2] /\ chain[2] \in Seq(Nat)
      BY <1>0, <1>2, <2>1, <2>2, <2>3 DEF Flattens
    <3>2. <<>> \o chain[2] = chain[2]
      BY <3>1, ConcatEmptySeq
    <3> QED BY <1>0, <2>1, <2>3, <3>1, <3>2
  <2>4. CASE i # 2
    <3>1. i - 1 \in 2..(n - 1) /\ i - 1 # 1
      BY <1>0, <2>1, <2>4
    <3>2. g[i - 1] = g[(i - 1) - 1] \o d[i - 1]
      BY <1>1, <1>2, <3>1 DEF Flattens
    <3> QED BY <2>1, <2>2, <3>1, <3>2
  <2> QED BY <2>3, <2>4
<1>5. Flattens(chain, h)
  <2> HIDE DEF h
  <2> QED BY <1>3, <1>4 DEF Flattens
<1>6. Buffer!FlattenSeq(chain) = h[n]
  <2> HIDE DEF h
  <2> QED BY <1>5, FlattenIs
<1>7. h[n] = g[n - 1]
  BY <1>0
<1> HIDE DEF h
<1> QED BY <1>1, <1>2, <1>6, <1>7 DEF d

-------------------------------------------------------------------------------
(* What the program writes.                                                *)
Writer == [chain : Chains, out : Seq(Nat), flight : Nat, written : Nat, repeated : BOOLEAN]

Filled(chain) == \A i \in 1..Len(chain) : Len(chain[i]) <= Mss

(* What lwIP took and what is left is what was written.                    *)
InOrder(out, chain, n) == out \o Buffer!FlattenSeq(chain) = Buffer!UpTo(n)

InPlace(t) ==
  /\ t \in Writer /\ t.flight <= BufferRoom
  /\ Filled(t.chain)
  /\ t.repeated \/ InOrder(t.out, t.chain, t.written)

LEMMA FlattenType ==
  ASSUME NEW chain \in Chains
  PROVE  Buffer!FlattenSeq(chain) \in Seq(Nat)
<1>1. Len(chain) \in 1..Len(chain)
  BY DEF Chains
<1> QED BY <1>1, FlatFlattens, FlattenIs

LEMMA MoreUpTo ==
  ASSUME NEW m \in Nat, NEW n \in Nat
  PROVE  LET more == [i \in 1..n |-> m + i]
         IN  /\ more \in Seq(Nat) /\ Len(more) = n
             /\ Buffer!UpTo(m) \in Seq(Nat)
             /\ Buffer!UpTo(m) \o more = Buffer!UpTo(m + n)
<1> DEFINE more == [i \in 1..n |-> m + i]
           u    == Buffer!UpTo(m)
           v    == Buffer!UpTo(m + n)
<1>1. more \in Seq(Nat) /\ Len(more) = n
  OBVIOUS
<1>2. u \in Seq(Nat) /\ Len(u) = m /\ \A i \in 1..m : u[i] = i
  BY DEF Buffer!UpTo
<1>3. v \in Seq(Nat) /\ Len(v) = m + n /\ \A i \in 1..(m + n) : v[i] = i
  BY DEF Buffer!UpTo
<1>4. \A i \in 1..n : more[i] = m + i
  OBVIOUS
<1> HIDE DEF more, u, v
<1>5. /\ u \o more \in Seq(Nat) /\ Len(u \o more) = m + n
      /\ \A i \in 1..(m + n) : (u \o more)[i] = IF i <= m THEN u[i] ELSE more[i - m]
  BY <1>1, <1>2, ConcatProperties
<1>6. ASSUME NEW i \in 1..(m + n) PROVE (u \o more)[i] = v[i]
  <2>1. CASE i <= m
    BY <1>2, <1>3, <1>5, <2>1
  <2>2. CASE ~(i <= m)
    <3>1. i - m \in 1..n /\ m + (i - m) = i
      BY <2>2
    <3> QED BY <1>3, <1>4, <1>5, <2>2, <3>1
  <2> QED BY <2>1, <2>2
<1>7. u \o more = v
  BY <1>3, <1>5, <1>6, SeqEqual
<1> QED BY <1>1, <1>2, <1>7 DEF more, u, v

LEMMA Removes ==
  ASSUME NEW chain \in Chains, Filled(chain), NEW n \in 0..Len(chain[1])
  PROVE  LET d == Buffer!removed(chain, n)
         IN  /\ d \in Chains /\ Filled(d)
             /\ Buffer!FlattenSeq(chain) = Buffer!First(chain[1], n) \o Buffer!FlattenSeq(d)
<1> DEFINE first == Buffer!First(chain[1], n)
           front == Buffer!Beyond(chain[1], n)
           d     == [chain EXCEPT ![1] = front]
<1>0. Len(chain) \in Nat \ {0} /\ chain[1] \in Seq(Nat) /\ chain \in Seq(Seq(Nat))
  BY DEF Chains
<1>1. /\ first \in Seq(Nat) /\ front \in Seq(Nat) /\ chain[1] = first \o front
      /\ Len(front) = Len(chain[1]) - n
  BY <1>0, Cut
<1> HIDE DEF first, front
<1>2. d \in Chains /\ Buffer!FlattenSeq(chain) = first \o Buffer!FlattenSeq(d)
  BY <1>1, FlattenFirst
<1>3. Len(d) = Len(chain) /\ \A i \in 1..Len(chain) : d[i] = IF i = 1 THEN front ELSE chain[i]
  BY <1>0
<1> HIDE DEF d
<1>4. Filled(d)
  <2> SUFFICES ASSUME NEW i \in 1..Len(chain) PROVE Len(d[i]) <= Mss
    BY <1>3 DEF Filled
  <2>1. Len(chain[1]) \in Nat /\ n \in Nat /\ Mss \in Nat /\ Len(chain[1]) <= Mss
    BY <1>0, BufferAssumption DEF Filled
  <2>2. Len(front) <= Mss
    BY <1>1, <2>1
  <2> QED BY <1>3, <2>2 DEF Filled
<1>5. CASE front = <<>> /\ Len(chain) > 1
  <2>1. d[1] = <<>> /\ Len(d) > 1 /\ d \in Seq(Seq(Nat)) /\ d # <<>>
    BY <1>0, <1>2, <1>3, <1>5 DEF Chains
  <2>2. Tail(d) \in Chains /\ Buffer!FlattenSeq(d) = Buffer!FlattenSeq(Tail(d))
    BY <1>2, <2>1, FlattenTail
  <2>3. /\ Tail(d) \in Seq(Seq(Nat)) /\ Len(Tail(d)) = Len(d) - 1
        /\ \A i \in 1..(Len(d) - 1) : Tail(d)[i] = d[i + 1]
    BY <2>1, HeadTailProperties
  <2>4. /\ Tail(chain) \in Seq(Seq(Nat)) /\ Len(Tail(chain)) = Len(chain) - 1
        /\ \A i \in 1..(Len(chain) - 1) : Tail(chain)[i] = chain[i + 1]
    BY <1>0, HeadTailProperties DEF Chains
  <2>5. \A i \in 1..(Len(chain) - 1) : i + 1 \in 1..Len(chain) /\ i + 1 # 1
    BY <1>0
  <2>6. \A i \in 1..Len(Tail(d)) : Tail(d)[i] = Tail(chain)[i]
    BY <1>3, <2>3, <2>4, <2>5
  <2>7. Tail(d) = Tail(chain)
    BY SMTT(20), <1>3, <2>3, <2>4, <2>6, SeqEqual
  <2>8. Filled(Tail(d))
    BY <1>3, <1>4, <2>3, <2>5 DEF Filled
  <2>9. Buffer!removed(chain, n) = Tail(d)
    BY <1>5, <2>7 DEF Buffer!removed, front
  <2> QED BY <1>2, <2>2, <2>8, <2>9 DEF first
<1>6. CASE ~(front = <<>> /\ Len(chain) > 1)
  <2>1. Buffer!removed(chain, n) = d
    BY <1>6 DEF Buffer!removed, front, d
  <2> QED BY <1>2, <1>4, <2>1 DEF first
<1> QED BY <1>5, <1>6

(* _sendBuffer sends the front of the chain.                               *)
LEMMA SendKeeps ==
  ASSUME NEW t, InPlace(t), NEW fault
  PROVE  InPlace(Buffer!sendBuffer(t, fault))
<1> DEFINE chain == t.chain
           n     == Buffer!Min({Len(chain[1]), BufferRoom - t.flight})
           bytes == Buffer!First(chain[1], n)
           d     == Buffer!removed(chain, n)
           u     == [t EXCEPT !.out = @ \o bytes, !.flight = @ + n, !.repeated = TRUE]
           v     == [t EXCEPT !.out = @ \o bytes, !.flight = @ + n, !.chain = d]
<1>0. /\ chain \in Chains /\ chain[1] \in Seq(Nat) /\ Len(chain[1]) \in Nat
      /\ t \in Writer /\ t.out \in Seq(Nat) /\ t.flight \in Nat /\ t.flight <= BufferRoom
      /\ Filled(chain)
  BY DEF InPlace, Writer, Chains
<1>1. BufferRoom - t.flight \in Nat /\ BufferRoom \in Nat
  BY <1>0, BufferAssumption
<1> HIDE DEF chain
<1>2. n \in 0..Len(chain[1]) /\ n \in Nat /\ t.flight + n <= BufferRoom
  <2>1. n \in Nat /\ n <= Len(chain[1]) /\ n <= BufferRoom - t.flight
    BY <1>0, <1>1, Least
  <2> HIDE DEF n
  <2> QED BY <1>0, <1>1, <2>1
<1>3. Buffer!sendBuffer(t, fault) \in {t, u, v}
  BY DEF Buffer!sendBuffer, Buffer!space, chain
<1> HIDE DEF n
<1>4. bytes \in Seq(Nat)
  BY <1>0, <1>2, Cut
<1>5. d \in Chains /\ Filled(d) /\ Buffer!FlattenSeq(chain) = bytes \o Buffer!FlattenSeq(d)
  BY <1>0, <1>2, Removes
<1> HIDE DEF bytes, d
<1>6. t.out \o bytes \in Seq(Nat) /\ t.flight + n \in Nat
  BY <1>0, <1>2, <1>4, ConcatProperties
<1>7. InPlace(u)
  <2>1. u \in Writer /\ u.flight = t.flight + n /\ u.chain = chain /\ u.repeated
    BY <1>0, <1>6 DEF Writer, chain
  <2> QED BY <1>0, <1>2, <2>1 DEF InPlace
<1>8. InPlace(v)
  <2>1. /\ v \in Writer /\ v.flight = t.flight + n /\ v.chain = d
        /\ v.repeated = t.repeated /\ v.out = t.out \o bytes /\ v.written = t.written
    BY <1>0, <1>5, <1>6 DEF Writer
  <2>2. (t.out \o bytes) \o Buffer!FlattenSeq(d) = t.out \o Buffer!FlattenSeq(chain)
    <3>1. Buffer!FlattenSeq(d) \in Seq(Nat)
      BY <1>5, FlattenType
    <3>2. (t.out \o bytes) \o Buffer!FlattenSeq(d) = t.out \o (bytes \o Buffer!FlattenSeq(d))
      BY <1>0, <1>4, <3>1, Joined
    <3> QED BY <1>5, <3>2
  <2>3. v.repeated \/ InOrder(v.out, v.chain, v.written)
    BY <2>1, <2>2 DEF InPlace, InOrder, chain
  <2> HIDE DEF v
  <2> QED BY <1>2, <1>5, <2>1, <2>3 DEF InPlace
<1> QED BY <1>3, <1>7, <1>8

Writing(x) == InPlace(x.t) /\ x.left \in Nat

LEMMA WriteTurnKeeps ==
  ASSUME NEW x, Writing(x), NEW heap, NEW fault
  PROVE  Writing(Buffer!writeTurn(x, heap, fault))
<1> DEFINE t     == x.t
           chain == t.chain
           last  == Len(chain)
           w     == Buffer!Min({x.left, Mss - Len(chain[last])})
           more  == [i \in 1..w |-> t.written + i]
           d     == [chain EXCEPT ![last] = @ \o more]
           filled == [t EXCEPT !.chain[last] = @ \o more, !.written = @ + w]
           u     == Buffer!sendBuffer(filled, fault)
           e     == [u EXCEPT !.chain = Append(@, <<>>)]
           y     == Buffer!writeTurn(x, heap, fault)
<1>0. /\ t \in Writer /\ chain \in Chains /\ last \in 1..last /\ chain[last] \in Seq(Nat)
      /\ t.out \in Seq(Nat) /\ t.written \in Nat /\ Filled(chain) /\ x.left \in Nat
      /\ last \in Nat \ {0}
  BY DEF Writing, InPlace, Writer, Chains
<1>1. y.t \in {t, u, e} /\ y.left \in {x.left, x.left - w}
  BY DEF Buffer!writeTurn
<1> HIDE DEF y, u
<1>2. w \in Nat /\ w <= x.left /\ Len(chain[last]) + w <= Mss
  <2>1. Len(chain[last]) \in Nat /\ Len(chain[last]) <= Mss /\ Mss \in Nat
    <3>1. Len(chain[last]) \in Nat
      <4> HIDE DEF last, chain
      <4> QED BY <1>0
    <3>2. Len(chain[last]) <= Mss
      <4> HIDE DEF chain
      <4> QED BY <1>0 DEF Filled, last
    <3> QED BY <3>1, <3>2, BufferAssumption
  <2>2. Mss - Len(chain[last]) \in Nat
    <3> HIDE DEF last, chain
    <3> QED BY <2>1
  <2> HIDE DEF last, chain
  <2>3. w \in Nat /\ w <= x.left /\ w <= Mss - Len(chain[last])
    BY <1>0, <2>2, Least
  <2> HIDE DEF w
  <2> QED BY <2>1, <2>3
<1> HIDE DEF w
<1>3. /\ more \in Seq(Nat) /\ Len(more) = w /\ Buffer!UpTo(t.written) \in Seq(Nat)
      /\ Buffer!UpTo(t.written) \o more = Buffer!UpTo(t.written + w)
  <2> HIDE DEF t
  <2> QED BY <1>0, <1>2, MoreUpTo
<1> HIDE DEF more
<1>4. d \in Chains /\ Buffer!FlattenSeq(d) = Buffer!FlattenSeq(chain) \o more
  <2> HIDE DEF chain
  <2> QED BY <1>0, <1>3, FlattenLast DEF last
<1>5. filled = [t EXCEPT !.chain = d, !.written = t.written + w]
  BY <1>0 DEF Writer
<1>6. Filled(d)
  <2>1. Len(chain[last] \o more) = Len(chain[last]) + w
    <3> HIDE DEF last, chain
    <3> QED BY <1>0, <1>3, ConcatProperties
  <2>2. /\ chain \in Seq(Seq(Nat))
        /\ Len(d) = last
        /\ \A i \in 1..last : d[i] = IF i = last THEN chain[last] \o more ELSE chain[i]
    <3>1. chain \in Seq(Seq(Nat))
      BY <1>0 DEF Chains
    <3> HIDE DEF chain
    <3> QED BY <3>1
  <2> HIDE DEF d, last, chain
  <2> QED BY <1>0, <1>2, <2>1, <2>2 DEF Filled, last
<1> HIDE DEF filled, d
<1>7. InPlace(filled)
  <2>1. /\ filled \in Writer /\ filled.chain = d /\ filled.written = t.written + w
        /\ filled.out = t.out /\ filled.flight = t.flight /\ filled.repeated = t.repeated
    <3>1. t.written + w \in Nat
      BY <1>0, <1>2
    <3> HIDE DEF t
    <3> QED BY <3>1, <1>0, <1>4, <1>5 DEF Writer
  <2>2. t.repeated \/ t.out \o Buffer!FlattenSeq(d) = Buffer!UpTo(t.written + w)
    <3>1. t.out \o (Buffer!FlattenSeq(chain) \o more) = (t.out \o Buffer!FlattenSeq(chain)) \o more
      BY <1>0, <1>3, FlattenType, Joined
    <3>2. t.repeated \/ t.out \o Buffer!FlattenSeq(chain) = Buffer!UpTo(t.written)
      BY DEF Writing, InPlace, InOrder
    <3> HIDE DEF t, chain
    <3> QED BY <3>1, <3>2, <1>3, <1>4
  <2>3. t.flight <= BufferRoom
    BY DEF Writing, InPlace
  <2> HIDE DEF t
  <2> QED BY <2>1, <2>2, <2>3, <1>6 DEF InPlace, InOrder
<1>8. InPlace(u)
  BY <1>7, SendKeeps DEF u
<1>9. InPlace(e)
  <2> DEFINE longer == Append(u.chain, <<>>)
  <2>1. u \in Writer /\ u.chain \in Chains /\ Filled(u.chain)
    BY <1>8 DEF InPlace, Writer
  <2>2. longer \in Chains /\ Buffer!FlattenSeq(longer) = Buffer!FlattenSeq(u.chain)
    BY <2>1, FlattenAppend
  <2>3. Filled(longer)
    <3>1. u.chain \in Seq(Seq(Nat)) /\ <<>> \in Seq(Nat) /\ Mss \in Nat /\ Len(u.chain) \in Nat
      BY <2>1, BufferAssumption DEF Chains
    <3>2. /\ Len(longer) = Len(u.chain) + 1 /\ longer[Len(u.chain) + 1] = <<>>
          /\ \A i \in 1..Len(u.chain) : longer[i] = u.chain[i]
      BY <3>1, AppendProperties
    <3> HIDE DEF longer
    <3>3. ASSUME NEW i \in 1..Len(longer) PROVE Len(longer[i]) <= Mss
      <4>1. CASE i = Len(u.chain) + 1
        BY <3>1, <3>2, <4>1
      <4>2. CASE i # Len(u.chain) + 1
        <5>1. i \in 1..Len(u.chain)
          BY <3>1, <3>2, <4>2
        <5> QED BY <2>1, <3>2, <5>1 DEF Filled
      <4> QED BY <4>1, <4>2
    <3> QED BY <3>3 DEF Filled
  <2>4. e = [u EXCEPT !.chain = longer]
    OBVIOUS
  <2> HIDE DEF longer, e
  <2>5. /\ e \in Writer /\ e.chain = longer /\ e.flight = u.flight /\ e.out = u.out
        /\ e.written = u.written /\ e.repeated = u.repeated
    BY <2>1, <2>2, <2>4 DEF Writer
  <2> QED BY <1>8, <2>2, <2>3, <2>5 DEF InPlace, InOrder
<1> HIDE DEF e
<1>10. x.left - w \in Nat
  BY <1>0, <1>2
<1>11. InPlace(t)
  BY DEF Writing
<1> HIDE DEF t
<1> QED BY <1>0, <1>1, <1>8, <1>9, <1>10, <1>11 DEF Writing, y

-------------------------------------------------------------------------------
(* The loop of write().                                                    *)
IsWritten(t, n, heap, fault, m, turn) ==
  turn = [k \in 0..m |-> IF k = 0 THEN [t |-> t, left |-> n, on |-> TRUE]
                         ELSE Buffer!writeTurn(turn[k - 1], heap, fault)]
WriteTurns(t, n, heap, fault) == CHOOSE turn : IsWritten(t, n, heap, fault, n + 1, turn)

LEMMA WrittenIsDefined ==
  ASSUME NEW t0, NEW n, NEW heap, NEW fault, NEW m \in Nat
  PROVE  \E turn : IsWritten(t0, n, heap, fault, m, turn)
<1> DEFINE first == [t |-> t0, left |-> n, on |-> TRUE]
           T == {l \in Nat : \E turn : IsWritten(t0, n, heap, fault, l, turn)}
<1>1. 0 \in T
  <2> DEFINE t == [k \in 0..0 |-> first]
  <2>1. IsWritten(t0, n, heap, fault, 0, t)
    BY DEF IsWritten
  <2> QED BY <2>1
<1>2. ASSUME NEW l \in Nat, l \in T PROVE l + 1 \in T
  <2>1. PICK t : IsWritten(t0, n, heap, fault, l, t)
    BY <1>2
  <2> DEFINE u == [k \in 0..(l + 1) |-> IF k = l + 1 THEN Buffer!writeTurn(t[l], heap, fault) ELSE t[k]]
             v == [k \in 0..(l + 1) |-> IF k = 0 THEN first ELSE Buffer!writeTurn(u[k - 1], heap, fault)]
  <2>2. ASSUME NEW k \in 0..(l + 1) PROVE u[k] = v[k]
    <3>1. CASE k = l + 1
      <4>1. k # 0 /\ k - 1 = l /\ l \in 0..(l + 1) /\ l # l + 1
        BY <3>1
      <4> QED BY <3>1, <4>1
    <3>2. CASE k # l + 1
      <4>1. k \in 0..l
        BY <3>2
      <4>2. t[k] = IF k = 0 THEN first ELSE Buffer!writeTurn(t[k - 1], heap, fault)
        BY <2>1, <4>1 DEF IsWritten
      <4>3. k # 0 => k - 1 \in 0..(l + 1) /\ k - 1 # l + 1
        BY <4>1
      <4> QED BY <3>2, <4>2, <4>3
    <3> QED BY <3>1, <3>2
  <2>3. u = v
    BY <2>2
  <2>4. IsWritten(t0, n, heap, fault, l + 1, u)
    BY <2>3 DEF IsWritten
  <2> QED BY <2>4
<1>3. m \in T
  <2> HIDE DEF T
  <2> QED BY <1>1, <1>2, SetInduction
<1> QED BY <1>3

LEMMA WrittenKeeps ==
  ASSUME NEW t0, InPlace(t0), NEW n \in Nat, NEW heap, NEW fault
  PROVE  InPlace(Buffer!written(t0, n, heap, fault))
<1> DEFINE m == n + 1
           t == WriteTurns(t0, n, heap, fault)
<1>1. Buffer!written(t0, n, heap, fault) = t[m].t
  BY DEF Buffer!written, WriteTurns, IsWritten
<1>2. m \in Nat
  OBVIOUS
<1>3. IsWritten(t0, n, heap, fault, m, t)
  BY <1>2, WrittenIsDefined DEF WriteTurns
<1> HIDE DEF t, m
<1>4. /\ t[0] = [t |-> t0, left |-> n, on |-> TRUE]
      /\ \A k \in 1..m : t[k] = Buffer!writeTurn(t[k - 1], heap, fault)
  <2>1. 0 \in 0..m /\ \A k \in 1..m : k \in 0..m /\ k # 0
    BY <1>2
  <2> QED BY <1>3, <2>1 DEF IsWritten
<1> DEFINE T == {k \in Nat : k <= m => Writing(t[k])}
<1>5. 0 \in T
  BY <1>4 DEF Writing
<1>6. ASSUME NEW k \in Nat, k \in T PROVE k + 1 \in T
  <2> SUFFICES ASSUME k + 1 <= m PROVE Writing(t[k + 1])
    OBVIOUS
  <2>1. k <= m /\ k + 1 \in 1..m /\ (k + 1) - 1 = k
    BY <1>2
  <2>2. Writing(t[k])
    BY <1>6, <2>1
  <2>3. t[k + 1] = Buffer!writeTurn(t[k], heap, fault)
    BY <1>4, <2>1
  <2> QED BY <2>2, <2>3, WriteTurnKeeps
<1>7. m \in T
  <2> HIDE DEF T
  <2> QED BY <1>2, <1>5, <1>6, SetInduction
<1> QED BY <1>1, <1>2, <1>7 DEF Writing

-------------------------------------------------------------------------------
(* The invariant of the buffered client.                                   *)
BufferInv ==
  /\ rx \in Reader /\ rx.given \o rx.buffer = Buffer!UpTo(rx.received)
  /\ InPlace(tx)
  /\ stream \in {"open", "closing", "gone"}

LEMMA BufferBegins == Buffer!Init => BufferInv
<1> SUFFICES ASSUME Buffer!Init PROVE BufferInv
  OBVIOUS
<1> DEFINE chain == << <<>> >>
<1>1. <<>> \in Seq(Nat) /\ <<>> \o <<>> = <<>> /\ Buffer!UpTo(0) = <<>>
  BY DEF Buffer!UpTo
<1>2. rx \in Reader /\ rx.given = <<>> /\ rx.buffer = <<>> /\ rx.received = 0
  BY <1>1 DEF Buffer!Init, Reader
<1>3. chain \in Chains /\ Len(chain) = 1 /\ chain[1] = <<>>
  BY <1>1 DEF Chains
<1>4. Buffer!FlattenSeq(chain) = <<>>
  <2> HIDE DEF chain
  <2> QED BY <1>3, FlatFlattens DEF Flattens
<1>5. Filled(chain)
  <2>1. Len(<<>>) = 0 /\ 0 <= Mss
    BY BufferAssumption
  <2> HIDE DEF chain
  <2> QED BY <1>3, <2>1 DEF Filled
<1>6. /\ tx \in Writer /\ tx.chain = chain /\ tx.out = <<>> /\ tx.flight = 0 /\ tx.written = 0
  <2>1. tx = [chain |-> chain, out |-> <<>>, flight |-> 0, written |-> 0, repeated |-> FALSE]
    BY DEF Buffer!Init
  <2> HIDE DEF chain
  <2> QED BY <1>1, <1>3, <2>1 DEF Writer
<1> HIDE DEF chain
<1>7. InPlace(tx)
  BY <1>1, <1>4, <1>5, <1>6, BufferAssumption DEF InPlace, InOrder
<1> QED BY <1>1, <1>2, <1>7 DEF BufferInv, Buffer!Init

LEMMA DataInv ==
  ASSUME BufferInv, NEW n \in 1..MaxSegment, NEW p \in Buffer!Programs, Buffer!Data(n, p)
  PROVE  BufferInv'
<1> DEFINE s   == [rx EXCEPT !.received = @ + n]
           buf == [i \in 1..n |-> rx.received + i]
<1>0. n \in Nat /\ rx \in Reader /\ rx.received \in Nat
  BY DEF BufferInv, Reader
<1>1. /\ buf \in Seq(Nat) /\ Buffer!UpTo(rx.received) \o buf = Buffer!UpTo(rx.received + n)
  BY <1>0, MoreUpTo
<1>2. /\ s \in Reader /\ s.given = rx.given /\ s.buffer = rx.buffer
      /\ s.received = rx.received + n
  <2>1. rx.received + n \in Nat
    BY <1>0
  <2> QED BY <1>0, <2>1 DEF Reader
<1>3. rx' = Buffer!rxData(s, buf, p)
  BY DEF Buffer!Data
<1> HIDE DEF s, buf
<1>4. Whole(s, buf) = Buffer!UpTo(rx.received + n)
  BY <1>1, <1>2 DEF Whole, BufferInv
<1>5. rx' \in Reader /\ rx'.received = s.received /\ rx'.given \o rx'.buffer = Whole(s, buf)
  BY <1>1, <1>2, <1>3, RxDataKeeps
<1> QED BY <1>2, <1>4, <1>5 DEF BufferInv, Buffer!Data

LEMMA AskInv ==
  ASSUME BufferInv, NEW q \in Buffer!Requests, rx' = Buffer!request(rx, q), UNCHANGED tx,
         stream' \in {"open", "closing", "gone"}
  PROVE  BufferInv'
<1>1. Same(rx, rx')
  BY Asks DEF BufferInv
<1> QED BY <1>1 DEF BufferInv, Same

LEMMA SendInv ==
  ASSUME BufferInv, InPlace(tx'), UNCHANGED <<rx, stream>>
  PROVE  BufferInv'
BY DEF BufferInv

LEMMA AckInv ==
  ASSUME BufferInv, NEW fault, Buffer!Ack(fault)
  PROVE  BufferInv'
<1> DEFINE t == [tx EXCEPT !.flight = 0]
<1>1. /\ t \in Writer /\ t.flight = 0 /\ t.chain = tx.chain /\ t.out = tx.out
      /\ t.repeated = tx.repeated /\ t.written = tx.written
  BY DEF BufferInv, InPlace, Writer
<1>2. tx' = Buffer!sendBuffer(t, fault)
  BY DEF Buffer!Ack
<1> HIDE DEF t
<1>3. InPlace(t)
  BY <1>1, BufferAssumption DEF BufferInv, InPlace
<1> QED BY <1>2, <1>3, SendKeeps, SendInv DEF Buffer!Ack

LEMMA BufferStep == BufferInv /\ [Buffer!Next]_(Buffer!vars) => BufferInv'
<1> SUFFICES ASSUME BufferInv, [Buffer!Next]_(Buffer!vars) PROVE BufferInv'
  OBVIOUS
<1>0. InPlace(tx) /\ stream \in {"open", "closing", "gone"}
  BY DEF BufferInv
<1>1. ASSUME NEW n \in 1..MaxSegment, NEW p \in Buffer!Programs, Buffer!Data(n, p)
      PROVE  BufferInv'
  BY <1>1, DataInv
<1>2. ASSUME NEW q \in Buffer!Requests, Buffer!Request(q)
      PROVE  BufferInv'
  BY <1>0, <1>2, AskInv DEF Buffer!Request
<1>3. ASSUME NEW n \in 1..MaxTx, NEW heap \in BOOLEAN, NEW fault \in Buffer!Faults,
             Buffer!Write(n, heap, fault)
      PROVE  BufferInv'
  <2>1. n \in Nat
    OBVIOUS
  <2>2. InPlace(tx')
    BY <1>0, <1>3, <2>1, WrittenKeeps DEF Buffer!Write
  <2> QED BY <1>3, <2>2, SendInv DEF Buffer!Write
<1>4. ASSUME NEW fault \in Buffer!Faults, Buffer!Ack(fault)
      PROVE  BufferInv'
  BY <1>4, AckInv
<1>5. ASSUME NEW fault \in Buffer!Faults, Buffer!Poll(fault)
      PROVE  BufferInv'
  BY <1>0, <1>5, SendKeeps, SendInv DEF Buffer!Poll
<1>6. CASE Buffer!Stop
  <2> DEFINE q == [mode |-> "none", size |-> 0]
  <2>1. q \in Buffer!Requests
    BY DEF Buffer!Requests
  <2>2. rx' = Buffer!request(rx, q) /\ UNCHANGED tx /\ stream' = "closing"
    BY <1>6 DEF Buffer!Stop
  <2> HIDE DEF q
  <2> QED BY <2>1, <2>2, AskInv
<1>7. CASE Buffer!Disconnect
  BY <1>7 DEF Buffer!Disconnect, BufferInv
<1>8. CASE UNCHANGED Buffer!vars
  BY <1>8 DEF Buffer!vars, BufferInv
<1> QED BY <1>1, <1>2, <1>3, <1>4, <1>5, <1>6, <1>7, <1>8 DEF Buffer!Next

(* A step of the other libraries leaves the buffer alone.                  *)
LEMMA BufferOrStutter == [MCNext]_MCvars => [Buffer!Next]_(Buffer!vars)
BY DEF MCNext, OfClient, OfTask, OfBuffer, MCvars, bufferVars, Buffer!vars

(* The invariant of the buffered client: what was received is what the     *)
(* program was given and what waits, and what was written is what lwIP     *)
(* took and what the chain holds.                                          *)
THEOREM BufferInvariant == MCSpec => []BufferInv
<1>1. MCInit => BufferInv
  BY BufferBegins DEF MCInit
<1>2. BufferInv /\ [MCNext]_MCvars => BufferInv'
  BY BufferOrStutter, BufferStep
<1> QED
  BY <1>1, <1>2, PTL DEF MCSpec

(* The program is given every byte once and in order, in whatever modes it *)
(* reads and however the stream is cut, and what it writes reaches lwIP    *)
(* so, unless tcp_output() failed.                                         *)
THEOREM EveryByteInOrder == MCSpec => []BytesInOrder
<1>1. BufferInv => BytesInOrder
  BY DEF BufferInv, InPlace, InOrder, BytesInOrder, Buffer!BytesInOrder
<1> QED
  BY <1>1, BufferInvariant, PTL
===============================================================================
