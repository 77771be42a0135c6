---------------------------- MODULE EspMqttProofs ----------------------------
(***************************************************************************)
(* Proofs of the safety properties of the ESPMQTT build: of EspReconnect,  *)
(* for every width of millis() and every interval between two attempts,    *)
(* and of EspCommands, for any targets, values and number of commands.     *)
(***************************************************************************)
EXTENDS MCEspMqtt, Sequences, TLAPS

(* The time between two readings of millis(), without the modulus.         *)
LEMMA SinceUnfolded ==
  ASSUME NEW n \in 0..(Wrap - 1), NEW t \in 0..(Wrap - 1)
  PROVE  (n - t) % Wrap = IF n >= t THEN n - t ELSE n - t + Wrap
<1>1. Wrap \in Nat \ {0}
  BY TimesAssumption
<1>2. CASE n >= t
  BY <1>1, <1>2, SMT
<1>3. CASE n < t
  BY <1>1, <1>3, SMT
<1> QED
  BY <1>2, <1>3

(* The next reading of millis(), without the modulus.                       *)
LEMMA TickUnfolded ==
  ASSUME NEW n \in 0..(Wrap - 1)
  PROVE  (n + 1) % Wrap = IF n = Wrap - 1 THEN 0 ELSE n + 1
<1>1. Wrap \in Nat \ {0}
  BY TimesAssumption
<1> QED
  BY <1>1, SMT

-------------------------------------------------------------------------------
(* Up to the interval the firmware's clock measures the time since the     *)
(* loss; after it, it may measure anything.                                *)
ClockInv ==
  reconnectMqtt /\ sinceLoss <= mqttTryReconnectInterval =>
    Since(lastReconnectTry) = sinceLoss

(* The type invariant in two parts, numbers and flags.                     *)
TimesOK ==
  /\ now \in 0..(Wrap - 1) /\ lastReconnectTry \in 0..(Wrap - 1)
  /\ lag \in 0..StepTime
  /\ sinceLoss \in 0..Long

FlagsOK ==
  /\ reconnectMqtt \in BOOLEAN
  /\ client \in {"disconnected", "connecting", "connected"}
  /\ alive \in BOOLEAN /\ wifi \in BOOLEAN /\ calm \in BOOLEAN /\ blind \in BOOLEAN

(* The two parts are the type invariant.                                   *)
LEMMA TypeParts == TypeOK <=> TimesOK /\ FlagsOK
BY DEF TypeOK, TimesOK, FlagsOK

IInv == TypeOK /\ ArmedOnlyWhenDown /\ StrandedOnlyBlind /\ ClockInv

(* A loss that arms the reconnect starts the clock.                        *)
LEMMA ArmStartsClock ==
  ASSUME IInv, Arm, UNCHANGED now
  PROVE  /\ reconnectMqtt' /\ lastReconnectTry' \in 0..(Wrap - 1)
         /\ sinceLoss' \in 0..Long
         /\ ClockInv'
<1>1. now \in 0..(Wrap - 1) /\ Wrap \in Nat \ {0} /\ mqttTryReconnectInterval \in Nat
  BY TimesAssumption DEF IInv, TypeOK
<1>2. (now - now) % Wrap = 0
  BY <1>1, SinceUnfolded
<1> QED
  BY <1>1, <1>2 DEF Arm, ClockInv, Since, Long

(* A step that leaves the flag, the times and the clock alone.             *)
LEMMA ClockUntouched ==
  ASSUME ClockInv, UNCHANGED <<now, member, sinceLoss>>
  PROVE  ClockInv'
BY DEF ClockInv, Since, member

(* The initial states satisfy the invariant.                               *)
LEMMA InitInv == Init => IInv
<1> SUFFICES ASSUME Init PROVE IInv
  OBVIOUS
<1>1. Wrap \in Nat \ {0} /\ mqttTryReconnectInterval \in Nat /\ StepTime \in Nat
  BY TimesAssumption
<1>2. TypeOK
  <2>1. TimesOK
    BY <1>1 DEF Init, TimesOK, Long
  <2>2. FlagsOK
    BY DEF Init, FlagsOK
  <2> QED
    BY <2>1, <2>2, TypeParts
<1>3. ArmedOnlyWhenDown /\ StrandedOnlyBlind
  BY DEF Init, ArmedOnlyWhenDown, StrandedOnlyBlind, Stranded
<1>4. (0 - 0) % Wrap = 0
  BY <1>1, SinceUnfolded
<1>5. ClockInv
  BY <1>1, <1>4 DEF Init, ClockInv, Since, Long
<1> QED
  BY <1>2, <1>3, <1>5 DEF IInv

(* Every step, of the firmware or of its environment, preserves it.        *)
LEMMA NextInv == IInv /\ [Next]_vars => IInv'
<1> SUFFICES ASSUME IInv, [Next]_vars PROVE IInv'
  OBVIOUS
<1> USE DEF IInv
<1>0. Wrap \in Nat \ {0} /\ mqttTryReconnectInterval \in Nat /\ StepTime \in Nat
  BY TimesAssumption
<1>1. CASE Retry
  <2>1. CASE connect!1
    <3>1. TimesOK'
      BY <1>1, <2>1, <1>0, TypeParts DEF Retry, TimesOK
    <3>2. FlagsOK'
      BY <1>1, <2>1, TypeParts DEF Retry, FlagsOK, armedAfterConnect
    <3>3. ArmedOnlyWhenDown' /\ StrandedOnlyBlind' /\ ClockInv'
      BY <2>1 DEF ArmedOnlyWhenDown, StrandedOnlyBlind, Stranded, ClockInv, armedAfterConnect
    <3> QED
      BY <3>1, <3>2, <3>3 DEF TypeOK, TimesOK, FlagsOK
  <2>2. CASE connect!2
    <3>1. /\ reconnectMqtt' /\ lastReconnectTry' \in 0..(Wrap - 1)
          /\ sinceLoss' \in 0..Long /\ ClockInv'
      BY <1>1, <2>2, ArmStartsClock DEF Retry
    <3>2. TypeOK'
      BY <1>1, <1>0, <2>2, <3>1 DEF Retry, TypeOK, Arm
    <3>3. ArmedOnlyWhenDown' /\ StrandedOnlyBlind'
      BY <1>1, <2>2, <3>1 DEF Retry, ArmedOnlyWhenDown, StrandedOnlyBlind, Stranded
    <3> QED
      BY <3>1, <3>2, <3>3
  <2> QED
    BY <1>1, <2>1, <2>2 DEF Retry, connect
<1>2. CASE NoRetry
  <2>1. TypeOK' /\ ArmedOnlyWhenDown' /\ StrandedOnlyBlind'
    BY <1>2, <1>0 DEF NoRetry, TypeOK, ArmedOnlyWhenDown, StrandedOnlyBlind, Stranded, member
  <2> QED
    BY <1>2, <2>1, ClockUntouched DEF NoRetry
<1>3. CASE onMqttConnect
  <2>1. TypeOK' /\ ArmedOnlyWhenDown' /\ StrandedOnlyBlind'
    BY <1>3 DEF onMqttConnect, TypeOK, ArmedOnlyWhenDown, StrandedOnlyBlind, Stranded, member
  <2> QED
    BY <1>3, <2>1, ClockUntouched DEF onMqttConnect
<1>4. CASE onMqttDisconnect
  <2>1. CASE wifi
    <3>1. Arm /\ UNCHANGED now
      BY <1>4, <2>1 DEF onMqttDisconnect
    <3>2. /\ reconnectMqtt' /\ lastReconnectTry' \in 0..(Wrap - 1)
          /\ sinceLoss' \in 0..Long /\ ClockInv'
      BY <3>1, ArmStartsClock
    <3>3. TypeOK' /\ ArmedOnlyWhenDown' /\ StrandedOnlyBlind'
      BY <1>4, <3>1, <3>2
         DEF onMqttDisconnect, TypeOK, ArmedOnlyWhenDown, StrandedOnlyBlind, Stranded, Arm
    <3> QED
      BY <3>2, <3>3
  <2>2. CASE ~wifi
    <3>1. TypeOK' /\ ArmedOnlyWhenDown' /\ StrandedOnlyBlind'
      BY <1>4, <2>2
         DEF onMqttDisconnect, TypeOK, ArmedOnlyWhenDown, StrandedOnlyBlind, Stranded, member
    <3> QED
      BY <1>4, <2>2, <3>1, ClockUntouched DEF onMqttDisconnect
  <2> QED
    BY <2>1, <2>2
<1>5. CASE WifiLost \/ WifiBack \/ SocketLost \/ CalmsDown
  <2>1. TimesOK'
    BY <1>5, TypeParts DEF WifiLost, WifiBack, SocketLost, CalmsDown, TimesOK, member
  <2>2. FlagsOK'
    BY <1>5, TypeParts DEF WifiLost, WifiBack, SocketLost, CalmsDown, FlagsOK, member
  <2>3. ArmedOnlyWhenDown' /\ StrandedOnlyBlind'
    BY <1>5 DEF WifiLost, WifiBack, SocketLost, CalmsDown, ArmedOnlyWhenDown,
                StrandedOnlyBlind, Stranded, member
  <2> QED
    BY <1>5, <2>1, <2>2, <2>3, ClockUntouched
       DEF WifiLost, WifiBack, SocketLost, CalmsDown, TypeOK, TimesOK, FlagsOK
<1>6. CASE Tick
  <2>1. now' = IF now = Wrap - 1 THEN 0 ELSE now + 1
    BY <1>6, TickUnfolded DEF Tick, TypeOK
  <2>2. TypeOK' /\ ArmedOnlyWhenDown' /\ StrandedOnlyBlind'
    BY <1>6, <1>0, <2>1
       DEF Tick, TypeOK, ArmedOnlyWhenDown, StrandedOnlyBlind, Stranded, member, Long
  <2>3. ClockInv'
    <3> SUFFICES ASSUME reconnectMqtt', sinceLoss' <= mqttTryReconnectInterval
                 PROVE  Since(lastReconnectTry)' = sinceLoss'
      BY DEF ClockInv
    <3>1. reconnectMqtt /\ lastReconnectTry' = lastReconnectTry /\ sinceLoss' = sinceLoss + 1
      BY <1>6, <1>0 DEF Tick, member, TypeOK, Long
    <3>2. (now - lastReconnectTry) % Wrap = sinceLoss
      BY <3>1, <1>0 DEF ClockInv, Since, TypeOK
    <3>3. /\ sinceLoss = IF now >= lastReconnectTry THEN now - lastReconnectTry
                         ELSE now - lastReconnectTry + Wrap
          /\ (now' - lastReconnectTry) % Wrap =
               IF now' >= lastReconnectTry THEN now' - lastReconnectTry
               ELSE now' - lastReconnectTry + Wrap
      BY <3>2, <2>2, SinceUnfolded DEF TypeOK
    <3>4. sinceLoss + 1 < Wrap
      BY <3>1, <1>0, TimesAssumption DEF TypeOK
    <3> QED
      BY <1>0, <2>1, <3>1, <3>3, <3>4 DEF TypeOK, Since
  <2> QED
    BY <2>2, <2>3
<1>7. CASE Restart
  <2>1. TimesOK'
    BY <1>7, <1>0 DEF Restart, TimesOK, Long
  <2>2. FlagsOK'
    BY <1>7, TypeParts DEF Restart, FlagsOK
  <2>3. ArmedOnlyWhenDown' /\ StrandedOnlyBlind'
    BY <1>7 DEF Restart, ArmedOnlyWhenDown, StrandedOnlyBlind, Stranded
  <2>4. (0 - 0) % Wrap = 0
    BY <1>0, SinceUnfolded
  <2>5. ClockInv'
    BY <1>7, <1>0, <2>4 DEF Restart, ClockInv, Since, Long
  <2> QED
    BY <2>1, <2>2, <2>3, <2>5 DEF TypeOK, TimesOK, FlagsOK
<1>8. CASE UNCHANGED vars
  BY <1>8, ClockUntouched
     DEF vars, member, TypeOK, ArmedOnlyWhenDown, StrandedOnlyBlind, Stranded, ClockInv, Since
<1> QED
  BY <1>1, <1>2, <1>3, <1>4, <1>5, <1>6, <1>7, <1>8 DEF Next, loop

(* The inductive invariant holds in every reachable state.                 *)
THEOREM Invariant == Spec => []IInv
<1>1. QED
  BY InitInv, NextInv, PTL DEF Spec

-------------------------------------------------------------------------------
(* Every variable stays in its type.                                       *)
THEOREM TypeCorrect == Spec => []TypeOK
BY Invariant, PTL DEF IInv

(* The flag that makes loop() connect is up only while the client is       *)
(* disconnected.                                                           *)
THEOREM NeverConnectsTwice == Spec => []ArmedOnlyWhenDown
BY Invariant, PTL DEF IInv

(* Only a loss noticed without WiFi can leave the client alone for good.   *)
THEOREM OnlyABlindLossStrands == Spec => []StrandedOnlyBlind
BY Invariant, PTL DEF IInv

(* Attempts to connect are spaced across every wrap of millis().           *)
THEOREM RetriesAreSpaced == Spec => RetriesSpaced
<1>1. IInv /\ [Next]_vars => [Retry => sinceLoss > mqttTryReconnectInterval]_vars
  <2> SUFFICES ASSUME IInv, Retry
               PROVE  sinceLoss > mqttTryReconnectInterval
    OBVIOUS
  <2>1. reconnectMqtt /\ Since(lastReconnectTry) > mqttTryReconnectInterval
    BY DEF Retry, retryDue
  <2> QED
    BY <2>1, TimesAssumption DEF IInv, ClockInv, TypeOK, Long
<1> QED
  BY <1>1, Invariant, PTL DEF Spec, RetriesSpaced

-------------------------------------------------------------------------------
waiting == {messages[i].id : i \in DOMAIN messages}
handled == {executed[i] : i \in DOMAIN executed}

(* Every command is in one of the two lists, and none is in both or twice. *)
Counted == /\ waiting \cup handled = 1..received
           /\ Len(messages) + Len(executed) = received

(* While no two commands have waited together, a target that no write has  *)
(* failed for has its newest value, or the one command that waits sets it. *)
Newest ==
  ~together =>
    /\ Len(messages) <= 1
    /\ messages # <<>> /\ messages[1].topic \in Targets
         => messages[1].value = newest[messages[1].topic]
    /\ \A t \in Targets \ failed :
         newest[t] # None /\ state[t] # newest[t] => messages # <<>> /\ messages[1].topic = t

CommandsInv == /\ Commands!TypeOK /\ Commands!NeverPopsEmpty /\ Counted
               /\ Commands!AnswersHold /\ Newest

-------------------------------------------------------------------------------
(* What pop_back() takes from the vector and what it leaves.               *)
LEMMA PopBack ==
  ASSUME NEW S, NEW s \in Seq(S), s # <<>>
  PROVE  /\ Len(s) \in Nat \ {0} /\ Commands!Last(s) \in S /\ Commands!Last(s) = s[Len(s)]
         /\ Commands!Front(s) \in Seq(S) /\ Len(Commands!Front(s)) = Len(s) - 1
         /\ \A i \in 1..(Len(s) - 1) : Commands!Front(s)[i] = s[i]
<1>1. Len(s) \in Nat \ {0} /\ DOMAIN s = 1..Len(s)
  OBVIOUS
<1>2. Commands!Last(s) \in S /\ Commands!Last(s) = s[Len(s)]
  BY <1>1 DEF Commands!Last
<1>3. Commands!Front(s) \in Seq(S) /\ Len(Commands!Front(s)) = Len(s) - 1
  BY <1>1 DEF Commands!Front
<1>4. \A i \in 1..(Len(s) - 1) : Commands!Front(s)[i] = s[i]
  BY <1>1 DEF Commands!Front
<1> QED
  BY <1>1, <1>2, <1>3, <1>4

(* A value appended to a list.                                             *)
LEMMA PushBack ==
  ASSUME NEW S, NEW s \in Seq(S), NEW x \in S
  PROVE  /\ Append(s, x) \in Seq(S) /\ Len(Append(s, x)) = Len(s) + 1
         /\ DOMAIN Append(s, x) = 1..(Len(s) + 1)
         /\ Append(s, x)[Len(s) + 1] = x
         /\ \A i \in 1..Len(s) : Append(s, x)[i] = s[i]
         /\ Append(s, x) # <<>>
OBVIOUS

(* The initial states satisfy the invariant.                               *)
LEMMA CommandsInitInv == ASSUME Commands!Init PROVE CommandsInv
<1>1. Commands!TypeOK
  <2>1. messages \in Seq(Commands!Message) /\ executed \in Seq(1..MaxCommands) /\ Len(executed) = 0
    BY DEF Commands!Init
  <2>2. received \in 0..MaxCommands /\ 0 <= MaxCommands
    BY CommandsAssumption DEF Commands!Init
  <2> QED
    BY <2>1, <2>2 DEF Commands!Init, Commands!TypeOK
<1>2. Counted
  BY DEF Commands!Init, Counted, waiting, handled
<1> QED
  BY <1>1, <1>2 DEF Commands!Init, CommandsInv, Commands!NeverPopsEmpty, Commands!AnswersHold, Newest

(* A message that the client delivers keeps the invariant.                 *)
LEMMA PushInv ==
  ASSUME CommandsInv, NEW t \in Targets \cup {Unknown}, NEW v \in Value,
         Commands!onMqttMessage(t, v)
  PROVE  CommandsInv'
<1> DEFINE m == [id |-> received + 1, topic |-> t, value |-> v]
<1> USE DEF CommandsInv
<1>1. received \in 0..MaxCommands /\ received < MaxCommands
  BY CommandsAssumption DEF Commands!TypeOK, Commands!onMqttMessage
<1>2. m \in Commands!Message
  <2>1. received + 1 \in 1..MaxCommands
    BY <1>1, CommandsAssumption
  <2> QED
    BY <2>1 DEF Commands!Message
<1>3. messages \in Seq(Commands!Message)
  BY DEF Commands!TypeOK
<1>4. messages' = Append(messages, m)
  BY DEF Commands!onMqttMessage, Commands!pushed
<1>5. /\ messages' \in Seq(Commands!Message) /\ Len(messages') = Len(messages) + 1
      /\ DOMAIN messages' = 1..(Len(messages) + 1)
      /\ messages'[Len(messages) + 1] = m
      /\ \A i \in 1..Len(messages) : messages'[i] = messages[i]
      /\ messages' # <<>>
  BY <1>2, <1>3, <1>4, PushBack
<1>6. Commands!TypeOK'
  <2>1. received' \in 0..MaxCommands /\ together' \in BOOLEAN
    BY <1>1, CommandsAssumption DEF Commands!TypeOK, Commands!onMqttMessage
  <2>2. newest' \in [Targets -> Value \cup {None}]
    BY DEF Commands!TypeOK, Commands!onMqttMessage
  <2> QED
    BY <1>5, <2>1, <2>2 DEF Commands!TypeOK, Commands!onMqttMessage
<1>7. Counted'
  <2>1. waiting' = waiting \cup {received + 1}
    BY <1>3, <1>5 DEF waiting
  <2>2. handled' = handled /\ Len(executed') = Len(executed) /\ received' = received + 1
    BY DEF handled, Commands!onMqttMessage
  <2> QED
    BY <1>1, <1>3, <1>5, <2>1, <2>2, CommandsAssumption DEF Counted, Commands!TypeOK
<1>8. Commands!NeverPopsEmpty' /\ Commands!AnswersHold'
  BY <1>5 DEF Commands!NeverPopsEmpty, Commands!AnswersHold, Commands!onMqttMessage
<1>9. Newest'
  <2> SUFFICES ASSUME ~together' PROVE Newest'
    BY DEF Newest
  <2>1. messages = <<>> /\ ~together
    BY DEF Commands!onMqttMessage, Commands!TypeOK
  <2>2. Len(messages') = 1 /\ messages'[1] = m
    BY <1>5, <2>1
  <2>3. newest' = IF t \in Targets THEN [newest EXCEPT ![t] = v] ELSE newest
    BY DEF Commands!onMqttMessage
  <2>4. state' = state /\ failed' = failed
    BY DEF Commands!onMqttMessage
  <2> QED
    BY <1>5, <2>1, <2>2, <2>3, <2>4 DEF Newest, Commands!TypeOK
<1> QED
  BY <1>6, <1>7, <1>8, <1>9

(* A message that is handled keeps the invariant.                          *)
LEMMA HandleInv ==
  ASSUME CommandsInv, Commands!handleMessages
  PROVE  CommandsInv'
<1> DEFINE msg == Commands!Last(messages)
<1> USE DEF CommandsInv
<1>1. messages \in Seq(Commands!Message) /\ messages # <<>>
  BY DEF Commands!TypeOK, Commands!NeverPopsEmpty, Commands!handleMessages
<1>2. /\ Len(messages) \in Nat \ {0} /\ msg \in Commands!Message /\ msg = messages[Len(messages)]
      /\ messages' \in Seq(Commands!Message) /\ Len(messages') = Len(messages) - 1
      /\ \A i \in 1..(Len(messages) - 1) : messages'[i] = messages[i]
  BY <1>1, PopBack DEF Commands!handleMessages, Commands!popMsg, Commands!popped
<1>3. executed' = Append(executed, msg.id) /\ msg.id \in 1..MaxCommands
  BY <1>2 DEF Commands!handleMessages, Commands!popMsg, Commands!Message
<1>4. executed \in Seq(1..MaxCommands) /\ received \in 0..MaxCommands /\ received' = received
  BY DEF Commands!TypeOK, Commands!handleMessages
<1>5. /\ executed' \in Seq(1..MaxCommands) /\ Len(executed') = Len(executed) + 1
      /\ DOMAIN executed' = 1..(Len(executed) + 1)
      /\ executed'[Len(executed) + 1] = msg.id
      /\ \A i \in 1..Len(executed) : executed'[i] = executed[i]
  BY <1>3, <1>4, PushBack
<1>6. Counted'
  <2>1. handled' = handled \cup {msg.id}
    BY <1>4, <1>5 DEF handled
  <2>2. waiting = waiting' \cup {msg.id}
    <3>1. DOMAIN messages = 1..Len(messages) /\ DOMAIN messages' = 1..(Len(messages) - 1)
      BY <1>1, <1>2
    <3> QED
      BY <1>2, <3>1 DEF waiting
  <2>3. waiting' \cup handled' = 1..received'
    BY <1>4, <2>1, <2>2 DEF Counted
  <2>4. Len(messages') + Len(executed') = received'
    <3>1. Len(messages) + Len(executed) = received
      BY DEF Counted
    <3>2. /\ Len(executed) \in Nat /\ Len(messages) \in Nat
          /\ Len(messages') = Len(messages) - 1 /\ Len(executed') = Len(executed) + 1
          /\ received' = received
      BY <1>2, <1>4, <1>5
    <3> QED
      BY <3>1, <3>2
  <2> QED
    BY <2>3, <2>4 DEF Counted
<1>7. /\ dataReady' = (dataReady /\ messages' # <<>>)
      /\ dataReady' \in BOOLEAN /\ Commands!NeverPopsEmpty'
  BY DEF Commands!handleMessages, Commands!popMsg, Commands!stillReady,
         Commands!NeverPopsEmpty, Commands!TypeOK
<1>8. /\ newest' = newest /\ together' = together
  BY DEF Commands!handleMessages
<1>9. CASE msg.topic \in Targets
  <2>1. PICK done \in BOOLEAN :
          /\ state' = [state EXCEPT ![msg.topic] = msg.value] \/ (~done /\ state' = state)
          /\ failed' = IF done THEN failed ELSE failed \cup {msg.topic}
          /\ published' = [published EXCEPT ![msg.topic] = IF done THEN msg.value ELSE None]
          /\ pc' = "answer"
    <3>1. CASE msg.topic = Relay /\ Commands!setRelay(msg.value) /\ pc' = "answer"
      BY <3>1 DEF Commands!setRelay, Commands!reported
    <3>2. CASE /\ msg.topic \in Targets \ {Relay}
               /\ Commands!writePayload(msg.topic, msg.value) /\ pc' = "answer"
      BY <3>2 DEF Commands!writePayload, Commands!reported
    <3> QED
      BY <1>9, <3>1, <3>2, CommandsAssumption DEF Commands!handleMessages
  <2>2. msg.value \in Value
    BY <1>2 DEF Commands!Message
  <2>3. Commands!TypeOK'
    <3>1. state' \in [Targets -> Value] /\ failed' \subseteq Targets
      BY <1>9, <2>1, <2>2 DEF Commands!TypeOK
    <3>2. published' \in [Targets -> Value \cup {None}]
      BY <1>9, <2>1, <2>2 DEF Commands!TypeOK
    <3>3. Len(executed') <= MaxCommands
      BY <1>2, <1>4, <1>5, <1>6, CommandsAssumption DEF Counted
    <3> QED
      BY <1>2, <1>4, <1>5, <1>7, <1>8, <2>1, <3>1, <3>2, <3>3 DEF Commands!TypeOK
  <2>4. Commands!AnswersHold'
    BY <1>9, <2>1, <2>2 DEF Commands!AnswersHold, Commands!TypeOK
  <2>5. Newest'
    <3> SUFFICES ASSUME ~together PROVE Newest'
      BY <1>8 DEF Newest
    <3>1. Len(messages) = 1 /\ messages[1] = msg /\ messages' = <<>>
      BY <1>1, <1>2 DEF Newest
    <3>2. msg.value = newest[msg.topic]
      BY <1>1, <1>9, <3>1 DEF Newest
    <3>3. ASSUME NEW t \in Targets \ failed', newest[t] # None, state'[t] # newest[t]
          PROVE  FALSE
      <4>1. CASE t = msg.topic
        BY <2>1, <3>2, <3>3, <4>1 DEF Commands!TypeOK
      <4>2. CASE t # msg.topic
        <5>1. state'[t] = state[t] /\ t \in Targets \ failed
          BY <2>1, <3>3, <4>2 DEF Commands!TypeOK
        <5> QED
          BY <3>1, <3>3, <4>2, <5>1 DEF Newest
      <4> QED
        BY <4>1, <4>2
    <3> QED
      BY <1>8, <3>1, <3>3 DEF Newest
  <2> QED
    BY <1>6, <1>7, <2>3, <2>4, <2>5
<1>10. CASE msg.topic \notin Targets
  <2>1. UNCHANGED <<state, published, failed>> /\ pc' = "client"
    BY <1>10, CommandsAssumption DEF Commands!handleMessages
  <2>2. Len(executed') <= MaxCommands
    BY <1>2, <1>4, <1>5, <1>6, CommandsAssumption DEF Counted
  <2>3. Commands!TypeOK'
    BY <1>2, <1>4, <1>5, <1>7, <1>8, <2>1, <2>2 DEF Commands!TypeOK
  <2>4. Commands!AnswersHold'
    BY <2>1 DEF Commands!AnswersHold
  <2>5. Newest'
    <3> SUFFICES ASSUME ~together PROVE Newest'
      BY <1>8 DEF Newest
    <3>1. Len(messages) = 1 /\ messages[1] = msg /\ messages' = <<>>
      BY <1>1, <1>2 DEF Newest
    <3> QED
      BY <1>8, <1>10, <2>1, <3>1 DEF Newest
  <2> QED
    BY <1>6, <1>7, <2>3, <2>4, <2>5
<1> QED
  BY <1>9, <1>10

(* So does every step.                                                     *)
LEMMA CommandsNextInv == ASSUME CommandsInv, [Commands!Next]_(Commands!vars) PROVE CommandsInv'
<1>1. CASE UNCHANGED <<Commands!queue, state, published, received, executed, newest, failed, together>>
            /\ pc' \in {"client", "handle", "answer"}
  BY <1>1 DEF Commands!queue, CommandsInv, Commands!TypeOK, Commands!NeverPopsEmpty, Counted,
             waiting, handled, Commands!AnswersHold, Newest
<1>2. CASE Commands!NoMessage \/ Commands!EndAnswer \/ Commands!LoopAgain \/ UNCHANGED Commands!vars
  BY <1>1, <1>2 DEF Commands!NoMessage, Commands!EndAnswer, Commands!LoopAgain, Commands!vars,
                    CommandsInv, Commands!TypeOK
<1>3. CASE Commands!handleMessages
  BY <1>3, HandleInv
<1>4. ASSUME NEW t \in Targets \cup {Unknown}, NEW v \in Value, Commands!onMqttMessage(t, v)
      PROVE  CommandsInv'
  BY <1>4, PushInv
<1> QED
  BY <1>2, <1>3, <1>4 DEF Commands!Next, Commands!loop

(* A step of the composition is one of the commands or leaves them alone.  *)
LEMMA CommandsStep == [MCNext]_MCvars => [Commands!Next]_(Commands!vars)
BY DEF MCNext, MCvars, OfReconnect, OfCommands, commandVars, Commands!vars, Commands!queue

(* The inductive invariant holds in every reachable state.                 *)
THEOREM CommandsInvariant == MCSpec => []CommandsInv
<1>1. MCInit => CommandsInv
  BY CommandsInitInv DEF MCInit
<1>2. CommandsInv /\ [MCNext]_MCvars => CommandsInv'
  BY CommandsStep, CommandsNextInv
<1> QED
  BY <1>1, <1>2, PTL DEF MCSpec

(* Every variable of the commands stays in its type.                       *)
THEOREM CommandsTypeCorrect == MCSpec => []Commands!TypeOK
BY CommandsInvariant, PTL DEF CommandsInv

(* What the last answer for a target says of its value is still so.        *)
THEOREM AnswersStayTrue == MCSpec => []AnswersHold
BY CommandsInvariant, PTL DEF CommandsInv, AnswersHold

(* The vector is never popped empty, no command is lost or handled twice,  *)
(* and one who waits for each command sees them in order.                  *)
THEOREM QueueIsSound == MCSpec => []QueueSound
<1>1. CommandsInv => QueueSound
  <2> SUFFICES ASSUME CommandsInv PROVE Commands!QueueSound
    BY DEF QueueSound
  <2>1. Commands!HandledOnce
    BY DEF CommandsInv, Counted, Commands!HandledOnce, waiting, handled, Commands!ToSet
  <2>2. Commands!AwaitedOrderKept
    BY DEF CommandsInv, Newest, Commands!AwaitedOrderKept
  <2> QED
    BY <2>1, <2>2 DEF CommandsInv, Commands!QueueSound
<1> QED
  BY <1>1, CommandsInvariant, PTL
==============================================================================
