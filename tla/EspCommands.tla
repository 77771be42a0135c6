----------------------------- MODULE EspCommands ------------------------------
(***************************************************************************)
(* The commands of the ESPMQTT build of MQTTClient (src/src/mqtt.cpp, the  *)
(* #else half): the vector of messages between the client's callback and   *)
(* MQTTClient::loop(), and what handling one does to the relay and the     *)
(* registers.                                                              *)
(*                                                                         *)
(* On the ESP8266 the callback runs inside mqttClient.loop(), which        *)
(* sendPayload() calls too: messages are pushed while values are           *)
(* published, and while a command is answered, but never inside popMsg()   *)
(* or during a transaction on the bus, so pushLocked and popLocked are     *)
(* never seen raised.  RegisterWrite shows that a write may be taken as    *)
(* one step.  Payloads that come in one piece are modelled.                *)
(***************************************************************************)
EXTENDS Integers, SequencesExt

CONSTANTS Targets,        \* the relay, and registers with a topic to set them
          Relay,          \* the one of them that cannot fail
          Unknown,        \* a subscribed topic with no such register, no target
          Value,          \* what payloads of an accepted length say
          None,           \* no value of these
          MaxCommands     \* bound: commands received

VARIABLES
  messages, dataReady,
  pc,             \* "client" where mqttClient.loop() may run, "answer" in the
                  \* one of sendPayload(), "handle" before handleMessages()
  state,          \* of each target
  published,      \* the value it has by the last answer, None after a failure
  received,       \* history: commands pushed
  executed,       \* history: numbers of the commands handled, in this order
  newest,         \* history: value of the newest command that named a target
  failed,        \* history: targets that a write has failed for
  together        \* history: two commands have waited at a time

queue == <<messages, dataReady>>
vars  == <<queue, pc, state, published, received, executed, newest, failed, together>>

Message == [id : 1..MaxCommands, topic : Targets \cup {Unknown}, value : Value]

-------------------------------------------------------------------------------
(* Defects that the runs must notice; no action uses them.                 *)
AlwaysLowered(rest)    == FALSE
DroppedWhenBusy(m)     == IF pc = "answer" THEN messages ELSE Append(messages, m)
ResultIgnored(v, done) == v

(* if (messages.empty()) dataReady = false                                 *)
stillReady(rest) == dataReady /\ rest # <<>>

(* messages.emplace_back()                                                 *)
pushed(m) == Append(messages, m)

(* messages.pop_back()                                                     *)
popped(s) == Front(s)

(* The value that the message on the state or result topic stands for.     *)
reported(v, done) == IF done THEN v ELSE None

-------------------------------------------------------------------------------
Init == /\ messages = <<>> /\ dataReady = FALSE
        /\ pc = "client"
        /\ state \in [Targets -> Value]
        /\ published = [t \in Targets |-> None]
        /\ received = 0 /\ executed = <<>>
        /\ newest = [t \in Targets |-> None]
        /\ failed = {}
        /\ together = FALSE

(* A payload of an accepted length; any other is forgotten at once.        *)
onMqttMessage(t, v) ==
  /\ pc \in {"client", "answer"}
  /\ received < MaxCommands
  /\ messages' = pushed([id |-> received + 1, topic |-> t, value |-> v])
  /\ dataReady' = TRUE
  /\ received' = received + 1
  /\ newest' = IF t \in Targets THEN [newest EXCEPT ![t] = v] ELSE newest
  /\ together' = (together \/ messages # <<>>)
  /\ UNCHANGED <<pc, state, published, executed, failed>>

popMsg == /\ messages' = popped(messages)
          /\ dataReady' = stillReady(messages')
          /\ executed' = Append(executed, Last(messages).id)

(* The relay obeys; the write of a register may fail, carried out or not   *)
(* (RegisterWrite).  Both are answered.                                    *)
setRelay(v) == /\ state' = [state EXCEPT ![Relay] = v]
               /\ published' = [published EXCEPT ![Relay] = reported(v, TRUE)]
               /\ UNCHANGED failed

writePayload(t, v) ==
  \E done \in BOOLEAN :
    /\ state' \in {[state EXCEPT ![t] = v]} \cup (IF done THEN {} ELSE {state})
    /\ failed' = IF done THEN failed ELSE failed \cup {t}
    /\ published' = [published EXCEPT ![t] = reported(v, done)]

handleMessages ==
  /\ pc = "handle" /\ dataReady
  /\ popMsg
  /\ LET msg == Last(messages) IN
     \/ msg.topic = Relay /\ setRelay(msg.value) /\ pc' = "answer"
     \/ /\ msg.topic \in Targets \ {Relay}
        /\ writePayload(msg.topic, msg.value) /\ pc' = "answer"
     \/ /\ msg.topic = Unknown
        /\ pc' = "client" /\ UNCHANGED <<state, published, failed>>
  /\ UNCHANGED <<received, newest, together>>

NoMessage == /\ pc = "handle" /\ ~dataReady
             /\ pc' = "client"
             /\ UNCHANGED <<queue, state, published, received, executed, newest, failed, together>>

(* The nested mqttClient.loop() is over.                                   *)
EndAnswer == /\ pc = "answer"
             /\ pc' = "client"
             /\ UNCHANGED <<queue, state, published, received, executed, newest, failed, together>>

(* mqttClient.loop() and the rest of the main loop, up to the next run.    *)
LoopAgain == /\ pc = "client"
             /\ pc' = "handle"
             /\ UNCHANGED <<queue, state, published, received, executed, newest, failed, together>>

loop == handleMessages \/ NoMessage \/ EndAnswer \/ LoopAgain

Next == loop \/ \E t \in Targets \cup {Unknown}, v \in Value : onMqttMessage(t, v)

(* The main loop goes on; messages need not come.                          *)
Spec == Init /\ [][Next]_vars /\ WF_vars(loop)

-------------------------------------------------------------------------------
(* The values every variable stays in.                                     *)
TypeOK ==
  /\ messages \in Seq(Message) /\ dataReady \in BOOLEAN
  /\ pc \in {"client", "handle", "answer"}
  /\ state \in [Targets -> Value]
  /\ published \in [Targets -> Value \cup {None}]
  /\ received \in 0..MaxCommands
  /\ executed \in Seq(1..MaxCommands) /\ Len(executed) <= MaxCommands
  /\ newest \in [Targets -> Value \cup {None}]
  /\ failed \subseteq Targets
  /\ together \in BOOLEAN

(* popMsg() finds a message whenever handleMessages() calls it: back() of  *)
(* an empty vector is undefined (dataReady, set and reset in two places).  *)
NeverPopsEmpty == dataReady => messages # <<>>

(* Every accepted command is waiting or has been handled, and none is      *)
(* handled twice, whatever was pushed while another was answered           *)
(* (onMqttMessage, popMsg).                                                *)
HandledOnce ==
  LET waiting == {messages[i].id : i \in DOMAIN messages}
      done    == ToSet(executed) IN
  /\ waiting \cup done = 1..received
  /\ Len(messages) + Len(executed) = received

(* What the last answer for a target says of its value is still so: the    *)
(* answer is sent with the result of the write, before the next command    *)
(* (setRelay, writePayload, sendPayload).                                  *)
AnswersHold == \A t \in Targets : published[t] # None => published[t] = state[t]

(* The queue is taken from its back, so commands that wait together are    *)
(* carried out in reverse.  One who sends a command only after the last    *)
(* was carried out gets the newest value (popMsg).                         *)
AwaitedOrderKept ==
  messages = <<>> /\ ~together =>
    \A t \in Targets \ failed : newest[t] # None => state[t] = newest[t]

(* The vector is used soundly by the two that share it, the callback and   *)
(* loop(): it is never popped empty, no command is lost or handled twice,  *)
(* and one who waits for each command to be carried out sees them in order.*)
QueueSound == NeverPopsEmpty /\ HandledOnce /\ AwaitedOrderKept

(* Every accepted command is handled once no more of them come: none is    *)
(* left in the vector with the flag down.                                  *)
AllHandled == []<>(dataReady = FALSE /\ messages = <<>>)
===============================================================================
